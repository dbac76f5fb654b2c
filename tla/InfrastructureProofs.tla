------------------------ MODULE InfrastructureProofs ------------------------
(***************************************************************************)
(* Theorems about the stages of the infrastructure and of the timetable in *)
(* which several threads work, for any rail plan, any directory and any    *)
(* number of threads.                                                      *)
(*                                                                         *)
(* The users of an element are exactly the routes that claim it, in the    *)
(* exclusion stage alone and with the timetable parser behind it.  And     *)
(* every train of every file is parsed once: it is in the timetable as a   *)
(* whole, at its place, or it is counted as one error.                     *)
(*                                                                         *)
(* The interlocking routes are exactly those that lead from one stop to    *)
(* the next, and the path of every station route follows its course.       *)
(* Routes exclude each other exactly if they claim a common element and    *)
(* neither follows the other.                                              *)
(*                                                                         *)
(* All views of an interlocking route show the same nodes: what is         *)
(* iterated over, its size, what it contains, and the mappings to it.      *)
(***************************************************************************)
EXTENDS Timetable, BasicLemmas

\* The stages in which there are claims.
HasClaims == stage \in {"threads", "exclusion_graph", "cliques", "done"}

\* The routes of thread t that are done and claim e.
UsersFound(t, e) == {ir \in from(t)..(next_ir[t] - 1) : e \in closed[ir]}

Claimers(e) == {ir \in 1..IrCount : e \in closed[ir]}

CountsOK == HasClaims => IrCount \in Nat /\ thread_count \in Nat \ {0}

ThreadOK(t) ==
  /\ next_ir[t] \in from(t)..(last_of_batch(t) + 1)
  /\ \A e \in Elements : thread_results[t][e] = UsersFound(t, e)

ThreadsOK ==
  stage = "threads" =>
    /\ DOMAIN next_ir = Threads /\ DOMAIN thread_results = Threads
    /\ \A t \in Threads : ThreadOK(t)

(***************************************************************************)
(* The inductive invariant: what a thread has found are the users among    *)
(* the routes of its batch it has seen so far.                             *)
(***************************************************************************)
Inv == CountsOK /\ ThreadsOK /\ UsedByExact

-----------------------------------------------------------------------------
(***************************************************************************)
(* The batches of the threads.                                             *)
(***************************************************************************)
LEMMA BatchFacts ==
  ASSUME IrCount \in Nat, thread_count \in Nat \ {0}, NEW t \in Threads
  PROVE  /\ from(t) \in Nat /\ from(t) >= 1
         /\ last_of_batch(t) \in Nat
         /\ from(t) <= last_of_batch(t) + 1
         /\ last_of_batch(t) <= IrCount
<1> DEFINE b == IrCount \div thread_count
           n == IrCount
           c == thread_count
<1>1. b \in Nat
  OBVIOUS
<1>2. c * b <= n
  OBVIOUS
<1>3. t \in Nat /\ t >= 1 /\ t <= c /\ c \in Nat /\ n \in Nat
  BY DEF Threads
<1>4. batch_size = b
  BY DEF batch_size
<1> HIDE DEF b, n, c
<1>5. (t - 1) * b \in Nat /\ t * b \in Nat /\ t * b = (t - 1) * b + b
  BY <1>1, <1>3
<1>6. t * b <= c * b
  BY <1>1, <1>3
<1>7. c * b \in Nat
  BY <1>1, <1>3
<1>8. from(t) = (t - 1) * b + 1
  BY <1>4 DEF from
<1>9. last_of_batch(t) \in {n, t * b}
  BY <1>4 DEF last_of_batch, n
<1> DEFINE p == (t - 1) * b
           q == t * b
           r == c * b
<1>10. p \in Nat /\ q \in Nat /\ q = p + b /\ q <= r /\ r <= n /\ r \in Nat
  BY <1>2, <1>5, <1>6, <1>7
<1>11. from(t) = p + 1 /\ last_of_batch(t) \in {n, q}
  BY <1>8, <1>9
<1> HIDE DEF p, q, r
<1> QED BY <1>1, <1>3, <1>10, <1>11 DEF n

\* The same of all threads, as a fact of states.
CountsTyped == IrCount \in Nat /\ thread_count \in Nat \ {0}

BatchesTyped ==
  \A t \in Threads : /\ from(t) \in Nat /\ last_of_batch(t) \in Nat
                     /\ from(t) <= last_of_batch(t) + 1

LEMMA Batches == CountsTyped => BatchesTyped
  BY BatchFacts DEF CountsTyped, BatchesTyped

\* Every route is in the batch of a thread.
LEMMA EveryRouteInBatch ==
  ASSUME IrCount \in Nat, thread_count \in Nat \ {0}, NEW ir \in 1..IrCount
  PROVE  \E t \in Threads : from(t) <= ir /\ ir <= last_of_batch(t)
<1> DEFINE b == batch_size
           c == thread_count
<1>1. b \in Nat /\ c \in Nat /\ c >= 1
  BY DEF batch_size
<1>2. CASE ir > (c - 1) * b
  <2>1. c \in Threads
    BY <1>1 DEF Threads
  <2>2. last_of_batch(c) = IrCount
    BY DEF last_of_batch
  <2>3. from(c) <= ir
    <3>1. from(c) = (c - 1) * b + 1
      BY DEF from
    <3> DEFINE p == (c - 1) * b
    <3>2. p \in Nat
      <4> HIDE DEF b, c
      <4> QED BY <1>1
    <3>3. ir > p /\ from(c) = p + 1
      BY <1>2, <3>1
    <3> HIDE DEF p
    <3> QED BY <3>2, <3>3
  <2> QED BY <2>1, <2>2, <2>3
<1>3. CASE ~(ir > (c - 1) * b)
  <2> DEFINE ahead == {t \in Nat : ir <= t * b}
  <2>1. c - 1 \in ahead
    <3>1. (c - 1) * b \in Nat /\ c - 1 \in Nat
      <4> HIDE DEF b, c
      <4> QED BY <1>1
    <3> QED BY <3>1, <1>3
  <2>2. PICK t \in ahead : \A y \in ahead : t <= y
    <3> HIDE DEF ahead
    <3>1. ahead \subseteq Nat
      BY DEF ahead
    <3> QED BY <2>1, <3>1, LeastNat
  <2>3. t \in Nat /\ ir <= t * b /\ t <= c - 1
    BY <2>1, <2>2
  <2>4. t # 0
    <3>1. 0 * b = 0
      <4> HIDE DEF b
      <4> QED BY <1>1
    <3> QED BY <2>3, <3>1
  <2>5. t - 1 \notin ahead
    BY <2>2, <2>3, <2>4
  <2>6. (t - 1) * b < ir
    <3>1. (t - 1) * b \in Nat /\ t - 1 \in Nat
      <4> HIDE DEF b, ahead
      <4> QED BY <1>1, <2>3, <2>4
    <3> QED BY <2>5, <3>1
  <2>7. t \in Threads /\ t # thread_count
    BY <1>1, <2>3, <2>4 DEF Threads
  <2>8. last_of_batch(t) = t * b
    BY <2>7 DEF last_of_batch
  <2>9. from(t) <= ir
    <3>1. from(t) = (t - 1) * b + 1
      BY DEF from
    <3> DEFINE p == (t - 1) * b
    <3>2. p \in Nat
      <4> HIDE DEF b, ahead
      <4> QED BY <1>1, <2>3, <2>4
    <3>3. p < ir /\ from(t) = p + 1
      BY <2>6, <3>1
    <3> HIDE DEF p
    <3> QED BY <3>2, <3>3
  <2> QED BY <2>3, <2>7, <2>8, <2>9
<1> QED BY <1>2, <1>3

\* When all threads have finished, their results are the claims.
LEMMA FinishedThreads ==
  ASSUME CountsOK, ThreadsOK, stage = "threads",
         \A t \in Threads : Finished(t), NEW e \in Elements
  PROVE  UNION {thread_results[t][e] : t \in Threads} = Claimers(e)
<1>1. IrCount \in Nat /\ thread_count \in Nat \ {0}
  BY DEF CountsOK, HasClaims
<1>2. ASSUME NEW t \in Threads
      PROVE  thread_results[t][e] = {ir \in from(t)..last_of_batch(t) : e \in closed[ir]}
  <2>1. ThreadOK(t) /\ Finished(t)
    BY <1>2 DEF ThreadsOK
  <2>2. next_ir[t] - 1 = last_of_batch(t)
    <3>1. next_ir[t] \in from(t)..(last_of_batch(t) + 1) /\ next_ir[t] > last_of_batch(t)
      BY <2>1 DEF ThreadOK, Finished
    <3>2. from(t) \in Nat /\ last_of_batch(t) \in Nat
      BY <1>1, <1>2, BatchFacts
    <3> QED BY <3>1, <3>2
  <2>3. thread_results[t][e] = UsersFound(t, e)
    BY <2>1 DEF ThreadOK
  <2> QED BY <2>2, <2>3 DEF UsersFound
<1>3. ASSUME NEW t \in Threads, NEW ir \in thread_results[t][e]
      PROVE  ir \in Claimers(e)
  <2>1. /\ from(t) \in Nat /\ from(t) >= 1
        /\ last_of_batch(t) \in Nat /\ last_of_batch(t) <= IrCount
    BY <1>1, <1>3, BatchFacts
  <2>2. ir \in from(t)..last_of_batch(t) /\ e \in closed[ir]
    BY <1>2, <1>3
  <2>3. ir \in 1..IrCount
    BY <1>1, <2>1, <2>2
  <2> QED BY <2>2, <2>3 DEF Claimers
<1>4. ASSUME NEW ir \in Claimers(e)
      PROVE  \E t \in Threads : ir \in thread_results[t][e]
  <2>1. ir \in 1..IrCount /\ e \in closed[ir]
    BY <1>4 DEF Claimers
  <2>2. PICK t \in Threads : from(t) <= ir /\ ir <= last_of_batch(t)
    BY <1>1, <2>1, EveryRouteInBatch
  <2>3. ir \in from(t)..last_of_batch(t)
    <3>1. from(t) \in Nat /\ last_of_batch(t) \in Nat
      BY <1>1, BatchFacts
    <3> QED BY <1>1, <2>1, <2>2, <3>1
  <2> QED BY <1>2, <2>1, <2>3
<1> QED BY <1>3, <1>4

-----------------------------------------------------------------------------
(***************************************************************************)
(* The steps before: they neither start nor end in a stage with claims.    *)
(***************************************************************************)
LEMMA StepsBefore ==
  ASSUME InterlockingNext
  PROVE  ~HasClaims'
<1>1. ASSUME GraphNext PROVE ~HasClaims'
  <2>1. CASE parse_section
    <3>1. stage = "sections" /\ stage' \in {"borders", stage}
      BY <2>1 DEF parse_section
    <3> QED BY <3>1 DEF HasClaims
  <2>2. CASE complete_borders
    BY <2>2 DEF complete_borders, HasClaims
  <2>3. CASE connect_all_nodes
    BY <2>3 DEF connect_all_nodes, HasClaims
  <2> QED BY <1>1, <2>1, <2>2, <2>3 DEF GraphNext
<1>2. ASSUME RoutesNext PROVE ~HasClaims'
  <2>1. CASE calculate_station_routes
    BY <2>1 DEF calculate_station_routes, HasClaims
  <2>2. CASE get_station_route_graph
    BY <2>2 DEF get_station_route_graph, HasClaims
  <2> QED BY <1>1, <1>2, <2>1, <2>2 DEF RoutesNext
<1>3. CASE start_station_route
  BY <1>3 DEF start_station_route, HasClaims
<1>4. CASE fill_paths
  BY <1>4 DEF fill_paths, HasClaims
<1>5. CASE finish_station_route
  BY <1>5 DEF finish_station_route, HasClaims
<1>6. CASE get_interlocking
  BY <1>6 DEF get_interlocking, HasClaims
<1> QED BY <1>2, <1>3, <1>4, <1>5, <1>6 DEF InterlockingNext

\* Where there are no claims, nothing is said of them.
LEMMA NoClaims ==
  ASSUME ~HasClaims
  PROVE  Inv
BY DEF Inv, CountsOK, ThreadsOK, UsedByExact, HasUsers, HasClaims

LEMMA StartThreads ==
  ASSUME start_threads
  PROVE  Inv'
<1>1. /\ thread_count' \in ThreadCounts
      /\ next_ir' = [t \in Threads' |-> from(t)']
      /\ thread_results' = [t \in Threads' |-> NoUsers]
      /\ stage' = "threads"
      /\ UNCHANGED graph
  BY DEF start_threads, graph_vars
<1>2. IrCount' \in Nat /\ thread_count' \in Nat \ {0}
  BY <1>1, ThreadsAssumption DEF IrCount
<1>3. ASSUME NEW t \in Threads' PROVE ThreadOK(t)'
  <2>1. next_ir'[t] = from(t)' /\ thread_results'[t] = NoUsers
    BY <1>1
  <2>2. from(t)' \in Nat /\ last_of_batch(t)' \in Nat /\ from(t)' <= last_of_batch(t)' + 1
    <3>1. CountsTyped'
      BY <1>2 DEF CountsTyped
    <3>2. BatchesTyped'
      BY <3>1, Batches, PTL
    <3> QED BY <3>2 DEF BatchesTyped
  <2>3. next_ir'[t] \in from(t)'..(last_of_batch(t)' + 1)
    BY <2>1, <2>2
  <2>4. ASSUME NEW e \in Elements' PROVE thread_results'[t][e] = UsersFound(t, e)'
    <3>1. thread_results'[t][e] = {}
      BY <1>1, <2>1 DEF NoUsers, Elements
    <3>2. from(t)'..(next_ir'[t] - 1) = {}
      BY <2>1, <2>2
    <3> QED BY <3>1, <3>2 DEF UsersFound
  <2> QED BY <2>3, <2>4 DEF ThreadOK
<1>4. DOMAIN next_ir' = Threads' /\ DOMAIN thread_results' = Threads'
  BY <1>1
<1>5. ThreadsOK'
  BY <1>3, <1>4 DEF ThreadsOK
<1> QED BY <1>1, <1>2, <1>5 DEF Inv, CountsOK, UsedByExact, HasUsers

LEMMA GenerateUsedBy ==
  ASSUME Inv, NEW t \in Threads, generate_used_by(t)
  PROVE  Inv'
<1>1. /\ stage = "threads" /\ next_ir[t] <= last_of_batch(t)
      /\ thread_results' = [thread_results EXCEPT ![t] = add_user(@, next_ir[t])]
      /\ next_ir' = [next_ir EXCEPT ![t] = @ + 1]
      /\ UNCHANGED <<graph, stage, closed, thread_count, used_by>>
  <2>1. ~(next_ir[t] > last_of_batch(t))
    BY DEF generate_used_by, Finished
  <2>2. IrCount \in Nat /\ thread_count \in Nat \ {0} /\ ThreadOK(t)
    BY DEF generate_used_by, Inv, CountsOK, ThreadsOK, HasClaims
  <2>3. next_ir[t] \in from(t)..(last_of_batch(t) + 1)
    BY <2>2 DEF ThreadOK
  <2>4. from(t) \in Nat /\ last_of_batch(t) \in Nat
    BY <2>2, BatchFacts
  <2>5. next_ir[t] <= last_of_batch(t)
    BY <2>1, <2>3, <2>4
  <2> QED BY <2>5 DEF generate_used_by, graph_vars
<1>2. /\ IrCount \in Nat /\ thread_count \in Nat \ {0}
      /\ DOMAIN next_ir = Threads /\ DOMAIN thread_results = Threads
      /\ \A s \in Threads : ThreadOK(s)
  BY <1>1 DEF Inv, CountsOK, ThreadsOK, HasClaims
<1>3. /\ Threads' = Threads /\ IrCount' = IrCount /\ Elements' = Elements
      /\ \A s \in Threads : from(s)' = from(s) /\ last_of_batch(s)' = last_of_batch(s)
  BY <1>1 DEF Threads, IrCount, Elements, from, last_of_batch, batch_size
<1>4. DOMAIN next_ir' = Threads' /\ DOMAIN thread_results' = Threads'
  BY <1>1, <1>2, <1>3
<1>5. ASSUME NEW s \in Threads, s # t PROVE ThreadOK(s)'
  <2>1. next_ir'[s] = next_ir[s] /\ thread_results'[s] = thread_results[s]
    BY <1>1, <1>2, <1>5
  <2>2. ThreadOK(s)
    BY <1>2
  <2> QED BY <1>1, <1>3, <2>1, <2>2 DEF ThreadOK, UsersFound
<1>6. ThreadOK(t)'
  <2> DEFINE ir == next_ir[t]
  <2>1. next_ir'[t] = ir + 1 /\ thread_results'[t] = add_user(thread_results[t], ir)
    BY <1>1, <1>2
  <2>2. ir \in from(t)..(last_of_batch(t) + 1) /\ ir <= last_of_batch(t)
    BY <1>1, <1>2 DEF ThreadOK
  <2>3. from(t) \in Nat /\ last_of_batch(t) \in Nat
    BY <1>2, BatchFacts
  <2> HIDE DEF ir
  <2>4. next_ir'[t] \in from(t)..(last_of_batch(t) + 1)
    BY <2>1, <2>2, <2>3
  <2>5. from(t)..ir = (from(t)..(ir - 1)) \cup {ir}
    BY <2>2, <2>3
  <2>6. ASSUME NEW e \in Elements PROVE thread_results'[t][e] = UsersFound(t, e)'
    <3>1. thread_results[t][e] = {i \in from(t)..(ir - 1) : e \in closed[i]}
      BY <1>2 DEF ThreadOK, UsersFound, ir
    <3>2. UsersFound(t, e)' = {i \in from(t)..ir : e \in closed[i]}
      <4>1. next_ir'[t] - 1 = ir
        BY <2>1, <2>2, <2>3
      <4> QED BY <1>1, <1>3, <4>1 DEF UsersFound
    <3>3. thread_results'[t][e] =
            IF e \in closed[ir] THEN thread_results[t][e] \cup {ir}
            ELSE thread_results[t][e]
      BY <2>1 DEF add_user
    <3> QED BY <2>5, <3>1, <3>2, <3>3
  <2> QED BY <1>3, <2>4, <2>6 DEF ThreadOK
<1>7. ThreadsOK'
  <2>1. \A s \in Threads' : ThreadOK(s)'
    BY <1>3, <1>5, <1>6
  <2> QED BY <1>4, <2>1 DEF ThreadsOK
<1> QED BY <1>1, <1>2, <1>3, <1>7 DEF Inv, CountsOK, UsedByExact, HasUsers

LEMMA CombineThreadResults ==
  ASSUME Inv, combine_thread_results
  PROVE  Inv'
<1>1. /\ stage = "threads" /\ stage' = "exclusion_graph"
      /\ \A t \in Threads : Finished(t)
      /\ used_by' = [e \in Elements |-> UNION {thread_results[t][e] : t \in Threads}]
      /\ UNCHANGED <<graph, closed, thread_count>>
  BY DEF combine_thread_results, graph_vars
<1>2. IrCount' = IrCount /\ Elements' = Elements
  BY <1>1 DEF IrCount, Elements
<1>3. ASSUME NEW e \in Elements PROVE used_by'[e] = Claimers(e)
  <2>1. UNION {thread_results[t][e] : t \in Threads} = Claimers(e)
    BY <1>1, FinishedThreads DEF Inv
  <2> QED BY <1>1, <2>1
<1>4. UsedByExact'
  BY <1>1, <1>2, <1>3 DEF UsedByExact, Claimers
<1>5. CountsOK'
  BY <1>1, <1>2 DEF Inv, CountsOK, HasClaims
<1> QED BY <1>1, <1>4, <1>5 DEF Inv, ThreadsOK

\* A step that leaves the claims alone, and does not go back to the threads.
LEMMA ClaimsUnchanged ==
  ASSUME Inv, UNCHANGED <<graph, closed, thread_count, used_by>>,
         HasUsers, HasClaims', stage' # "threads"
  PROVE  Inv'
<1>1. IrCount' = IrCount /\ Elements' = Elements
  BY DEF IrCount, Elements
<1>2. HasClaims
  BY DEF HasUsers, HasClaims
<1> QED BY <1>1, <1>2 DEF Inv, CountsOK, ThreadsOK, UsedByExact

\* Steps that change nothing the invariant speaks of.
LEMMA Stutters ==
  ASSUME Inv,
         UNCHANGED <<graph, stage, closed, thread_count, next_ir,
                     thread_results, used_by>>
  PROVE  Inv'
<1>1. Threads' = Threads /\ IrCount' = IrCount /\ Elements' = Elements
  BY DEF Threads, IrCount, Elements
<1>2. ASSUME NEW t PROVE ThreadOK(t)' <=> ThreadOK(t)
  BY <1>1 DEF ThreadOK, UsersFound, from, last_of_batch, batch_size
<1>3. ThreadsOK'
  BY <1>1, <1>2 DEF Inv, ThreadsOK
<1> QED BY <1>1, <1>3 DEF Inv, CountsOK, HasClaims, UsedByExact, HasUsers

LEMMA ExclusionStep ==
  ASSUME Inv, ExclusionNext
  PROVE  Inv'
<1>1. CASE InterlockingNext
  <2>1. ~HasClaims'
    BY <1>1, StepsBefore
  <2> QED BY <2>1, NoClaims, PTL
<1>2. CASE start_threads
  BY <1>2, StartThreads
<1>3. ASSUME NEW t \in Threads, generate_used_by(t) PROVE Inv'
  BY <1>3, GenerateUsedBy
<1>4. CASE combine_thread_results
  BY <1>4, CombineThreadResults
<1>5. CASE get_exclusion_graph
  <2>1. /\ stage = "exclusion_graph" /\ stage' = "cliques"
        /\ UNCHANGED <<graph, closed, thread_count, used_by>>
    BY <1>5 DEF get_exclusion_graph, graph_vars, used_by_vars
  <2> QED BY <2>1, ClaimsUnchanged DEF HasUsers, HasClaims
<1>6. CASE read_exclusion_sets
  <2>1. /\ stage = "cliques" /\ stage' = "done"
        /\ UNCHANGED <<graph, closed, thread_count, used_by>>
    BY <1>6 DEF read_exclusion_sets, graph_vars, used_by_vars
  <2> QED BY <2>1, ClaimsUnchanged DEF HasUsers, HasClaims
<1> QED BY <1>1, <1>2, <1>3, <1>4, <1>5, <1>6 DEF ExclusionNext

LEMMA InfrastructureUnchanged ==
  ASSUME Inv, UNCHANGED infrastructure_vars
  PROVE  Inv'
<1>1. UNCHANGED <<graph, stage, closed, thread_count, next_ir,
                  thread_results, used_by>>
  BY DEF infrastructure_vars, graph_vars, exclusion_vars, used_by_vars
<1> QED BY <1>1, Stutters

LEMMA InitInv ==
  ASSUME ExclusionInit
  PROVE  Inv
<1>1. ~HasClaims
  BY DEF ExclusionInit, InterlockingInit, RoutesInit, GraphInit, HasClaims
<1> QED BY <1>1, NoClaims

-----------------------------------------------------------------------------
(***************************************************************************)
(* What the theorems are about: the infrastructure is built.               *)
(***************************************************************************)
\* However the threads run, what they have found are the users among the
\* routes they have seen (get_exclusion.cc:46).
THEOREM ExclusionInvariant == ExclusionSpec => []Inv
<1>1. Inv /\ [ExclusionNext \/ Complete]_infrastructure_vars => Inv'
  <2> SUFFICES ASSUME Inv, [ExclusionNext \/ Complete]_infrastructure_vars
               PROVE  Inv'
    OBVIOUS
  <2>1. CASE ExclusionNext
    BY <2>1, ExclusionStep
  <2>2. CASE Complete
    BY <2>2, InfrastructureUnchanged DEF Complete
  <2>3. CASE UNCHANGED infrastructure_vars
    BY <2>3, InfrastructureUnchanged
  <2> QED BY <2>1, <2>2, <2>3
<1>2. ExclusionInit => Inv
  BY InitInv
<1> QED BY <1>1, <1>2, PTL DEF ExclusionSpec

\* The users of an element are exactly the routes that claim it, whatever the
\* number of routes and of threads (get_exclusion.cc:46).
THEOREM UsersAreClaimers == ExclusionSpec => []UsedByExact
<1>1. Inv => UsedByExact
  BY DEF Inv
<1> QED BY <1>1, ExclusionInvariant, PTL

-----------------------------------------------------------------------------
(***************************************************************************)
(* The same with the timetable, whose parser only reads the                *)
(* infrastructure.                                                         *)
(***************************************************************************)
LEMMA TimetableStep ==
  ASSUME Inv, TimetableNext \/ Parsed
  PROVE  Inv'
<1>1. CASE ExclusionNext
  BY <1>1, ExclusionStep
<1>2. CASE Complete
  BY <1>2, InfrastructureUnchanged DEF Complete
<1>3. ASSUME open_directory PROVE Inv'
  <2>1. ~HasClaims'
    <3>1. stage = "exclusion" /\ stage' \in {"parsed", "work", stage}
      BY <1>3 DEF open_directory, reject
    <3> QED BY <3>1 DEF HasClaims
  <2> QED BY <2>1, NoClaims, PTL
<1>4. ASSUME NEW p \in Parsers,
             take_item(p) \/ parse_train(p) \/ crash(p) \/ finish_item(p)
      PROVE  Inv'
  <2>1. stage' \in {"work", "crashed"}
    <3>1. take_item(p) => stage = "work" /\ stage' = stage
      BY DEF take_item
    <3>2. parse_train(p) => stage = "work" /\ stage' = stage
      BY DEF parse_train
    <3>3. crash(p) => stage' = "crashed"
      BY DEF crash
    <3>4. finish_item(p) => stage = "work" /\ stage' = stage
      BY DEF finish_item
    <3> QED BY <1>4, <3>1, <3>2, <3>3, <3>4
  <2>2. ~HasClaims'
    BY <2>1 DEF HasClaims
  <2> QED BY <2>2, NoClaims, PTL
<1>5. CASE finish_timetable
  <2>1. ~HasClaims'
    BY <1>5 DEF finish_timetable, HasClaims
  <2> QED BY <2>1, NoClaims, PTL
<1>6. CASE Parsed
  BY <1>6, InfrastructureUnchanged DEF Parsed, vars
<1> QED BY <1>1, <1>2, <1>3, <1>4, <1>5, <1>6 DEF TimetableNext

\* The parsers of a timetable leave the claims as they are, too.
THEOREM UsersAreClaimersWithTimetable == TimetableSpec => []UsedByExact
<1>1. TimetableInit => Inv
  BY InitInv DEF TimetableInit
<1>2. Inv /\ [TimetableNext \/ Parsed]_vars => Inv'
  <2> SUFFICES ASSUME Inv, [TimetableNext \/ Parsed]_vars
               PROVE  Inv'
    OBVIOUS
  <2>1. CASE TimetableNext \/ Parsed
    BY <2>1, TimetableStep
  <2>2. CASE UNCHANGED vars
    BY <2>2, InfrastructureUnchanged DEF vars
  <2> QED BY <2>1, <2>2
<1>3. Inv => UsedByExact
  BY DEF Inv
<1> QED BY <1>1, <1>2, <1>3, PTL DEF TimetableSpec

-----------------------------------------------------------------------------
(***************************************************************************)
(* The trains of the files and their numbers.                              *)
(***************************************************************************)
\* The numbers of the trains of a sequence.
LEMMA NumbersTyped ==
  ASSUME NEW S, NEW s \in Seq(S)
  PROVE  /\ Numbers(s) \in Seq({x.number : x \in S})
         /\ Len(Numbers(s)) = Len(s)
         /\ \A k \in 1..Len(s) : Numbers(s)[k] = s[k].number
<1> DEFINE N == {x.number : x \in S}
           m == Numbers(s)
<1>1. Len(s) \in Nat /\ DOMAIN s = 1..Len(s)
  OBVIOUS
<1>2. m = [k \in 1..Len(s) |-> s[k].number]
  BY <1>1 DEF Numbers
<1>3. \A k \in 1..Len(s) : s[k].number \in N
  <2>1. \A k \in 1..Len(s) : s[k] \in S
    OBVIOUS
  <2> QED BY <2>1
<1> HIDE DEF m, N
<1>4. m \in [1..Len(s) -> N]
  BY <1>2, <1>3
<1>5. m \in Seq(N) /\ Len(m) = Len(s)
  BY <1>1, <1>4, IsASeq, LenProperties
<1>6. \A k \in 1..Len(s) : m[k] = s[k].number
  BY <1>2
<1> QED BY <1>5, <1>6 DEF m, N

\* The numbers of two lists of trains, one behind the other.
LEMMA NumbersConcat ==
  ASSUME NEW S, NEW s \in Seq(S), NEW t \in Seq(S)
  PROVE  Numbers(s \o t) = Numbers(s) \o Numbers(t)
<1> DEFINE N == {x.number : x \in S}
           a == Numbers(s)
           b == Numbers(t)
           c == Numbers(s \o t)
           st == s \o t
<1>1. st \in Seq(S) /\ Len(st) = Len(s) + Len(t)
  OBVIOUS
<1>2. a \in Seq(N) /\ Len(a) = Len(s) /\ \A k \in 1..Len(s) : a[k] = s[k].number
  BY NumbersTyped
<1>3. b \in Seq(N) /\ Len(b) = Len(t) /\ \A k \in 1..Len(t) : b[k] = t[k].number
  BY NumbersTyped
<1>4. c \in Seq(N) /\ Len(c) = Len(st) /\ \A k \in 1..Len(st) : c[k] = st[k].number
  <2> HIDE DEF st
  <2>1. Numbers(st) \in Seq(N) /\ Len(Numbers(st)) = Len(st)
        /\ \A k \in 1..Len(st) : Numbers(st)[k] = st[k].number
    BY <1>1, NumbersTyped
  <2> QED BY <2>1 DEF st
<1>5. \A k \in 1..Len(st) : st[k] = IF k <= Len(s) THEN s[k] ELSE t[k - Len(s)]
  OBVIOUS
<1>6. Len(s) \in Nat /\ Len(t) \in Nat
  OBVIOUS
<1> HIDE DEF a, b, c, st, N
<1> DEFINE ab == a \o b
<1>7. ab \in Seq(N) /\ Len(ab) = Len(a) + Len(b)
      /\ \A k \in 1..Len(ab) : ab[k] = IF k <= Len(a) THEN a[k] ELSE b[k - Len(a)]
  <2>1. a \in Seq(N) /\ b \in Seq(N)
    BY <1>2, <1>3
  <2>2. ab \in Seq(N) /\ Len(ab) = Len(a) + Len(b)
    BY <2>1, ConcatProperties
  <2>3. \A k \in 1..(Len(a) + Len(b)) :
          ab[k] = IF k <= Len(a) THEN a[k] ELSE b[k - Len(a)]
    BY <2>1, ConcatProperties
  <2> HIDE DEF ab
  <2> QED BY <2>2, <2>3
<1> HIDE DEF ab
<1>8. \A k \in 1..Len(ab) : ab[k] = c[k]
  <2> SUFFICES ASSUME NEW k \in 1..Len(ab) PROVE ab[k] = c[k]
    OBVIOUS
  <2>1. k \in 1..Len(st) /\ c[k] = st[k].number
    BY <1>1, <1>2, <1>3, <1>4, <1>6, <1>7
  <2>2. CASE k <= Len(s)
    <3>1. st[k] = s[k] /\ ab[k] = a[k] /\ a[k] = s[k].number
      BY <2>1, <2>2, <1>2, <1>5, <1>6, <1>7
    <3> QED BY <2>1, <3>1
  <2>3. CASE ~(k <= Len(s))
    <3> DEFINE j == k - Len(s)
    <3>1. j \in 1..Len(t)
      BY <2>1, <2>3, <1>1, <1>6
    <3>2. st[k] = t[j] /\ ab[k] = b[j] /\ b[j] = t[j].number
      BY <2>1, <2>3, <3>1, <1>2, <1>3, <1>5, <1>6, <1>7
    <3> QED BY <2>1, <3>2
  <2> QED BY <2>2, <2>3
<1>9. c = ab
  BY <1>1, <1>2, <1>3, <1>4, <1>7, <1>8, SeqEqual
<1> QED BY <1>9 DEF a, b, c, ab, st

\* The numbers of joined sequences are their numbers joined.
LEMMA NumbersFlatten ==
  ASSUME NEW n \in Nat, NEW f, NEW S, \A k \in 1..n : f[k] \in Seq(S)
  PROVE  Numbers(FlattenSeq([k \in 1..n |-> f[k]]))
           = FlattenSeq([k \in 1..n |-> Numbers(f[k])])
<1> DEFINE N == {x.number : x \in S}
           g == [k \in 1..n |-> Numbers(f[k])]
<1>1. \A k \in 1..n : g[k] \in Seq(N) /\ g[k] = Numbers(f[k])
  BY NumbersTyped
<1> HIDE DEF g, N
<1>2. PICK h : Joins(h, f, n)
  BY JoinExists
<1>3. PICK q : Joins(q, g, n)
  BY JoinExists
<1>4. \A k \in 0..n : h[k] \in Seq(S)
  BY <1>2, JoinTyped
<1> DEFINE T == {k \in Nat : k \in 0..n => q[k] = Numbers(h[k])}
<1>5. 0 \in T
  <2>1. h[0] = <<>> /\ q[0] = <<>>
    BY <1>2, <1>3 DEF Joins
  <2>2. Numbers(<<>>) = <<>>
    <3>1. Numbers(<<>>) \in Seq({x.number : x \in {}}) /\ Len(Numbers(<<>>)) = 0
      <4>1. <<>> \in Seq({}) /\ Len(<<>>) = 0
        OBVIOUS
      <4> QED BY <4>1, NumbersTyped
    <3> QED BY <3>1, EmptySeq
  <2> QED BY <2>1, <2>2
<1>6. ASSUME NEW k \in Nat, k \in T PROVE k + 1 \in T
  <2> SUFFICES ASSUME k + 1 \in 0..n PROVE q[k + 1] = Numbers(h[k + 1])
    OBVIOUS
  <2>1. k + 1 \in 1..n /\ (k + 1) - 1 = k /\ k \in 0..n
    OBVIOUS
  <2>2. h[k + 1] = h[k] \o f[k + 1] /\ q[k + 1] = q[k] \o g[k + 1]
    BY <2>1, <1>2, <1>3 DEF Joins
  <2>3. q[k] = Numbers(h[k]) /\ g[k + 1] = Numbers(f[k + 1])
    BY <2>1, <1>1, <1>6
  <2>4. h[k] \in Seq(S) /\ f[k + 1] \in Seq(S)
    BY <2>1, <1>4
  <2>5. Numbers(h[k] \o f[k + 1]) = Numbers(h[k]) \o Numbers(f[k + 1])
    BY <2>4, NumbersConcat
  <2> QED BY <2>2, <2>3, <2>5
<1>7. Nat \subseteq T
  <2> HIDE DEF T
  <2> QED BY <1>5, <1>6, AllNaturals
<1>8. q[n] = Numbers(h[n])
  BY <1>7
<1>9. FlattenSeq([k \in 1..n |-> f[k]]) = h[n]
  BY <1>2, FlattenJoins
<1>10. FlattenSeq([k \in 1..n |-> g[k]]) = q[n]
  BY <1>1, <1>3, FlattenJoins
<1>11. [k \in 1..n |-> g[k]] = [k \in 1..n |-> Numbers(f[k])]
  BY <1>1
<1> QED BY <1>8, <1>9, <1>10, <1>11

-----------------------------------------------------------------------------
(***************************************************************************)
(* One element of a file.                                                  *)
(***************************************************************************)
LEMMA NumbersEmpty == Numbers(<<>>) = <<>>
<1>1. <<>> \in Seq({}) /\ Len(<<>>) = 0
  OBVIOUS
<1>2. Numbers(<<>>) \in Seq({x.number : x \in {}}) /\ Len(Numbers(<<>>)) = 0
  BY <1>1, NumbersTyped
<1> QED BY <1>2, EmptySeq

\* Before the first train of a file nothing is kept.
LEMMA KeptNone ==
  ASSUME NEW file, NEW i, NEW kept
  PROVE  KeptNumbers(file, i, 0, kept) = <<>>
<1> DEFINE f == [k \in 1..0 |-> IF <<i, k>> \in kept
                                THEN Numbers(file.trains[k].constructions) ELSE <<>>]
<1>1. KeptNumbers(file, i, 0, kept) = FlattenSeq([k \in 1..0 |-> f[k]])
  BY DEF KeptNumbers
<1> QED BY <1>1, FlattenEmpty

\* If there is no first error, there is none.
LEMMA NoFirstError ==
  ASSUME NEW n \in Nat, NEW errors, DOMAIN errors = 1..n,
         FirstError(errors) = NoError
  PROVE  \A j \in 1..n : errors[j] = NoError
<1> DEFINE wrong == {j \in 1..n : errors[j] # NoError}
<1> SUFFICES ASSUME wrong # {} PROVE FALSE
  OBVIOUS
<1>1. PICK x \in wrong : \A y \in wrong : x <= y
  <2>1. wrong \in SUBSET Nat
    OBVIOUS
  <2> HIDE DEF wrong
  <2> QED BY <2>1, LeastNat
<1>2. Min(wrong) \in wrong
  <2> HIDE DEF wrong
  <2> QED BY <1>1 DEF Min
<1>3. FirstError(errors) = errors[Min(wrong)]
  <2>1. wrong = {j \in DOMAIN errors : errors[j] # NoError}
    OBVIOUS
  <2> HIDE DEF wrong
  <2> QED BY <2>1 DEF FirstError
<1> QED BY <1>2, <1>3

\* A construction train keeps its number.
LEMMA ConstructionNumber ==
  ASSUME NEW c, parse_construction_train(c).error = NoError
  PROVE  parse_construction_train(c).train.number = c.number
<1>1. ASSUME NEW t PROVE make_train(c, t).train.number = c.number
  BY DEF make_train
<1>2. ASSUME NEW e PROVE NoTrain(e).error = e
  BY DEF NoTrain
<1>3. ASSUME NEW points, transform_if_supported(c, points).error = NoError
      PROVE  transform_if_supported(c, points).train.number = c.number
  <2>1. CASE is_supported(c, points) # NoError
    BY <1>2, <1>3, <2>1 DEF transform_if_supported
  <2>2. CASE is_supported(c, points) = NoError
    BY <1>1, <2>2 DEF transform_if_supported
  <2> QED BY <2>1, <2>2
<1>4. CASE sequence_error(c.points) # NoError
  BY <1>2, <1>4 DEF parse_construction_train
<1>5. CASE sequence_error(c.points) = NoError /\ ~c.vehicles_known
  <2>1. parse_construction_train(c) = NoTrain("TRACTION_VEHICLE_NOT_FOUND")
    BY <1>5 DEF parse_construction_train
  <2>2. "TRACTION_VEHICLE_NOT_FOUND" # NoError
    BY DEF NoError
  <2> QED BY <1>2, <2>1, <2>2
<1>6. CASE sequence_error(c.points) = NoError /\ c.vehicles_known
  <2>1. parse_construction_train(c) = transform_if_supported(c, parse_sequence(c.points))
    BY <1>6 DEF parse_construction_train
  <2> QED BY <1>3, <2>1
<1> QED BY <1>4, <1>5, <1>6

\* A train is taken over with all its construction trains, or not at all.
LEMMA TrainAsAWhole ==
  ASSUME NEW x, NEW C, x.constructions \in Seq(C)
  PROVE  /\ parse_kss_train(x).error # NoError => parse_kss_train(x).trains = <<>>
         /\ parse_kss_train(x).error = NoError =>
              Numbers(parse_kss_train(x).trains) = Numbers(x.constructions)
         /\ \E S : parse_kss_train(x).trains \in Seq(S)
<1>1. CASE x.status # "freig"
  <2>1. /\ parse_kss_train(x).error = "WORKED_ON_TRAIN"
        /\ parse_kss_train(x).trains = <<>>
    BY <1>1 DEF parse_kss_train
  <2>2. <<>> \in Seq({}) /\ "WORKED_ON_TRAIN" # NoError
    BY DEF NoError
  <2> QED BY <2>1, <2>2
<1>2. CASE x.status = "freig"
  <2> DEFINE cs     == x.constructions
             n      == Len(cs)
             parsed == [j \in DOMAIN cs |-> parse_construction_train(cs[j])]
             errors == [j \in DOMAIN parsed |-> parsed[j].error]
             trains == [j \in DOMAIN parsed |-> parsed[j].train]
  <2>1. n \in Nat /\ DOMAIN cs = 1..n
    OBVIOUS
  <2>2. parse_kss_train(x) = all_or_error(parsed)
    BY <1>2 DEF parse_kss_train
  <2>3. /\ all_or_error(parsed).error = FirstError(errors)
        /\ all_or_error(parsed).trains
             = IF FirstError(errors) # NoError THEN <<>> ELSE trains
    <3> HIDE DEF parsed
    <3> QED BY DEF all_or_error
  <2>4. DOMAIN errors = 1..n /\ DOMAIN parsed = 1..n
    BY <2>1
  <2>5. /\ \A j \in 1..n : parsed[j] = parse_construction_train(cs[j])
        /\ \A j \in 1..n : errors[j] = parsed[j].error
    BY <2>1
  <2>6. trains = [j \in 1..n |-> parsed[j].train]
    BY <2>4
  <2> HIDE DEF cs, n, parsed, errors, trains
  <2>7. CASE FirstError(errors) # NoError
    <3>1. <<>> \in Seq({})
      OBVIOUS
    <3> QED BY <2>2, <2>3, <2>7, <3>1
  <2>8. CASE FirstError(errors) = NoError
    <3>1. \A j \in 1..n : parsed[j].error = NoError
      BY <2>1, <2>4, <2>5, <2>8, NoFirstError
    <3>2. \A j \in 1..n : parsed[j].train.number = cs[j].number
      BY <2>5, <3>1, ConstructionNumber
    <3> DEFINE S == {parsed[j].train : j \in 1..n}
    <3>3. trains \in [1..n -> S] /\ DOMAIN trains = 1..n
      BY <2>6
    <3> HIDE DEF S
    <3>4. trains \in Seq(S)
      BY <2>1, <3>3, IsASeq
    <3>5. Numbers(trains) = Numbers(cs)
      <4>1. Numbers(trains) = [j \in 1..n |-> trains[j].number]
        BY <3>3 DEF Numbers
      <4>2. Numbers(cs) = [j \in 1..n |-> cs[j].number]
        BY <2>1 DEF Numbers
      <4>3. \A j \in 1..n : trains[j].number = cs[j].number
        BY <2>6, <3>2
      <4> QED BY <4>1, <4>2, <4>3
    <3>6. parse_kss_train(x).trains = trains /\ parse_kss_train(x).error = NoError
      BY <2>2, <2>3, <2>8
    <3> QED BY <3>4, <3>5, <3>6 DEF cs
  <2> QED BY <2>7, <2>8
<1> QED BY <1>1, <1>2

-----------------------------------------------------------------------------
(***************************************************************************)
(* The inductive invariant of the parser.  While the threads work, the     *)
(* trains of an item are those that are kept of the first elements of its  *)
(* file, and all errors counted are those of the elements parsed and not   *)
(* kept: both change in the same step, whichever thread takes it.  An item *)
(* that nobody works on any more has nothing left, so that at the end all  *)
(* elements are parsed.                                                    *)
(***************************************************************************)
\* The file that a work item comes from, and how many trains are parsed.
file_of(i) == kss_files(directory)[i]

Items == 1..Len(kss_files(directory))

parsed_of(i) == Len(file_of(i).trains) - Len(work_todo[i].left)

ParsedTrains == UNION {{i} \X (1..parsed_of(i)) : i \in Items}

\* What is left of a file is its end; the trains of an item are a sequence.
ItemOK(i) ==
  /\ work_todo[i].left \in Seq(Range(file_of(i).trains))
  /\ Len(work_todo[i].left) <= Len(file_of(i).trains)
  /\ \A j \in 1..Len(work_todo[i].left) :
       work_todo[i].left[j] = file_of(i).trains[parsed_of(i) + j]
  /\ work_todo[i].trains \in Seq(Range(work_todo[i].trains))

ItemsOK ==
  /\ work_todo = [i \in Items |-> work_todo[i]]
  /\ \A i \in Items : ItemOK(i)

\* An item is not taken yet, being parsed, or parsed.
TakenOK ==
  /\ taken \in 0..Len(kss_files(directory))
  /\ DOMAIN item_of = Parsers
  /\ \A p \in Parsers : item_of[p] \in 0..taken
  /\ \A i \in Items : \/ i > taken
                      \/ work_todo[i].left = <<>>
                      \/ \E p \in Parsers : item_of[p] = i

StatsOK == IsFiniteSet(DOMAIN stats) /\ \A e \in DOMAIN stats : stats[e] \in Nat

\* Of the trains parsed, some are kept as a whole, the others counted.
KeptOK(kept) ==
  /\ kept \subseteq ParsedTrains
  /\ Cardinality(ParsedTrains \ kept) = Cardinality(CountedErrors)
  /\ \A i \in Items : Numbers(work_todo[i].trains)
                        = KeptNumbers(file_of(i), i, parsed_of(i), kept)

WorkOK ==
  /\ InOrder(directory) /\ ItemsOK /\ TakenOK /\ StatsOK
  /\ \E kept \in SUBSET ParsedTrains : KeptOK(kept)

\* Before the directory is opened.
NotStarted == /\ stats = <<>> /\ taken = 0 /\ item_of = [p \in Parsers |-> NoItem]

ParsingInv ==
  /\ network \in Networks
  /\ stage \notin {"work", "parsed", "crashed"} => NotStarted
  /\ stage = "work" => WorkOK
  /\ TrainsAreParsedOnce

\* The files of a directory.
LEMMA FilesTyped ==
  ASSUME NEW d, InOrder(d)
  PROVE  /\ Len(kss_files(d)) \in Nat /\ DOMAIN kss_files(d) = 1..Len(kss_files(d))
         /\ \A i \in 1..Len(kss_files(d)) :
              /\ kss_files(d)[i].trains \in Seq(Range(kss_files(d)[i].trains))
              /\ \A x \in Range(kss_files(d)[i].trains) :
                   x.constructions \in Seq(Range(x.constructions))
<1> DEFINE files == kss_files(d)
           D == Range(d)
<1>1. files \in Seq(D)
  <2> DEFINE n == Len(d)
             f == [i \in 1..n |-> IF is_kss_file(d[i]) THEN <<d[i]>> ELSE <<>>]
  <2>1. d \in Seq(D)
    BY DEF InOrder
  <2>2. n \in Nat /\ DOMAIN d = 1..n /\ \A i \in 1..n : d[i] \in D
    <3> HIDE DEF D
    <3> QED BY <2>1
  <2>3. kss_files(d) = FlattenSeq([i \in 1..n |-> f[i]])
    BY <2>2 DEF kss_files
  <2> HIDE DEF D, n
  <2>4. ASSUME NEW i \in 1..n PROVE f[i] \in Seq(D)
    <3>1. <<d[i]>> \in Seq(D) /\ <<>> \in Seq(D)
      BY <2>2
    <3> QED BY <3>1
  <2> HIDE DEF f
  <2>5. FlattenSeq([i \in 1..n |-> f[i]]) \in Seq(D)
    BY <2>2, <2>4, FlattenTyped
  <2> QED BY <2>3, <2>5
<1>2. \A f \in D : /\ f.trains \in Seq(Range(f.trains))
                   /\ \A x \in Range(f.trains) :
                        x.constructions \in Seq(Range(x.constructions))
  BY DEF InOrder
<1> HIDE DEF files, D
<1>3. Len(files) \in Nat /\ DOMAIN files = 1..Len(files)
      /\ \A i \in 1..Len(files) : files[i] \in D
  BY <1>1
<1> QED BY <1>2, <1>3 DEF files

\* The steps that make the infrastructure end in other stages.
LEMMA BeforeParsing ==
  ASSUME ExclusionNext \/ Complete
  PROVE  /\ network' = network
         /\ stage \notin {"work", "parsed", "crashed"}
         /\ stage' \notin {"work", "parsed", "crashed"}
<1> DEFINE Fine == /\ network' = network
                   /\ stage \notin {"work", "parsed", "crashed"}
                   /\ stage' \notin {"work", "parsed", "crashed"}
<1>1. CASE parse_section
  <2>1. stage = "sections" /\ stage' \in {"borders", stage} /\ network' = network
    BY <1>1 DEF parse_section
  <2> QED BY <2>1
<1>2. CASE complete_borders
  BY <1>2 DEF complete_borders
<1>3. CASE connect_all_nodes
  BY <1>3 DEF connect_all_nodes
<1>4. CASE calculate_station_routes
  BY <1>4 DEF calculate_station_routes, graph_vars
<1>5. CASE get_station_route_graph
  BY <1>5 DEF get_station_route_graph, graph_vars
<1>6. CASE start_station_route
  BY <1>6 DEF start_station_route, graph_vars
<1>7. CASE fill_paths
  BY <1>7 DEF fill_paths, graph_vars
<1>8. CASE finish_station_route
  BY <1>8 DEF finish_station_route, graph_vars
<1>9. CASE get_interlocking
  BY <1>9 DEF get_interlocking, graph_vars
<1>10. CASE start_threads
  BY <1>10 DEF start_threads, graph_vars
<1>11. ASSUME NEW t \in Threads, generate_used_by(t) PROVE Fine
  BY <1>11 DEF generate_used_by, graph_vars
<1>12. CASE combine_thread_results
  BY <1>12 DEF combine_thread_results, graph_vars
<1>13. CASE get_exclusion_graph
  BY <1>13 DEF get_exclusion_graph, graph_vars
<1>14. CASE read_exclusion_sets
  BY <1>14 DEF read_exclusion_sets, graph_vars
<1>15. CASE Complete
  BY <1>15 DEF Complete, infrastructure_vars, graph_vars
<1> QED BY <1>1, <1>2, <1>3, <1>4, <1>5, <1>6, <1>7, <1>8, <1>9, <1>10, <1>11,
           <1>12, <1>13, <1>14, <1>15
        DEF ExclusionNext, InterlockingNext, RoutesNext, GraphNext

\* The sets of the trains parsed and of all trains as sets of pairs.
LEMMA ParsedPairs ==
  ASSUME NEW m, m = [i \in Items |-> parsed_of(i)]
  PROVE  ParsedTrains = Pairs(Items, m)
<1>1. \A i \in Items : {i} \X (1..parsed_of(i)) = {i} \X (1..m[i])
  OBVIOUS
<1> QED BY <1>1 DEF ParsedTrains, Pairs

\* The trains of a directory are the pairs of a file and a place in it.
LEMMA AllPairs ==
  ASSUME InOrder(directory), NEW m,
         m = [i \in Items |-> Len(kss_files(directory)[i].trains)]
  PROVE  TrainsOf(kss_files(directory)) = Pairs(Items, m)
<1> DEFINE files == kss_files(directory)
<1>1. DOMAIN files = Items
  BY FilesTyped DEF Items
<1>2. \A i \in Items : DOMAIN files[i].trains = 1..m[i]
  <2> SUFFICES ASSUME NEW i \in Items PROVE DOMAIN files[i].trains = 1..m[i]
    OBVIOUS
  <2> DEFINE s == files[i].trains
  <2>1. s \in Seq(Range(s)) /\ m[i] = Len(s)
    BY FilesTyped DEF Items
  <2> HIDE DEF s, files
  <2>2. DOMAIN s = 1..Len(s)
    BY <2>1
  <2> QED BY <2>1, <2>2 DEF s
<1> HIDE DEF files
<1>3. \A i \in Items : {i} \X DOMAIN files[i].trains = {i} \X (1..m[i])
  BY <1>2
<1>4. TrainsOf(files) = Pairs(Items, m)
  BY <1>1, <1>3 DEF TrainsOf, Pairs
<1> QED BY <1>4 DEF files

\* What is parsed of a file is a number of trains.
LEMMA ParsedNatural ==
  ASSUME InOrder(directory), NEW i \in Items, ItemOK(i)
  PROVE  /\ parsed_of(i) \in 0..Len(file_of(i).trains)
         /\ Len(file_of(i).trains) \in Nat
         /\ Len(work_todo[i].left) \in Nat
<1> DEFINE s == file_of(i).trains
           t == work_todo[i].left
<1>1. s \in Seq(Range(s))
  BY FilesTyped DEF Items, file_of
<1>2. t \in Seq(Range(s)) /\ Len(t) <= Len(s)
  BY DEF ItemOK
<1>3. parsed_of(i) = Len(s) - Len(t)
  BY DEF parsed_of
<1> HIDE DEF s, t
<1>4. Len(s) \in Nat /\ Len(t) \in Nat
  BY <1>1, <1>2
<1>5. parsed_of(i) \in 0..Len(s)
  BY <1>2, <1>3, <1>4
<1> QED BY <1>4, <1>5 DEF s, t

\* There is a work item for every file.
LEMMA WorkLength ==
  ASSUME InOrder(directory), ItemsOK
  PROVE  /\ Len(work_todo) = Len(kss_files(directory))
         /\ Len(kss_files(directory)) \in Nat
         /\ DOMAIN work_todo = Items
<1> DEFINE n == Len(kss_files(directory))
           S == {work_todo[i] : i \in 1..n}
<1>1. n \in Nat /\ Items = 1..n
  BY FilesTyped DEF Items
<1>2. work_todo = [i \in 1..n |-> work_todo[i]]
  BY <1>1 DEF ItemsOK
<1> HIDE DEF n
<1>3. \A i \in 1..n : work_todo[i] \in S
  OBVIOUS
<1> HIDE DEF S
<1>4. work_todo \in [1..n -> S] /\ DOMAIN work_todo = 1..n
  BY <1>2, <1>3
<1>5. work_todo \in Seq(S)
  BY <1>1, <1>4, IsASeq
<1>6. Len(work_todo) = n
  BY <1>1, <1>4, <1>5, LenProperties
<1> QED BY <1>1, <1>4, <1>6 DEF n

-----------------------------------------------------------------------------
\* The directory is opened.
LEMMA OpenDirectory ==
  ASSUME ParsingInv, open_directory
  PROVE  ParsingInv'
<1>1. /\ stage = "exclusion" /\ directory' \in Directories(network)
      /\ UNCHANGED <<graph_vars, route_vars, ir_vars, exclusion_vars>>
  BY DEF open_directory
<1>2. network' = network /\ network \in Networks /\ NotStarted
  BY <1>1 DEF ParsingInv, graph_vars
<1>3. InOrder(directory')
  BY <1>1, <1>2, DirectoriesAssumption
<1>4. CASE \E e \in {"UNKNOWN_SOURCE_TYPE", "INFRASTRUCTURE_VERSION_MISMATCH"} : reject(e)
  <2>1. PICK e \in {"UNKNOWN_SOURCE_TYPE", "INFRASTRUCTURE_VERSION_MISMATCH"} : reject(e)
    BY <1>4
  <2>2. stage' = "parsed" /\ timetable'.error = e /\ e # NoError
    BY <2>1 DEF reject, NoError
  <2>3. ~HasTimetable'
    BY <2>2 DEF HasTimetable
  <2>4. TrainsAreParsedOnce'
    BY <2>3 DEF TrainsAreParsedOnce
  <2> QED BY <1>2, <2>2, <2>4 DEF ParsingInv
<1>5. CASE /\ work_todo' = [i \in DOMAIN kss_files(directory') |->
                              [trains |-> <<>>,
                               left   |-> kss_files(directory')[i].trains]]
           /\ stage' = "work"
           /\ UNCHANGED <<taken, item_of, stats, timetable>>
  <2> DEFINE files == kss_files(directory')
             n     == Len(files)
  <2>1. /\ n \in Nat /\ DOMAIN files = 1..n /\ Items' = 1..n
        /\ \A i \in 1..n : files[i].trains \in Seq(Range(files[i].trains))
    BY <1>3, FilesTyped DEF Items
  <2>2. work_todo' = [i \in Items' |-> [trains |-> <<>>, left |-> files[i].trains]]
    BY <1>5, <2>1
  <2>3. \A i \in Items' : /\ work_todo'[i].trains = <<>>
                          /\ work_todo'[i].left = files[i].trains
                          /\ file_of(i)' = files[i]
    BY <2>2 DEF file_of
  <2>4. ASSUME NEW i \in Items' PROVE ItemOK(i)' /\ parsed_of(i)' = 0
    <3> DEFINE s == files[i].trains
    <3>1. s \in Seq(Range(s)) /\ Len(s) \in Nat
      BY <2>1
    <3>2. work_todo'[i].trains = <<>> /\ work_todo'[i].left = s /\ file_of(i)'.trains = s
      BY <2>3
    <3> HIDE DEF s
    <3>3. parsed_of(i)' = 0
      BY <3>1, <3>2 DEF parsed_of
    <3>4. <<>> \in Seq(Range(<<>>))
      OBVIOUS
    <3>5. \A j \in 1..Len(s) : s[j] = s[0 + j]
      BY <3>1
    <3>6. Len(s) <= Len(s)
      BY <3>1
    <3> QED BY <3>1, <3>2, <3>3, <3>4, <3>5, <3>6 DEF ItemOK
  <2>5. ItemsOK'
    <3>1. work_todo' = [i \in Items' |-> work_todo'[i]]
      BY <2>2
    <3> QED BY <2>4, <3>1 DEF ItemsOK
  <2>6. TakenOK'
    <3>1. /\ taken' = 0 /\ DOMAIN item_of' = Parsers
          /\ \A p \in Parsers : item_of'[p] = 0
      BY <1>2, <1>5 DEF NotStarted, NoItem
    <3>2. \A i \in Items' : i > taken'
      BY <2>1, <3>1
    <3> QED BY <2>1, <3>1, <3>2 DEF TakenOK
  <2>7. StatsOK' /\ CountedErrors' = {}
    <3>1. stats' = <<>> /\ DOMAIN stats' = {}
      BY <1>2, <1>5 DEF NotStarted
    <3> QED BY <3>1, FS_EmptySet DEF StatsOK, CountedErrors
  <2>8. ParsedTrains' = {}
    <3>1. \A i \in Items' : {i} \X (1..parsed_of(i)') = {}
      BY <2>4
    <3> QED BY <3>1 DEF ParsedTrains
  <2>9. KeptOK({})'
    <3>1. ASSUME NEW i \in Items'
          PROVE  Numbers(work_todo'[i].trains)
                   = KeptNumbers(file_of(i)', i, parsed_of(i)', {})
      <4>1. Numbers(<<>>) = <<>>
        BY NumbersEmpty
      <4>2. KeptNumbers(file_of(i)', i, 0, {}) = <<>>
        BY KeptNone
      <4> QED BY <4>1, <4>2, <2>3, <2>4
    <3>2. {} \subseteq ParsedTrains' /\ ParsedTrains' \ {} = CountedErrors'
      BY <2>7, <2>8
    <3> QED BY <3>1, <3>2 DEF KeptOK
  <2>10. WorkOK'
    <3>1. \E kept \in SUBSET ParsedTrains' : KeptOK(kept)'
      BY <2>8, <2>9
    <3> QED BY <1>3, <2>5, <2>6, <2>7, <3>1 DEF WorkOK
  <2>11. TrainsAreParsedOnce'
    <3>1. ~HasTimetable'
      BY <1>5 DEF HasTimetable
    <3> QED BY <3>1 DEF TrainsAreParsedOnce
  <2> QED BY <1>2, <1>5, <2>10, <2>11 DEF ParsingInv
<1> QED BY <1>4, <1>5 DEF open_directory

\* Where the items stay as they are, only their threads matter.
LEMMA ItemsUnchanged ==
  ASSUME WorkOK, UNCHANGED <<directory, work_todo, stats>>, TakenOK'
  PROVE  WorkOK'
<1>1. Items' = Items /\ \A i \in Items : file_of(i)' = file_of(i)
  BY DEF Items, file_of
<1>2. \A i \in Items : parsed_of(i)' = parsed_of(i)
  BY <1>1 DEF parsed_of
<1>3. ParsedTrains' = ParsedTrains /\ CountedErrors' = CountedErrors
  BY <1>1, <1>2 DEF ParsedTrains, CountedErrors
<1>4. ASSUME NEW i \in Items, ItemOK(i) PROVE ItemOK(i)'
  BY <1>1, <1>2, <1>4 DEF ItemOK
<1>5. ItemsOK'
  BY <1>1, <1>4 DEF WorkOK, ItemsOK
<1>6. StatsOK' /\ InOrder(directory)'
  BY DEF WorkOK, StatsOK, InOrder
<1>7. ASSUME NEW kept, KeptOK(kept) PROVE KeptOK(kept)'
  BY <1>1, <1>2, <1>3, <1>7 DEF KeptOK
<1>8. PICK kept \in SUBSET ParsedTrains : KeptOK(kept)
  BY DEF WorkOK
<1>9. \E k \in SUBSET ParsedTrains' : KeptOK(k)'
  BY <1>3, <1>7, <1>8
<1> QED BY <1>5, <1>6, <1>9 DEF WorkOK

\* A thread takes the next item.
LEMMA TakeItem ==
  ASSUME ParsingInv, NEW p \in Parsers, take_item(p)
  PROVE  ParsingInv'
<1>1. /\ stage = "work" /\ stage' = "work" /\ item_of[p] = NoItem /\ taken < Len(work_todo)
      /\ taken' = taken + 1 /\ item_of' = [item_of EXCEPT ![p] = taken + 1]
      /\ network' = network /\ UNCHANGED <<directory, work_todo, stats>>
  BY DEF take_item, infra_vars, graph_vars
<1>2. WorkOK /\ network \in Networks
  BY <1>1 DEF ParsingInv
<1>3. Len(work_todo) = Len(kss_files(directory)) /\ Len(kss_files(directory)) \in Nat
  BY <1>2, WorkLength DEF WorkOK
<1> DEFINE n == Len(kss_files(directory))
<1>4. n' = n /\ Items' = Items
  BY <1>1 DEF Items
<1>5. taken \in 0..n /\ \A q \in Parsers : item_of[q] \in 0..taken
  BY <1>2 DEF WorkOK, TakenOK
<1>6. taken' \in 0..n
  <2> HIDE DEF n
  <2> QED BY <1>1, <1>3, <1>5 DEF n
<1>7. \A q \in Parsers : item_of'[q] \in 0..taken'
  <2> SUFFICES ASSUME NEW q \in Parsers PROVE item_of'[q] \in 0..taken'
    OBVIOUS
  <2>1. item_of'[q] \in {item_of[q], taken + 1}
    BY <1>1
  <2> HIDE DEF n
  <2> QED BY <1>1, <1>5, <2>1
<1>8. ASSUME NEW i \in Items'
      PROVE  \/ i > taken' \/ work_todo'[i].left = <<>>
             \/ \E q \in Parsers : item_of'[q] = i
  <2>1. i \in Items /\ i \in Nat /\ i # 0
    BY <1>3, <1>4 DEF Items
  <2>2. \/ i > taken \/ work_todo[i].left = <<>>
        \/ \E q \in Parsers : item_of[q] = i
    BY <1>2, <2>1 DEF WorkOK, TakenOK
  <2>3. CASE i > taken
    <3>1. CASE i = taken + 1
      <4>1. item_of'[p] = i
        BY <1>1, <1>2, <3>1 DEF WorkOK, TakenOK
      <4> QED BY <4>1
    <3>2. CASE i # taken + 1
      BY <1>1, <1>5, <2>1, <2>3, <3>2
    <3> QED BY <3>1, <3>2
  <2>4. CASE work_todo[i].left = <<>>
    BY <1>1, <2>4
  <2>5. ASSUME NEW q \in Parsers, item_of[q] = i
        PROVE  \E r \in Parsers : item_of'[r] = i
    <3>1. q # p
      BY <1>1, <2>1, <2>5 DEF NoItem
    <3>2. item_of'[q] = i
      BY <1>1, <2>5, <3>1
    <3> QED BY <3>2
  <2> QED BY <2>2, <2>3, <2>4, <2>5
<1>9. TakenOK'
  <2>1. DOMAIN item_of' = Parsers
    BY <1>1, <1>2 DEF WorkOK, TakenOK
  <2> QED BY <1>4, <1>6, <1>7, <1>8, <2>1 DEF TakenOK
<1>10. WorkOK'
  BY <1>1, <1>2, <1>9, ItemsUnchanged
<1>11. TrainsAreParsedOnce'
  BY <1>1 DEF HasTimetable, TrainsAreParsedOnce
<1> QED BY <1>1, <1>2, <1>10, <1>11 DEF ParsingInv

\* A thread has parsed its item.
LEMMA FinishItem ==
  ASSUME ParsingInv, NEW p \in Parsers, finish_item(p)
  PROVE  ParsingInv'
<1>1. /\ stage = "work" /\ stage' = "work" /\ item_of[p] # NoItem
      /\ work_todo[item_of[p]].left = <<>>
      /\ taken' = taken /\ item_of' = [item_of EXCEPT ![p] = NoItem]
      /\ network' = network /\ UNCHANGED <<directory, work_todo, stats>>
  BY DEF finish_item, infra_vars, graph_vars
<1>2. WorkOK /\ network \in Networks
  BY <1>1 DEF ParsingInv
<1>3. Len(kss_files(directory))' = Len(kss_files(directory)) /\ Items' = Items
  BY <1>1 DEF Items
<1>4. taken' \in 0..Len(kss_files(directory)) /\ taken \in Nat
  BY <1>1, <1>2 DEF WorkOK, TakenOK
<1>5. \A q \in Parsers : item_of'[q] \in 0..taken'
  <2> SUFFICES ASSUME NEW q \in Parsers PROVE item_of'[q] \in 0..taken'
    OBVIOUS
  <2>1. item_of[q] \in 0..taken
    BY <1>2 DEF WorkOK, TakenOK
  <2>2. item_of'[q] \in {item_of[q], 0}
    BY <1>1 DEF NoItem
  <2> QED BY <1>1, <1>4, <2>1, <2>2
<1>6. ASSUME NEW i \in Items'
      PROVE  \/ i > taken' \/ work_todo'[i].left = <<>>
             \/ \E q \in Parsers : item_of'[q] = i
  <2>1. \/ i > taken \/ work_todo[i].left = <<>>
        \/ \E q \in Parsers : item_of[q] = i
    BY <1>2, <1>3 DEF WorkOK, TakenOK
  <2>2. ASSUME NEW q \in Parsers, item_of[q] = i
        PROVE  \/ work_todo[i].left = <<>>
               \/ \E r \in Parsers : item_of'[r] = i
    <3>1. CASE q = p
      BY <1>1, <2>2, <3>1
    <3>2. CASE q # p
      <4>1. item_of'[q] = i
        BY <1>1, <2>2, <3>2
      <4> QED BY <4>1
    <3> QED BY <3>1, <3>2
  <2> QED BY <1>1, <2>1, <2>2
<1>7. TakenOK'
  <2>1. DOMAIN item_of' = Parsers
    BY <1>1, <1>2 DEF WorkOK, TakenOK
  <2> QED BY <1>3, <1>4, <1>5, <1>6, <2>1 DEF TakenOK
<1>8. WorkOK'
  BY <1>1, <1>2, <1>7, ItemsUnchanged
<1>9. TrainsAreParsedOnce'
  BY <1>1 DEF HasTimetable, TrainsAreParsedOnce
<1> QED BY <1>1, <1>2, <1>8, <1>9 DEF ParsingInv

LEMMA Crash ==
  ASSUME ParsingInv, NEW p \in Parsers, crash(p)
  PROVE  ParsingInv'
<1>1. stage' = "crashed" /\ network' = network
  BY DEF crash, infra_vars, graph_vars
<1>2. TrainsAreParsedOnce'
  BY <1>1 DEF HasTimetable, TrainsAreParsedOnce
<1> QED BY <1>1, <1>2 DEF ParsingInv

\* Nothing changes.
LEMMA ParsingUnchanged ==
  ASSUME ParsingInv, UNCHANGED <<network, stage, timetable_vars>>
  PROVE  ParsingInv'
<1>1. UNCHANGED <<network, stage, directory, work_todo, taken, item_of, stats, timetable>>
  BY DEF timetable_vars, parsing_vars
<1>2. NotStarted' <=> NotStarted
  BY <1>1 DEF NotStarted
<1>3. ASSUME WorkOK PROVE WorkOK'
  <2>1. TakenOK'
    BY <1>1, <1>3 DEF WorkOK, TakenOK, Items
  <2> QED BY <1>1, <1>3, <2>1, ItemsUnchanged
<1>4. TrainsAreParsedOnce' <=> TrainsAreParsedOnce
  <2>1. CountedErrors' = CountedErrors /\ HasTimetable' = HasTimetable
    BY <1>1 DEF CountedErrors, HasTimetable
  <2> QED BY <1>1, <2>1 DEF TrainsAreParsedOnce
<1> QED BY <1>1, <1>2, <1>3, <1>4 DEF ParsingInv

\* The numbers that the k-th element of a file adds.
KeptOf(file, i, kept, k) ==
  IF <<i, k>> \in kept THEN Numbers(file.trains[k].constructions) ELSE <<>>

\* The numbers of the elements up to n, and those of the next one.
LEMMA KeptOneMore ==
  ASSUME NEW n \in Nat, NEW file, NEW i, NEW kept,
         \A k \in 1..(n + 1) : file.trains[k].constructions
                                 \in Seq(Range(file.trains[k].constructions))
  PROVE  /\ KeptNumbers(file, i, n + 1, kept)
              = KeptNumbers(file, i, n, kept) \o KeptOf(file, i, kept, n + 1)
         /\ \E S : KeptNumbers(file, i, n, kept) \in Seq(S)
<1> DEFINE f == [k \in 1..(n + 1) |-> KeptOf(file, i, kept, k)]
<1>1. ASSUME NEW k \in 1..(n + 1) PROVE f[k] \in Seq(Range(f[k]))
  <2> DEFINE c == file.trains[k].constructions
  <2>1. c \in Seq(Range(c))
    OBVIOUS
  <2>2. f[k] = Numbers(c) \/ f[k] = <<>>
    BY DEF KeptOf
  <2> HIDE DEF c, f
  <2>3. Numbers(c) \in Seq({x.number : x \in Range(c)})
    BY <2>1, NumbersTyped
  <2>4. Numbers(c) \in Seq(Range(Numbers(c)))
    BY <2>3, SeqOfRange
  <2>5. <<>> \in Seq(Range(<<>>))
    OBVIOUS
  <2> QED BY <2>2, <2>4, <2>5
<1>2. \A m \in {n, n + 1} : KeptNumbers(file, i, m, kept) = FlattenSeq([k \in 1..m |-> f[k]])
  <2> SUFFICES ASSUME NEW m \in {n, n + 1}
               PROVE  KeptNumbers(file, i, m, kept) = FlattenSeq([k \in 1..m |-> f[k]])
    OBVIOUS
  <2>1. \A k \in 1..m : f[k] = KeptOf(file, i, kept, k)
    OBVIOUS
  <2> HIDE DEF f
  <2>2. [k \in 1..m |-> f[k]]
          = [k \in 1..m |-> IF <<i, k>> \in kept
                            THEN Numbers(file.trains[k].constructions) ELSE <<>>]
    BY <2>1 DEF KeptOf
  <2> QED BY <2>2 DEF KeptNumbers
<1>3. f[n + 1] = KeptOf(file, i, kept, n + 1)
  OBVIOUS
<1> HIDE DEF f
<1>4. PICK S : \A k \in 1..(n + 1) : f[k] \in Seq(S)
  <2>1. n + 1 \in Nat
    OBVIOUS
  <2> QED BY <1>1, <2>1, CommonMembers
<1>5. /\ FlattenSeq([k \in 1..(n + 1) |-> f[k]])
           = FlattenSeq([k \in 1..n |-> f[k]]) \o f[n + 1]
      /\ FlattenSeq([k \in 1..n |-> f[k]]) \in Seq(S)
  BY <1>4, FlattenOneMore
<1> QED BY <1>2, <1>3, <1>5

\* They depend on what is kept of this file only.
LEMMA KeptAgree ==
  ASSUME NEW n, NEW file, NEW i, NEW kept, NEW kept2,
         \A k \in 1..n : <<i, k>> \in kept <=> <<i, k>> \in kept2
  PROVE  KeptNumbers(file, i, n, kept) = KeptNumbers(file, i, n, kept2)
<1>1. [k \in 1..n |-> KeptOf(file, i, kept, k)] = [k \in 1..n |-> KeptOf(file, i, kept2, k)]
  BY DEF KeptOf
<1> QED BY <1>1 DEF KeptNumbers, KeptOf

\* One more error is counted.
LEMMA CountStep ==
  ASSUME StatsOK, NEW error, stats' = count(stats, error)
  PROVE  /\ StatsOK'
         /\ Cardinality(CountedErrors)' = Cardinality(CountedErrors) + 1
<1> DEFINE D == DOMAIN stats
           D2 == DOMAIN stats'
<1>1. D2 = D \cup {error} /\ \A e \in D : e # error => stats'[e] = stats[e]
  BY DEF count
<1>2. stats'[error] = (IF error \in D THEN stats[error] ELSE 0) + 1
  <2>1. stats'[error] = IF error \in D THEN stats[error] + 1 ELSE 1
    BY DEF count
  <2>2. CASE error \in D
    BY <2>1, <2>2
  <2>3. CASE error \notin D
    BY <2>1, <2>3
  <2> QED BY <2>2, <2>3
<1>3. IsFiniteSet(D) /\ \A e \in D : stats[e] \in Nat
  BY DEF StatsOK
<1>4. IsFiniteSet(D2) /\ \A e \in D2 : stats'[e] \in Nat
  <2>1. IsFiniteSet(D \cup {error})
    BY <1>3, FS_AddElement
  <2>2. stats'[error] \in Nat
    <3>1. CASE error \in D
      BY <1>2, <1>3, <3>1
    <3>2. CASE error \notin D
      BY <1>2, <3>2
    <3> QED BY <3>1, <3>2
  <2> HIDE DEF D, D2
  <2> QED BY <1>1, <1>3, <2>1, <2>2
<1>5. StatsOK'
  BY <1>4 DEF StatsOK
<1>6. CountedErrors = Pairs(D, stats) /\ CountedErrors' = Pairs(D2, stats')
  BY DEF CountedErrors, Pairs
<1> HIDE DEF D, D2
<1>7. /\ Pairs(D2, stats') = Pairs(D, stats) \cup {<<error, stats'[error]>>}
      /\ <<error, stats'[error]>> \notin Pairs(D, stats)
  <2> DEFINE m  == stats
             m2 == stats'
  <2>1. /\ D2 = D \cup {error} /\ \A e \in D : m[e] \in Nat
        /\ \A e \in D : e # error => m2[e] = m[e]
        /\ m2[error] = (IF error \in D THEN m[error] ELSE 0) + 1
    BY <1>1, <1>2, <1>3
  <2> HIDE DEF m, m2
  <2>2. /\ Pairs(D2, m2) = Pairs(D, m) \cup {<<error, m2[error]>>}
        /\ <<error, m2[error]>> \notin Pairs(D, m)
    BY <2>1, PairsGrow
  <2> QED BY <2>2 DEF m, m2
<1>8. IsFiniteSet(Pairs(D, stats))
  BY <1>3, PairsFinite
<1>9. Cardinality(Pairs(D2, stats')) = Cardinality(Pairs(D, stats)) + 1
  BY <1>7, <1>8, FS_AddElement
<1> QED BY <1>5, <1>6, <1>9

\* What a parser does to its work item.
LEMMA ParseTrainItem ==
  ASSUME WorkOK, NEW p \in Parsers, parse_train(p), NEW i, i = item_of[p]
  PROVE  LET x == file_of(i).trains[parsed_of(i) + 1] IN
         /\ i \in Items /\ Items' = Items /\ \A j \in Items : file_of(j)' = file_of(j)
         /\ parsed_of(i) \in Nat /\ parsed_of(i)' = parsed_of(i) + 1
         /\ parsed_of(i) + 1 \in 1..Len(file_of(i).trains)
         /\ \A j \in Items : j # i => /\ parsed_of(j)' = parsed_of(j)
                                      /\ work_todo'[j] = work_todo[j]
         /\ work_todo'[i].trains = work_todo[i].trains \o parse_kss_train(x).trains
         /\ x.constructions \in Seq(Range(x.constructions))
         /\ stats' = IF parse_kss_train(x).error = NoError THEN stats
                     ELSE count(stats, parse_kss_train(x).error)
         /\ ItemsOK' /\ TakenOK'
<1> DEFINE w    == work_todo[i]
           x    == Head(w.left)
           r    == parse_kss_train(x)
           s    == file_of(i).trains
           n    == parsed_of(i)
<1>1. /\ i # NoItem /\ w.left # <<>>
      /\ work_todo' = [work_todo EXCEPT ![i] = [trains |-> w.trains \o r.trains,
                                                left   |-> Tail(w.left)]]
      /\ stats' = IF r.error = NoError THEN stats ELSE count(stats, r.error)
      /\ UNCHANGED <<directory, taken, item_of>>
  BY DEF parse_train, next_train
<1>2. InOrder(directory) /\ ItemsOK /\ TakenOK
  BY DEF WorkOK
<1>3. i \in Items
  <2>1. i \in 0..taken /\ taken \in 0..Len(kss_files(directory)) /\ i # 0
    BY <1>1, <1>2 DEF TakenOK, NoItem
  <2>2. Len(kss_files(directory)) \in Nat
    BY <1>2, FilesTyped
  <2> QED BY <2>1, <2>2 DEF Items
<1>4. ItemOK(i) /\ DOMAIN work_todo = Items
  BY <1>2, <1>3, WorkLength DEF ItemsOK
<1>5. /\ s \in Seq(Range(s)) /\ w.left \in Seq(Range(s))
      /\ Len(w.left) \in Nat /\ Len(w.left) >= 1 /\ Len(s) \in Nat
      /\ n \in 0..Len(s) /\ n = Len(s) - Len(w.left)
      /\ \A j \in 1..Len(w.left) : w.left[j] = s[n + j]
  <2>1. s \in Seq(Range(s))
    BY <1>2, <1>3, FilesTyped DEF Items, file_of
  <2>2. /\ w.left \in Seq(Range(s)) /\ n = Len(s) - Len(w.left)
        /\ \A j \in 1..Len(w.left) : w.left[j] = s[n + j]
    BY <1>4 DEF ItemOK, parsed_of
  <2>3. n \in 0..Len(s) /\ Len(s) \in Nat /\ Len(w.left) \in Nat
    BY <1>2, <1>3, <1>4, ParsedNatural
  <2> DEFINE t == w.left
             R == Range(s)
  <2>4. t \in Seq(R) /\ t # <<>>
    BY <1>1, <2>2
  <2> HIDE DEF t, R
  <2>5. Len(t) >= 1
    BY <2>4
  <2> QED BY <2>1, <2>2, <2>3, <2>5 DEF t
<1>6. n + 1 \in 1..Len(s) /\ n \in Nat
  <2> HIDE DEF n, s, w
  <2> QED BY <1>5
<1>7. x = s[n + 1] /\ x \in Range(s)
  <2> DEFINE t == w.left
             R == Range(s)
  <2>1. t \in Seq(R) /\ Len(t) >= 1 /\ Len(t) \in Nat /\ t # <<>>
    BY <1>1, <1>5
  <2>2. \A j \in 1..Len(t) : t[j] = s[n + j]
    BY <1>5
  <2> HIDE DEF t, R, n, s
  <2>3. Head(t) = t[1] /\ 1 \in 1..Len(t)
    BY <2>1
  <2>4. Head(t) \in R
    BY <2>1, HeadTailProperties
  <2> QED BY <2>2, <2>3, <2>4 DEF t, R
<1>8. x.constructions \in Seq(Range(x.constructions))
  BY <1>2, <1>3, <1>7, FilesTyped DEF Items, file_of
<1>9. Items' = Items /\ \A j \in Items : file_of(j)' = file_of(j)
  BY <1>1 DEF Items, file_of
<1>10. /\ work_todo'[i].trains = w.trains \o r.trains
       /\ work_todo'[i].left = Tail(w.left)
       /\ \A j \in Items : j # i => work_todo'[j] = work_todo[j]
       /\ work_todo' = [j \in Items |-> work_todo'[j]]
  <2> HIDE DEF w, r
  <2> QED BY <1>1, <1>3, <1>4
<1>11. /\ Tail(w.left) \in Seq(Range(s)) /\ Len(Tail(w.left)) = Len(w.left) - 1
       /\ \A j \in 1..(Len(w.left) - 1) : Tail(w.left)[j] = w.left[j + 1]
  <2> DEFINE t == w.left
             R == Range(s)
  <2>1. t \in Seq(R) /\ t # <<>>
    BY <1>1, <1>5
  <2> HIDE DEF t, R
  <2>2. /\ Tail(t) \in Seq(R) /\ Len(Tail(t)) = Len(t) - 1
        /\ \A j \in 1..Len(Tail(t)) : Tail(t)[j] = t[j + 1]
    BY <2>1, HeadTailProperties
  <2> QED BY <2>2 DEF t, R
<1>12. parsed_of(i)' = n + 1
  <2>1. parsed_of(i)' = Len(s) - Len(work_todo'[i].left)
    BY <1>3, <1>9 DEF parsed_of
  <2>2. parsed_of(i)' = Len(s) - (Len(w.left) - 1)
    BY <1>10, <1>11, <2>1
  <2> HIDE DEF s, n, w
  <2> QED BY <1>5, <2>2
<1>13. \A j \in Items : j # i => parsed_of(j)' = parsed_of(j)
  BY <1>9, <1>10 DEF parsed_of
<1>14. ItemOK(i)'
  <2>1. file_of(i)'.trains = s
    BY <1>3, <1>9
  <2>2. Tail(w.left) \in Seq(Range(s)) /\ Len(Tail(w.left)) <= Len(s)
    <3>1. Len(w.left) - 1 <= Len(s)
      <4> HIDE DEF s, n, w
      <4> QED BY <1>5
    <3> QED BY <1>11, <3>1
  <2>3. \A j \in 1..Len(Tail(w.left)) : Tail(w.left)[j] = s[n + 1 + j]
    <3> DEFINE t == w.left
               u == Tail(t)
               m == Len(t)
    <3>1. /\ Len(u) = m - 1 /\ \A j \in 1..(m - 1) : u[j] = t[j + 1]
          /\ \A j \in 1..m : t[j] = s[n + j]
          /\ m \in Nat /\ m >= 1 /\ n \in Nat
      BY <1>5, <1>6, <1>11
    <3> HIDE DEF t, u, m, s, n
    <3> SUFFICES ASSUME NEW j \in 1..(m - 1) PROVE u[j] = s[n + 1 + j]
      BY <3>1 DEF t, u
    <3>2. j + 1 \in 1..m /\ n + (j + 1) = n + 1 + j
      BY <3>1
    <3> QED BY <3>1, <3>2
  <2>4. \E S : work_todo'[i].trains \in Seq(S)
    <3>1. w.trains \in Seq(Range(w.trains))
      BY <1>4 DEF ItemOK
    <3>2. PICK T : r.trains \in Seq(T)
      BY <1>8, TrainAsAWhole
    <3> DEFINE a == w.trains
               b == r.trains
               S == Range(a) \cup T
    <3>3. a \in Seq(S) /\ b \in Seq(S)
      <4> HIDE DEF w, r
      <4> QED BY <3>1, <3>2, SeqMonotonic
    <3>4. a \o b \in Seq(S)
      <4> HIDE DEF a, b, S
      <4> QED BY <3>3
    <3> QED BY <1>10, <3>4
  <2>5. work_todo'[i].trains \in Seq(Range(work_todo'[i].trains))
    BY <2>4, SeqOfRange
  <2> HIDE DEF w, s, n, r
  <2> QED BY <1>10, <1>12, <2>1, <2>2, <2>3, <2>5 DEF ItemOK
<1>15. ASSUME NEW j \in Items, j # i PROVE ItemOK(j)'
  <2>1. /\ ItemOK(j) /\ work_todo'[j] = work_todo[j] /\ file_of(j)' = file_of(j)
        /\ parsed_of(j)' = parsed_of(j)
    BY <1>2, <1>9, <1>10, <1>13, <1>15 DEF ItemsOK
  <2> QED BY <2>1 DEF ItemOK
<1>16. ItemsOK'
  BY <1>9, <1>10, <1>14, <1>15 DEF ItemsOK
<1>17. TakenOK'
  <2>1. /\ Len(kss_files(directory))' = Len(kss_files(directory))
        /\ taken' = taken /\ item_of' = item_of
    BY <1>1
  <2>2. ASSUME NEW j \in Items
        PROVE  \/ j > taken \/ work_todo'[j].left = <<>>
               \/ \E q \in Parsers : item_of[q] = j
    <3>1. CASE j = i
      BY <3>1
    <3>2. CASE j # i
      <4>1. work_todo'[j] = work_todo[j]
        BY <1>10, <3>2
      <4> QED BY <1>2, <4>1 DEF TakenOK
    <3> QED BY <3>1, <3>2
  <2> QED BY <1>2, <1>9, <2>1, <2>2 DEF TakenOK
<1> HIDE DEF r
<1>18. r = parse_kss_train(s[n + 1])
  BY <1>7 DEF r
<1> HIDE DEF w, x
<1> QED BY <1>1, <1>3, <1>6, <1>7, <1>8, <1>9, <1>10, <1>12, <1>13, <1>16, <1>17, <1>18
        DEF w

\* Only finitely many trains are parsed, so that they can be counted.
LEMMA ParsedFinite ==
  ASSUME InOrder(directory), ItemsOK
  PROVE  IsFiniteSet(ParsedTrains)
<1> DEFINE m == [i \in Items |-> parsed_of(i)]
<1>1. ASSUME NEW i \in Items PROVE m[i] \in Nat
  <2>1. parsed_of(i) \in 0..Len(file_of(i).trains) /\ Len(file_of(i).trains) \in Nat
    BY ParsedNatural DEF ItemsOK
  <2> QED BY <2>1
<1>2. IsFiniteSet(Items)
  <2> DEFINE n == Len(kss_files(directory))
  <2>1. n \in Nat /\ n \in Int /\ 1 \in Int
    BY FilesTyped
  <2> HIDE DEF n
  <2>2. IsFiniteSet(1..n)
    BY <2>1, FS_Interval
  <2> QED BY <2>2 DEF n, Items
<1>3. ParsedTrains = Pairs(Items, m)
  BY ParsedPairs
<1> HIDE DEF m
<1> QED BY <1>1, <1>2, <1>3, PairsFinite

\* The train is kept as a whole, or one more error is counted.
LEMMA ParseTrainKept ==
  ASSUME WorkOK, NEW p \in Parsers, parse_train(p), NEW i, i = item_of[p]
  PROVE  \E kept \in SUBSET ParsedTrains' : KeptOK(kept)'
<1> DEFINE n  == parsed_of(i)
           nn == n + 1
           f  == file_of(i)
           x  == f.trains[nn]
           r  == parse_kss_train(x)
           a  == work_todo[i].trains
           b  == r.trains
<1>1. /\ i \in Items /\ Items' = Items /\ \A j \in Items : file_of(j)' = file_of(j)
      /\ n \in Nat /\ parsed_of(i)' = nn /\ nn \in 1..Len(f.trains)
      /\ \A j \in Items : j # i => /\ parsed_of(j)' = parsed_of(j)
                                   /\ work_todo'[j] = work_todo[j]
      /\ work_todo'[i].trains = a \o b
      /\ x.constructions \in Seq(Range(x.constructions))
      /\ stats' = IF r.error = NoError THEN stats ELSE count(stats, r.error)
  BY ParseTrainItem
<1>2. InOrder(directory) /\ ItemsOK /\ StatsOK
  BY DEF WorkOK
<1>3. PICK kept \in SUBSET ParsedTrains : KeptOK(kept)
  BY DEF WorkOK
<1>0. PICK kept2 : kept2 = IF r.error = NoError THEN kept \cup {<<i, nn>>} ELSE kept
  OBVIOUS
<1>4. ParsedTrains' = ParsedTrains \cup {<<i, nn>>} /\ <<i, nn>> \notin ParsedTrains
  <2> DEFINE m  == [j \in Items |-> parsed_of(j)]
             m2 == [j \in Items |-> parsed_of(j)']
  <2>1. \A j \in Items : m[j] \in Nat
    <3> SUFFICES ASSUME NEW j \in Items PROVE m[j] \in Nat
      OBVIOUS
    <3>1. parsed_of(j) \in 0..Len(file_of(j).trains) /\ Len(file_of(j).trains) \in Nat
      BY <1>2, ParsedNatural DEF ItemsOK
    <3> QED BY <3>1
  <2>2. \A j \in Items : j # i => m2[j] = m[j]
    BY <1>1
  <2>3. m2[i] = nn /\ m[i] = n
    BY <1>1
  <2>4. ParsedTrains = Pairs(Items, m)
    BY ParsedPairs
  <2>5. ParsedTrains' = Pairs(Items, m2)
    <3>1. ParsedTrains' = UNION {{j} \X (1..parsed_of(j)') : j \in Items}
      BY <1>1 DEF ParsedTrains
    <3> QED BY <3>1 DEF Pairs
  <2> HIDE DEF m, m2, n
  <2>6. Items = Items \cup {i} /\ m2[i] = (IF i \in Items THEN m[i] ELSE 0) + 1
    BY <1>1, <2>3
  <2>7. /\ Pairs(Items, m2) = Pairs(Items, m) \cup {<<i, m2[i]>>}
        /\ <<i, m2[i]>> \notin Pairs(Items, m)
    BY <2>1, <2>2, <2>6, PairsGrow
  <2> QED BY <2>3, <2>4, <2>5, <2>7
<1>5. IsFiniteSet(ParsedTrains)
  BY <1>2, ParsedFinite
<1>6. /\ r.error # NoError => b = <<>>
      /\ r.error = NoError => Numbers(b) = Numbers(x.constructions)
      /\ \E S : b \in Seq(S)
  BY <1>1, TrainAsAWhole
<1>7. Numbers(a) = KeptNumbers(f, i, n, kept)
  BY <1>1, <1>3 DEF KeptOK
<1>8. KeptOf(f, i, kept2, nn) = Numbers(b)
  <2>1. CASE r.error = NoError
    <3>1. <<i, nn>> \in kept2
      BY <1>0, <2>1
    <3> QED BY <1>6, <2>1, <3>1 DEF KeptOf
  <2>2. CASE r.error # NoError
    <3>1. <<i, nn>> \notin kept2
      BY <1>0, <1>4, <2>2
    <3>2. b = <<>>
      BY <1>6, <2>2
    <3> QED BY <3>1, <3>2, NumbersEmpty DEF KeptOf
  <2> QED BY <2>1, <2>2
<1>9. ASSUME NEW j, NEW k, <<j, k>> # <<i, nn>>
      PROVE  <<j, k>> \in kept <=> <<j, k>> \in kept2
  BY <1>0, <1>9
<1>10. kept2 \subseteq ParsedTrains'
  BY <1>0, <1>4
<1>11. Cardinality(ParsedTrains' \ kept2) = Cardinality(CountedErrors)'
  <2>1. Cardinality(ParsedTrains \ kept) = Cardinality(CountedErrors)
    BY <1>3 DEF KeptOK
  <2>2. CASE r.error = NoError
    <3>1. ParsedTrains' \ kept2 = ParsedTrains \ kept
      BY <1>0, <1>4, <2>2
    <3>2. CountedErrors' = CountedErrors
      <4>1. stats' = stats
        BY <1>1, <2>2
      <4> QED BY <4>1 DEF CountedErrors
    <3> QED BY <2>1, <3>1, <3>2
  <2>3. CASE r.error # NoError
    <3> DEFINE U == ParsedTrains \ kept
               V == ParsedTrains' \ kept2
    <3>1. V = U \cup {<<i, nn>>} /\ <<i, nn>> \notin U
      BY <1>0, <1>4, <2>3
    <3>2. IsFiniteSet(U)
      BY <1>5, FS_Difference
    <3>3. Cardinality(V) = Cardinality(U) + 1
      <4> HIDE DEF U, V, nn
      <4> QED BY <3>1, <3>2, FS_AddElement
    <3>4. Cardinality(CountedErrors)' = Cardinality(CountedErrors) + 1
      <4>1. stats' = count(stats, r.error)
        BY <1>1, <2>3
      <4> QED BY <1>2, <4>1, CountStep
    <3> QED BY <2>1, <3>3, <3>4
  <2> QED BY <2>2, <2>3
<1>12. Numbers(a \o b) = KeptNumbers(f, i, nn, kept2)
  <2>1. \A k \in 1..n : <<i, k>> \in kept <=> <<i, k>> \in kept2
    <3> SUFFICES ASSUME NEW k \in 1..n PROVE <<i, k>> \in kept <=> <<i, k>> \in kept2
      OBVIOUS
    <3>1. k # nn
      <4> HIDE DEF n
      <4> QED BY <1>1
    <3> HIDE DEF nn
    <3> QED BY <1>9, <3>1
  <2>2. KeptNumbers(f, i, n, kept) = KeptNumbers(f, i, n, kept2)
    <3> HIDE DEF n, f
    <3> QED BY <2>1, KeptAgree
  <2>3. \A k \in 1..nn : f.trains[k].constructions \in Seq(Range(f.trains[k].constructions))
    <3> SUFFICES ASSUME NEW k \in 1..nn
                 PROVE  f.trains[k].constructions \in Seq(Range(f.trains[k].constructions))
      OBVIOUS
    <3> DEFINE s == f.trains
    <3>1. /\ s \in Seq(Range(s))
          /\ \A y \in Range(s) : y.constructions \in Seq(Range(y.constructions))
      BY <1>1, <1>2, FilesTyped DEF Items, file_of
    <3>2. k \in 1..Len(s)
      <4>1. Len(s) \in Nat
        <5> HIDE DEF s
        <5> QED BY <3>1
      <4> HIDE DEF s, n
      <4>2. nn \in 1..Len(s)
        BY <1>1 DEF s
      <4> QED BY <1>1, <4>1, <4>2
    <3>3. s[k] \in Range(s)
      <4> HIDE DEF s
      <4> QED BY <3>1, <3>2, ElementOfSeq
    <3> QED BY <3>1, <3>3
  <2>4. /\ KeptNumbers(f, i, nn, kept2)
             = KeptNumbers(f, i, n, kept2) \o KeptOf(f, i, kept2, nn)
    <3> HIDE DEF f, n
    <3> QED BY <1>1, <2>3, KeptOneMore
  <2>5. Numbers(a \o b) = Numbers(a) \o Numbers(b)
    <3>1. a \in Seq(Range(a))
      BY <1>1, <1>2 DEF ItemsOK, ItemOK
    <3>2. PICK T : b \in Seq(T)
      BY <1>6
    <3> HIDE DEF a, b
    <3> DEFINE S == Range(a) \cup T
    <3>3. a \in Seq(S) /\ b \in Seq(S)
      BY <3>1, <3>2, SeqMonotonic
    <3> HIDE DEF S
    <3> QED BY <3>3, NumbersConcat
  <2> QED BY <1>7, <1>8, <2>2, <2>4, <2>5
<1>13. ASSUME NEW j \in Items
       PROVE  Numbers(work_todo'[j].trains)
                = KeptNumbers(file_of(j)', j, parsed_of(j)', kept2)
  <2>1. CASE j = i
    BY <1>1, <1>12, <2>1
  <2>2. CASE j # i
    <3>1. Numbers(work_todo[j].trains) = KeptNumbers(file_of(j), j, parsed_of(j), kept)
      BY <1>3 DEF KeptOK
    <3>2. \A k \in 1..parsed_of(j) : <<j, k>> \in kept <=> <<j, k>> \in kept2
      <4> HIDE DEF nn
      <4> QED BY <1>9, <2>2
    <3>3. KeptNumbers(file_of(j), j, parsed_of(j), kept)
            = KeptNumbers(file_of(j), j, parsed_of(j), kept2)
      <4> QED BY <3>2, KeptAgree
    <3>4. /\ work_todo'[j] = work_todo[j] /\ file_of(j)' = file_of(j)
          /\ parsed_of(j)' = parsed_of(j)
      BY <1>1, <2>2
    <3> QED BY <3>1, <3>3, <3>4
  <2> QED BY <2>1, <2>2
<1>14. KeptOK(kept2)'
  <2>1. Items' = Items
    BY <1>1
  <2> QED BY <1>10, <1>11, <1>13, <2>1 DEF KeptOK
<1> QED BY <1>10, <1>14

\* A parser parses the next train of its item.
LEMMA ParseTrain ==
  ASSUME ParsingInv, NEW p \in Parsers, parse_train(p)
  PROVE  ParsingInv'
<1>1. stage = "work" /\ stage' = "work" /\ network' = network /\ directory' = directory
  BY DEF parse_train, infra_vars, graph_vars
<1>2. WorkOK /\ network \in Networks
  BY <1>1 DEF ParsingInv
<1>3. PICK i : i = item_of[p]
  OBVIOUS
<1>4. ItemsOK' /\ TakenOK'
  BY <1>2, <1>3, ParseTrainItem
<1>5. StatsOK'
  <2>1. stats' = stats \/ \E e : stats' = count(stats, e)
    BY <1>2, <1>3, ParseTrainItem
  <2>2. ASSUME NEW e, stats' = count(stats, e) PROVE StatsOK'
    BY <1>2, <2>2, CountStep DEF WorkOK
  <2>3. CASE stats' = stats
    BY <1>2, <2>3 DEF WorkOK, StatsOK
  <2> QED BY <2>1, <2>2, <2>3
<1>6. \E kept \in SUBSET ParsedTrains' : KeptOK(kept)'
  BY <1>2, <1>3, ParseTrainKept
<1>7. InOrder(directory)'
  BY <1>1, <1>2 DEF WorkOK, InOrder
<1>8. WorkOK'
  BY <1>4, <1>5, <1>6, <1>7 DEF WorkOK
<1>9. TrainsAreParsedOnce'
  BY <1>1 DEF HasTimetable, TrainsAreParsedOnce
<1> QED BY <1>1, <1>2, <1>8, <1>9 DEF ParsingInv

\* When all items are done, all trains of the files are parsed.
LEMMA AllParsed ==
  ASSUME WorkOK, taken = Len(work_todo), \A p \in Parsers : item_of[p] = NoItem
  PROVE  /\ \A i \in Items : parsed_of(i) = Len(file_of(i).trains)
         /\ ParsedTrains = TrainsOf(kss_files(directory))
<1>1. InOrder(directory) /\ ItemsOK /\ TakenOK
  BY DEF WorkOK
<1>2. ASSUME NEW i \in Items PROVE parsed_of(i) = Len(file_of(i).trains)
  <2>1. i \in 1..taken /\ taken \in Nat
    BY <1>1, WorkLength DEF Items
  <2>2. work_todo[i].left = <<>>
    BY <1>1, <2>1 DEF TakenOK, NoItem
  <2>3. Len(work_todo[i].left) = 0
    BY <2>2
  <2>4. Len(file_of(i).trains) \in Nat
    BY <1>1, ParsedNatural DEF ItemsOK
  <2> QED BY <2>3, <2>4 DEF parsed_of
<1> DEFINE m == [i \in Items |-> parsed_of(i)]
<1>3. m = [i \in Items |-> Len(kss_files(directory)[i].trains)]
  BY <1>2 DEF file_of
<1>4. ParsedTrains = Pairs(Items, m)
  BY ParsedPairs
<1>5. TrainsOf(kss_files(directory)) = Pairs(Items, m)
  <2> HIDE DEF m
  <2> QED BY <1>1, <1>3, AllPairs
<1> QED BY <1>2, <1>4, <1>5

\* The trains of all items are put together and get their ids.
LEMMA FinishTimetable ==
  ASSUME ParsingInv, finish_timetable
  PROVE  ParsingInv'
<1> DEFINE files == kss_files(directory)
           n     == Len(files)
           f     == [i \in 1..n |-> work_todo[i].trains]
           all   == FlattenSeq([i \in 1..n |-> f[i]])
<1>1. /\ stage = "work" /\ taken = Len(work_todo) /\ stage' = "parsed"
      /\ \A p \in Parsers : item_of[p] = NoItem
      /\ timetable' = [error  |-> NoError,
                       trains |-> set_ids(FlattenSeq([i \in DOMAIN work_todo |->
                                                        work_todo[i].trains]))]
      /\ network' = network /\ directory' = directory /\ stats' = stats
  BY DEF finish_timetable, infra_vars, graph_vars, parsing_vars
<1>2. WorkOK /\ network \in Networks
  BY <1>1 DEF ParsingInv
<1>3. InOrder(directory) /\ ItemsOK
  BY <1>2 DEF WorkOK
<1>4. n \in Nat /\ Items = 1..n /\ DOMAIN work_todo = 1..n /\ DOMAIN files = 1..n
  BY <1>3, FilesTyped, WorkLength DEF Items
<1>5. timetable'.trains = set_ids(all)
  <2>1. [i \in DOMAIN work_todo |-> work_todo[i].trains] = [i \in 1..n |-> f[i]]
    BY <1>4
  <2> HIDE DEF f
  <2> QED BY <1>1, <2>1
<1>6. \A i \in 1..n : f[i] \in Seq(Range(f[i]))
  BY <1>3, <1>4 DEF ItemsOK, ItemOK
<1>7. PICK S : \A i \in 1..n : f[i] \in Seq(S)
  <2> HIDE DEF f, n
  <2> QED BY <1>4, <1>6, CommonMembers
<1>8. all \in Seq(S)
  <2> HIDE DEF f, n
  <2> QED BY <1>4, <1>7, FlattenTyped
<1>9. PICK kept \in SUBSET ParsedTrains : KeptOK(kept)
  BY <1>2 DEF WorkOK
<1>10. /\ \A i \in Items : parsed_of(i) = Len(file_of(i).trains)
       /\ ParsedTrains = TrainsOf(files)
  BY <1>1, <1>2, AllParsed
<1>11. \A i \in 1..n : Numbers(f[i]) = KeptNumbers(files[i], i, Len(files[i].trains), kept)
  BY <1>4, <1>9, <1>10 DEF KeptOK, file_of
<1>12. Numbers(all) = FlattenSeq([i \in 1..n |-> Numbers(f[i])])
  <2> HIDE DEF f, n
  <2> QED BY <1>4, <1>7, NumbersFlatten
<1>13. Numbers(all) = AllKeptNumbers(files, kept)
  <2>1. [i \in 1..n |-> Numbers(f[i])]
          = [i \in DOMAIN files |-> KeptNumbers(files[i], i, Len(files[i].trains), kept)]
    <3> HIDE DEF f, files, n
    <3> QED BY <1>4, <1>11
  <2> QED BY <1>12, <2>1 DEF AllKeptNumbers
<1>14. /\ Numbers(set_ids(all)) = Numbers(all)
       /\ \A k \in DOMAIN set_ids(all) : set_ids(all)[k].id = k
  <2> HIDE DEF all
  <2>1. /\ DOMAIN set_ids(all) = DOMAIN all
        /\ \A k \in DOMAIN all : /\ set_ids(all)[k].id = k
                                 /\ set_ids(all)[k].number = all[k].number
    BY DEF set_ids
  <2>2. Numbers(set_ids(all)) = Numbers(all)
    BY <2>1 DEF Numbers
  <2> QED BY <2>1, <2>2
<1>15. TrainsAreParsedOnce'
  <2>1. /\ kept \in SUBSET TrainsOf(files)
        /\ Cardinality(TrainsOf(files) \ kept) = Cardinality(CountedErrors)
    BY <1>9, <1>10 DEF KeptOK
  <2>2. CountedErrors' = CountedErrors /\ files' = files
    BY <1>1 DEF CountedErrors
  <2>3. Numbers(timetable'.trains) = AllKeptNumbers(files, kept)
    <3> HIDE DEF all, files
    <3> QED BY <1>5, <1>13, <1>14
  <2>4. \A k \in DOMAIN timetable'.trains : timetable'.trains[k].id = k
    <3> HIDE DEF all
    <3> QED BY <1>5, <1>14
  <2>5. \E kp \in SUBSET TrainsOf(kss_files(directory')) :
           /\ Cardinality(TrainsOf(kss_files(directory')) \ kp) = Cardinality(CountedErrors')
           /\ Numbers(timetable'.trains) = AllKeptNumbers(kss_files(directory'), kp)
    BY <1>1, <2>1, <2>2, <2>3
  <2> QED BY <2>4, <2>5 DEF TrainsAreParsedOnce
<1> QED BY <1>1, <1>2, <1>15 DEF ParsingInv

LEMMA ParsingInit ==
  ASSUME TimetableInit
  PROVE  ParsingInv
<1>1. network \in Networks /\ stage = "sections"
  BY DEF TimetableInit, ExclusionInit, InterlockingInit, RoutesInit, GraphInit
<1>2. NotStarted
  BY DEF TimetableInit, NotStarted
<1>3. TrainsAreParsedOnce
  BY <1>1 DEF TrainsAreParsedOnce, HasTimetable
<1> QED BY <1>1, <1>2, <1>3 DEF ParsingInv

LEMMA ParsingStep ==
  ASSUME ParsingInv, [TimetableNext \/ Parsed]_vars
  PROVE  ParsingInv'
<1>1. CASE (ExclusionNext \/ Complete) /\ UNCHANGED timetable_vars
  <2>1. /\ network' = network
        /\ stage \notin {"work", "parsed", "crashed"}
        /\ stage' \notin {"work", "parsed", "crashed"}
    BY <1>1, BeforeParsing
  <2>2. network \in Networks /\ NotStarted
    BY <2>1 DEF ParsingInv
  <2>3. NotStarted'
    BY <1>1, <2>2 DEF NotStarted, timetable_vars, parsing_vars
  <2>4. TrainsAreParsedOnce'
    BY <2>1 DEF HasTimetable, TrainsAreParsedOnce
  <2> QED BY <2>1, <2>2, <2>3, <2>4 DEF ParsingInv
<1>2. CASE open_directory
  BY <1>2, OpenDirectory
<1>3. ASSUME NEW p \in Parsers,
             take_item(p) \/ parse_train(p) \/ crash(p) \/ finish_item(p)
      PROVE  ParsingInv'
  BY <1>3, TakeItem, ParseTrain, Crash, FinishItem
<1>4. CASE finish_timetable
  BY <1>4, FinishTimetable
<1>5. CASE UNCHANGED vars
  <2>1. UNCHANGED <<network, stage, timetable_vars>>
    BY <1>5 DEF vars, infrastructure_vars, graph_vars
  <2> QED BY <2>1, ParsingUnchanged
<1> QED BY <1>1, <1>2, <1>3, <1>4, <1>5 DEF TimetableNext, Parsed

(***************************************************************************)
(* No train is lost, none is there twice or in part, and the ids follow    *)
(* the order of the files, for any number of files, trains and threads     *)
(* (parse_kss_timetable.cc:575).                                           *)
(***************************************************************************)
THEOREM TrainsParsedOnce == TimetableSpec => []TrainsAreParsedOnce
<1>1. ParsingInv => TrainsAreParsedOnce
  BY DEF ParsingInv
<1> QED BY <1>1, ParsingInit, ParsingStep, PTL DEF TimetableSpec

-----------------------------------------------------------------------------
(***************************************************************************)
(* The order of a set.  Sorted gives every member of a finite set, once,   *)
(* in the order of its key.                                                *)
(***************************************************************************)
\* The members of a set of numbers in order.
LEMMA VectorLists ==
  ASSUME NEW S \in SUBSET Nat, IsFiniteSet(S)
  PROVE  Lists(SetAsVector(S), S, [x \in S |-> {y \in S : y < x}])
<1> DEFINE below == [x \in S |-> {y \in S : y < x}]
           s == SetAsVector(S)
           n == Cardinality(S)
<1>1. ASSUME NEW x \in S
      PROVE  {y \in S : order_impl(<<y, 0, 0>>, <<x, 0, 0>>, TRUE)} = below[x]
  <2>1. ASSUME NEW y \in S PROVE order_impl(<<y, 0, 0>>, <<x, 0, 0>>, TRUE) <=> y < x
    BY DEF order_impl
  <2> QED BY <2>1
<1>2. s = [i \in 1..n |-> CHOOSE x \in S :
             Cardinality({y \in S : order_impl(<<y, 0, 0>>, <<x, 0, 0>>, TRUE)}) = i - 1]
  BY DEF SetAsVector, Sorted
<1>3. s = [i \in 1..n |-> s[i]]
  BY <1>2
<1>4. ASSUME NEW i \in 1..n, NEW x \in S, Cardinality(below[x]) = i - 1
      PROVE  s[i] \in S /\ Cardinality(below[s[i]]) = i - 1
  <2> DEFINE P(z) == Cardinality({y \in S : order_impl(<<y, 0, 0>>, <<z, 0, 0>>, TRUE)}) = i - 1
  <2>1. P(x)
    BY <1>1, <1>4
  <2>2. s[i] = CHOOSE z \in S : P(z)
    BY <1>2
  <2> HIDE DEF s
  <2>3. s[i] \in S /\ P(s[i])
    <3> HIDE DEF P
    <3> QED BY <2>1, <2>2
  <2> HIDE DEF below
  <2> QED BY <2>3, <1>1
<1>5. Orders(below, S)
  BY DEF Orders
<1> HIDE DEF s, below
<1>6. Lists(s, S, below)
  BY <1>3, <1>4, <1>5, RanksList
<1> QED BY <1>6 DEF s, below

-----------------------------------------------------------------------------
(***************************************************************************)
(* The station routes.                                                     *)
(***************************************************************************)
\* A set of numbers of 1..n as a vector.
LEMMA VectorRises ==
  ASSUME NEW n \in Nat, NEW S \in SUBSET (1..n)
  PROVE  /\ IsRising(SetAsVector(S), n)
         /\ \A k : k \in Range(SetAsVector(S)) <=> k \in S
<1> DEFINE below == [x \in S |-> {y \in S : y < x}]
           s == SetAsVector(S)
<1>1. IsFiniteSet(S) /\ S \in SUBSET Nat
  <2>1. IsFiniteSet(1..n)
    BY FS_Interval
  <2>2. IsFiniteSet(S)
    BY <2>1, FS_Subset
  <2> QED BY <2>2
<1>2. \A x, y \in S : y \in below[x] => y < x
  OBVIOUS
<1>3. Lists(s, S, below)
  BY <1>1, VectorLists
<1> HIDE DEF s, below
<1>4. s \in Seq(S) /\ s \in Seq(1..n)
  <2>1. \A i \in 1..Len(s) : s[i] \in 1..n
    BY <1>3 DEF Lists
  <2>2. s \in [1..Len(s) -> 1..n] /\ Len(s) \in Nat
    <3>1. s \in Seq(S)
      BY <1>3 DEF Lists
    <3>2. s \in [1..Len(s) -> S] /\ Len(s) \in Nat
      BY <3>1, LenProperties
    <3> QED BY <2>1, <3>2
  <2> QED BY <2>2, <1>3, SeqDef DEF Lists
<1>5. \A i, j \in 1..Len(s) : i < j => s[i] < s[j]
  BY <1>2, <1>3 DEF Lists
<1>6. IsRising(s, n)
  BY <1>3, <1>4, <1>5 DEF Lists, IsRising, IsList
<1>7. \A k : k \in Range(s) <=> k \in S
  <2>1. /\ DOMAIN s = 1..Len(s) /\ \A i \in 1..Len(s) : s[i] \in S
        /\ \A x \in S : \E i \in 1..Len(s) : s[i] = x
    BY <1>3 DEF Lists
  <2> QED BY <2>1 DEF Range
<1> QED BY <1>6, <1>7 DEF s

\* The routes of a rail plan that are not published only, in order.
LEMMA IntermediateTyped ==
  ASSUME network \in Networks
  PROVE  /\ Len(intermediate) \in Nat /\ DOMAIN intermediate = 1..Len(intermediate)
         /\ \A k \in 1..Len(intermediate) : intermediate[k].name \in Nat
<1> DEFINE routes == network.routes
           n == Len(routes)
           S == {k \in DOMAIN routes : ~routes[k].publish_only}
           ids == SetAsVector(S)
<1>1. /\ routes \in Seq(Range(routes)) /\ \A r \in Range(routes) : r.name \in Nat
  BY RoutesAssumption
<1>2. n \in Nat /\ DOMAIN routes = 1..n
  BY <1>1, LenProperties
<1>3. IsRising(ids, n)
  <2>1. S \in SUBSET (1..n)
    BY <1>2
  <2> HIDE DEF S, n
  <2> QED BY <1>2, <2>1, VectorRises
<1>4. intermediate = [k \in DOMAIN ids |-> routes[ids[k]]]
  BY DEF intermediate, Selected, Indices
<1> HIDE DEF ids, routes
<1>5. /\ Len(ids) \in Nat /\ DOMAIN ids = 1..Len(ids)
      /\ \A k \in 1..Len(ids) : ids[k] \in DOMAIN routes
  BY <1>2, <1>3 DEF IsRising, IsList
<1>6. ASSUME NEW k \in 1..Len(ids) PROVE intermediate[k].name \in Nat
  <2>1. routes[ids[k]] \in Range(routes)
    BY <1>5 DEF Range
  <2> QED BY <1>1, <1>4, <1>5, <2>1
<1>7. Len(intermediate) = Len(ids) /\ DOMAIN intermediate = 1..Len(ids)
  <2> DEFINE f == intermediate
  <2>1. f = [k \in 1..Len(ids) |-> f[k]]
    BY <1>4, <1>5
  <2>2. f \in Seq({f[k] : k \in 1..Len(ids)})
    <3> HIDE DEF f
    <3>1. f \in [1..Len(ids) -> {f[k] : k \in 1..Len(ids)}]
      BY <2>1
    <3> QED BY <1>5, <3>1, SeqDef
  <2> QED BY <1>5, <2>1, <2>2, LenProperties
<1> QED BY <1>5, <1>6, <1>7

(***************************************************************************)
(* What the station routes are like once they are calculated, as far as    *)
(* the interlocking looks at them: a route has nodes, and its main signals *)
(* are some of them, in order.                                             *)
(***************************************************************************)
RoutesTyped ==
  /\ Len(station_routes) \in Nat /\ DOMAIN station_routes = 1..Len(station_routes)
  /\ station_routes = <<>> <=> Len(station_routes) = 0
  /\ \A k \in DOMAIN station_routes :
       /\ size(station_routes[k]) \in Nat \ {0}
       /\ IsRising(station_routes[k].path.main_signals, size(station_routes[k]))
       /\ station_routes[k].name \in Nat

\* The routes of a station that start at an element, each once.
LEMMA RoutesListed ==
  ASSUME RoutesTyped, NEW station, NEW id
  PROVE  IsList(element_to_routes(station, id), Len(station_routes))
<1> DEFINE n == Len(station_routes)
           S == {k \in DOMAIN station_routes :
                /\ station_routes[k].station = station
                /\ first_of(station_routes[k])[1] = id}
           name(k) == station_routes[k].name
           before(y, x) == order_impl(<<name(y), 0, y>>, <<name(x), 0, x>>, TRUE)
           below == [x \in S |-> {y \in S : before(y, x)}]
           s == element_to_routes(station, id)
<1>1. n \in Nat /\ S \in SUBSET (1..n) /\ \A x \in S : name(x) \in Nat
  BY DEF RoutesTyped
<1>2. IsFiniteSet(S)
  <2> HIDE DEF n, S
  <2>1. IsFiniteSet(1..n)
    BY <1>1, FS_Interval
  <2> QED BY <1>1, <2>1, FS_Subset
<1>3. \A x, y \in S : before(y, x) <=> (name(y) < name(x) \/ (name(y) = name(x) /\ y < x))
  <2> HIDE DEF S, name
  <2> QED BY <1>1 DEF order_impl
<1>4. Orders(below, S)
  <2> HIDE DEF S, name, before
  <2>1. \A x, y \in S : y \in below[x] <=> (name(y) < name(x) \/ (name(y) = name(x) /\ y < x))
    BY <1>3
  <2>2. below \in [S -> SUBSET S]
    OBVIOUS
  <2> HIDE DEF below
  <2>3. \A x \in S : x \in Nat
    BY <1>1
  <2>4. \A x \in S : x \notin below[x]
    BY <1>1, <2>1, <2>3
  <2>5. \A x, y, z \in S : x \in below[y] /\ y \in below[z] => x \in below[z]
    BY <1>1, <2>1, <2>3
  <2>6. \A x, y \in S : x = y \/ x \in below[y] \/ y \in below[x]
    BY <1>1, <2>1, <2>3
  <2> QED BY <2>2, <2>4, <2>5, <2>6 DEF Orders
<1> DEFINE at(i) == CHOOSE x \in S : Cardinality({y \in S : before(y, x)}) = i - 1
<1>5. s = [i \in 1..Cardinality(S) |-> at(i)]
  BY DEF element_to_routes, Sorted
<1> HIDE DEF S, s, before, n
<1>6. s = [i \in 1..Cardinality(S) |-> s[i]]
  <2> HIDE DEF at, below
  <2> QED BY <1>5
<1>7. ASSUME NEW i \in 1..Cardinality(S), NEW x \in S, Cardinality(below[x]) = i - 1
      PROVE  s[i] \in S /\ Cardinality(below[s[i]]) = i - 1
  <2> DEFINE P(z) == Cardinality({y \in S : before(y, z)}) = i - 1
  <2>1. P(x)
    BY <1>7
  <2>2. s[i] = CHOOSE z \in S : P(z)
    BY <1>5
  <2>3. s[i] \in S /\ P(s[i])
    <3> HIDE DEF P
    <3> QED BY <2>1, <2>2
  <2> QED BY <2>3
<1>8. Lists(s, S, below)
  <2> HIDE DEF below
  <2> QED BY <1>2, <1>4, <1>6, <1>7, RanksList
<1>9. s \in Seq(1..n)
  <2> HIDE DEF below
  <2>1. s \in Seq(S)
    BY <1>8 DEF Lists
  <2>2. s \in [1..Len(s) -> S] /\ Len(s) \in Nat
    BY <2>1, LenProperties
  <2>3. s \in [1..Len(s) -> 1..n]
    BY <1>1, <2>2
  <2> QED BY <2>2, <2>3, SeqDef
<1>10. IsList(s, n)
  <2> HIDE DEF below
  <2> QED BY <1>1, <1>8, <1>9 DEF Lists, IsList
<1> QED BY <1>10 DEF s, n

\* A path has nodes, and its main signals are some of them, in order.
LEMMA PathTyped ==
  ASSUME NEW r, Arrivals(r) # {}
  PROVE  /\ Len(make_path(r).nodes) \in Nat \ {0}
         /\ IsRising(make_path(r).main_signals, Len(make_path(r).nodes))
<1> DEFINE nodes == get_path(r)
           m == Min(Arrivals(r))
           n == m + 1
<1>1. m \in Nat
  <2>1. Arrivals(r) \subseteq Nat
    BY DEF Arrivals, Steps
  <2>2. PICK x \in Arrivals(r) : \A y \in Arrivals(r) : x <= y
    BY <2>1, LeastNat
  <2>3. m \in Arrivals(r)
    <3> HIDE DEF m
    <3>1. m = CHOOSE k \in Arrivals(r) : \A y \in Arrivals(r) : k =< y
      BY DEF Min, m
    <3> QED BY <2>2, <3>1
  <2> QED BY <2>1, <2>3
<1>2. nodes = [k \in 1..n |-> nodes[k]]
  BY DEF get_path
<1>3. Len(nodes) = n /\ DOMAIN nodes = 1..n /\ n \in Nat \ {0}
  <2> HIDE DEF nodes, m
  <2>1. nodes \in Seq({nodes[k] : k \in 1..n})
    <3>1. nodes \in [1..n -> {nodes[k] : k \in 1..n}]
      BY <1>2
    <3> QED BY <1>1, <3>1, SeqDef
  <2> QED BY <1>1, <1>2, <2>1, LenProperties
<1>4. IsRising(get_main_signals(r, nodes), n)
  <2> DEFINE S == {k \in DOMAIN nodes :
                     /\ is_type(nodes[k], "MAIN_SIGNAL")
                     /\ nodes[k][1] \notin {graph.id_of[rp] : rp \in omitted_main_signals(r)}}
  <2>1. get_main_signals(r, nodes) = SetAsVector(S)
    BY DEF get_main_signals, Indices
  <2> HIDE DEF nodes, n
  <2>2. S \in SUBSET (1..n)
    BY <1>3
  <2> HIDE DEF S
  <2> QED BY <1>3, <2>1, <2>2, VectorRises
<1> HIDE DEF n
<1>5. make_path(r).nodes = nodes /\ make_path(r).main_signals = get_main_signals(r, nodes)
  BY DEF make_path
<1> QED BY <1>3, <1>4, <1>5

\* The path of a route is stored in a route before it or in itself that has the
\* same.
LEMMA OwnerTyped ==
  ASSUME NEW k \in Nat, k >= 1
  PROVE  /\ path_owner(k) \in 1..k
         /\ same_path(intermediate[path_owner(k)], intermediate[k])
<1> DEFINE T == {j \in 1..k : same_path(intermediate[j], intermediate[k])}
<1>1. T \subseteq Nat
  OBVIOUS
<1>2. k \in T
  BY DEF same_path
<1>3. PICK x \in T : \A y \in T : x <= y
  <2> HIDE DEF T
  <2> QED BY <1>1, <1>2, LeastNat
<1>4. path_owner(k) = CHOOSE z \in T : \A y \in T : z =< y
  BY DEF path_owner, Min
<1>5. path_owner(k) \in T
  <2> HIDE DEF T
  <2> QED BY <1>3, <1>4
<1> QED BY <1>5

\* calculate_station_routes makes such routes (parse_iss.cc:536).
LEMMA CalculateRoutes ==
  ASSUME network \in Networks, calculate_station_routes
  PROVE  RoutesTyped'
<1> DEFINE n == Len(intermediate)
<1>1. /\ \A r \in Range(intermediate) : Arrivals(r) # {}
      /\ station_routes' = [k \in DOMAIN intermediate |->
                              make_station_route(intermediate[k], paths'[k])]
      /\ paths' = get_station_route_paths
      /\ UNCHANGED <<graph, network>>
  BY DEF calculate_station_routes, graph_vars, IsPossible
<1>2. /\ n \in Nat /\ DOMAIN intermediate = 1..n
      /\ \A k \in 1..n : intermediate[k].name \in Nat
  BY IntermediateTyped
<1>3. ASSUME NEW k \in 1..n
      PROVE  \E j \in 1..n : paths'[k] = make_path(intermediate[j])
  <2>1. path_owner(k) \in 1..n
    <3>1. path_owner(k) \in 1..k
      BY OwnerTyped, <1>2
    <3> QED BY <1>2, <3>1
  <2>2. paths'[k] = make_path(intermediate[path_owner(k)])
    BY <1>1, <1>2, <2>1 DEF get_station_route_paths
  <2> QED BY <2>1, <2>2
<1>4. ASSUME NEW k \in 1..n
      PROVE  /\ Len(paths'[k].nodes) \in Nat \ {0}
             /\ IsRising(paths'[k].main_signals, Len(paths'[k].nodes))
  <2>1. PICK j \in 1..n : paths'[k] = make_path(intermediate[j])
    BY <1>3
  <2>2. intermediate[j] \in Range(intermediate)
    BY <1>2 DEF Range
  <2>3. Arrivals(intermediate[j]) # {}
    BY <1>1, <2>2
  <2> QED BY <2>1, <2>3, PathTyped
<1>5. ASSUME NEW k \in 1..n
      PROVE  /\ station_routes'[k].path = paths'[k]
             /\ station_routes'[k].name = intermediate[k].name
  BY <1>1, <1>2 DEF make_station_route
<1>6. station_routes' = [k \in 1..n |-> station_routes'[k]]
  BY <1>1, <1>2
<1>7. /\ Len(station_routes') = n /\ DOMAIN station_routes' = 1..n
      /\ station_routes' = <<>> <=> n = 0
  <2> HIDE DEF n
  <2> DEFINE f == station_routes'
  <2>1. f \in Seq({f[k] : k \in 1..n})
    <3>1. f \in [1..n -> {f[k] : k \in 1..n}]
      BY <1>6
    <3> QED BY <1>2, <3>1, SeqDef
  <2>2. Len(f) = n /\ DOMAIN f = 1..n
    BY <1>2, <1>6, <2>1, LenProperties
  <2>3. f = <<>> <=> Len(f) = 0
    <3> HIDE DEF f
    <3> QED BY <2>1, EmptySeq
  <2> QED BY <2>2, <2>3
<1> HIDE DEF n
<1> QED BY <1>2, <1>4, <1>5, <1>7 DEF RoutesTyped, size

(***************************************************************************)
(* The station route graph: the successors of a route, each once, and its  *)
(* predecessors.                                                           *)
(***************************************************************************)
LinksTyped ==
  LET n == Len(station_routes)
  IN  /\ DOMAIN successors = 1..n /\ DOMAIN predecessors = 1..n
      /\ \A k \in 1..n : IsList(successors[k], n)
      /\ \A k \in 1..n : predecessors[k] = <<>> <=>
           \A j \in 1..n : k \notin Range(successors[j])

\* get_station_route_graph links them (station_route_graph.cc:106).
LEMMA GetGraph ==
  ASSUME RoutesTyped, get_station_route_graph
  PROVE  RoutesTyped' /\ LinksTyped'
<1> DEFINE n == Len(station_routes)
<1>1. /\ successors' = [k \in DOMAIN station_routes |-> get_successors(station_routes[k])]
      /\ predecessors' = [k \in DOMAIN station_routes |->
                            Indices(successors', LAMBDA s : k \in Range(s))]
      /\ station_routes' = station_routes
  BY DEF get_station_route_graph
<1>2. n \in Nat /\ DOMAIN station_routes = 1..n
  BY DEF RoutesTyped
<1>3. RoutesTyped'
  BY <1>1 DEF RoutesTyped, size
<1>4. ASSUME NEW k \in 1..n PROVE IsList(successors'[k], n)
  <2>1. successors'[k] = get_successors(station_routes[k])
    BY <1>1, <1>2
  <2>2. IsList(<<>>, n)
    BY DEF IsList
  <2> QED BY <2>1, <2>2, RoutesListed DEF get_successors
<1>5. DOMAIN successors' = 1..n /\ DOMAIN predecessors' = 1..n
  BY <1>1, <1>2
<1>6. ASSUME NEW k \in 1..n
      PROVE  predecessors'[k] = <<>> <=> \A j \in 1..n : k \notin Range(successors'[j])
  <2> DEFINE S == {j \in DOMAIN successors' : k \in Range(successors'[j])}
             s == SetAsVector(S)
  <2>1. predecessors'[k] = s
    BY <1>1, <1>2 DEF Indices
  <2>2. S \in SUBSET (1..n)
    BY <1>5
  <2> HIDE DEF n, S
  <2>3. IsRising(s, n) /\ \A j : j \in Range(s) <=> j \in S
    BY <1>2, <2>2, VectorRises
  <2> HIDE DEF s
  <2>4. s = <<>> <=> S = {}
    <3>1. Len(s) \in Nat /\ DOMAIN s = 1..Len(s) /\ s \in Seq(1..n)
      BY <2>3 DEF IsRising, IsList
    <3>2. ASSUME s = <<>> PROVE S = {}
      <4>1. Range(s) = {}
        BY <3>1, <3>2 DEF Range
      <4> QED BY <2>3, <4>1
    <3>3. ASSUME S = {} PROVE s = <<>>
      <4>1. \A i \in 1..Len(s) : s[i] \in Range(s)
        BY <3>1 DEF Range
      <4>2. Len(s) = 0
        <5> SUFFICES ASSUME Len(s) # 0 PROVE FALSE
          OBVIOUS
        <5>1. 1 \in 1..Len(s)
          BY <3>1
        <5> QED BY <2>3, <3>3, <4>1, <5>1
      <4> QED BY <3>1, <4>2, EmptySeq
    <3> QED BY <3>2, <3>3
  <2> QED BY <1>5, <2>1, <2>4 DEF S
<1>7. Len(station_routes') = n
  BY <1>1
<1> HIDE DEF n
<1> QED BY <1>3, <1>4, <1>5, <1>6, <1>7 DEF LinksTyped

-----------------------------------------------------------------------------
(***************************************************************************)
(* The interlocking routes over several station routes.  They are those of *)
(* the complete chains.                                                    *)
(***************************************************************************)
\* Where a route that begins on station route k begins, and where one that
\* ends on it ends.
start_of(k) == IF main_signals(k) = <<>> THEN 1 ELSE Last(main_signals(k))
end_of(k) ==
  IF main_signals(k) = <<>> THEN size(station_routes[k]) ELSE main_signals(k)[1]

\* A chain of station routes over which the recursion gets to the last one.
IsOpen(c) ==
  /\ IsChain(c) /\ Len(c) > 1 /\ can_start_an_interlocking(c[1])
  /\ \A j \in 1..(Len(c) - 1) : ~requires_etcs(station_routes[c[j]])
  /\ \A j \in 2..(Len(c) - 1) : main_signals(c[j]) = <<>>

\* A chain at the end of which a route is found.
IsComplete(c) ==
  /\ IsOpen(c) /\ can_end_an_interlocking(c[Len(c)])
  /\ ~requires_etcs(station_routes[c[Len(c)]])

\* The route over a complete chain.
LongRoute(c) == Route(start_of(c[1]), end_of(c[Len(c)]), c)

Typed == RoutesTyped /\ LinksTyped

\* The first and the last active main signal of a station route, if any.
LEMMA SignalFacts ==
  ASSUME Typed, NEW k \in DOMAIN station_routes
  PROVE  /\ size(station_routes[k]) \in Nat \ {0}
         /\ Range(main_signals(k)) \subseteq 1..size(station_routes[k])
         /\ main_signals(k) = <<>> => Range(main_signals(k)) = {}
         /\ main_signals(k) # <<>> =>
              /\ main_signals(k)[1] \in Range(main_signals(k))
              /\ Last(main_signals(k)) \in Range(main_signals(k))
              /\ \A x \in Range(main_signals(k)) :
                   main_signals(k)[1] <= x /\ x <= Last(main_signals(k))
         /\ start_of(k) \in 1..size(station_routes[k])
         /\ end_of(k) \in 1..size(station_routes[k])
<1> DEFINE m == main_signals(k)
           sz == size(station_routes[k])
<1>1. sz \in Nat \ {0} /\ IsRising(m, sz)
  BY DEF Typed, RoutesTyped, main_signals
<1> HIDE DEF m, sz
<1>2. /\ Len(m) \in Nat /\ DOMAIN m = 1..Len(m) /\ m \in Seq(1..sz)
      /\ \A i \in 1..Len(m) : m[i] \in 1..sz
      /\ \A i, j \in 1..Len(m) : i < j => m[i] < m[j]
  BY <1>1 DEF IsRising, IsList
<1>3. \A x : x \in Range(m) <=> \E i \in 1..Len(m) : x = m[i]
  BY <1>2 DEF Range
<1>4. Range(m) \subseteq 1..sz
  BY <1>2, <1>3
<1>5. m = <<>> => Range(m) = {}
  BY <1>2, <1>3
<1>6. ASSUME m # <<>>
      PROVE  /\ m[1] \in Range(m) /\ Last(m) \in Range(m)
             /\ \A x \in Range(m) : m[1] <= x /\ x <= Last(m)
  <2>1. Len(m) # 0
    BY <1>2, <1>6, EmptySeq
  <2>2. 1 \in 1..Len(m) /\ Len(m) \in 1..Len(m)
    BY <1>2, <2>1
  <2>3. Last(m) = m[Len(m)]
    BY DEF Last
  <2>4. ASSUME NEW i \in 1..Len(m) PROVE m[1] <= m[i] /\ m[i] <= m[Len(m)]
    <3>1. (i = 1 \/ 1 < i) /\ (i = Len(m) \/ i < Len(m))
      <4>1. Len(m) \in Nat
        BY <1>2
      <4> QED BY ONLY <4>1, i \in 1..Len(m)
    <3>2. m[1] \in 1..sz /\ m[i] \in 1..sz /\ m[Len(m)] \in 1..sz
      BY <1>2, <2>2
    <3>3. (1 < i => m[1] < m[i]) /\ (i < Len(m) => m[i] < m[Len(m)])
      BY <1>2, <2>2
    <3> QED BY <1>1, <3>1, <3>2, <3>3
  <2> QED BY <1>3, <2>2, <2>3, <2>4
<1>7. start_of(k) \in 1..sz /\ end_of(k) \in 1..sz
  BY <1>1, <1>4, <1>6 DEF start_of, end_of, m, sz
<1> QED BY <1>1, <1>4, <1>5, <1>6, <1>7 DEF m, sz

\* Every station route of a chain but the last has successors, and every
\* one but the first has predecessors.
LEMMA ChainTyped ==
  ASSUME Typed, NEW c, IsChain(c)
  PROVE  /\ Len(c) \in Nat \ {0} /\ DOMAIN c = 1..Len(c)
         /\ \A j \in 1..Len(c) : c[j] \in DOMAIN station_routes
         /\ \A j \in 1..(Len(c) - 1) : successors[c[j]] # <<>>
         /\ \A j \in 2..Len(c) : predecessors[c[j]] # <<>>
<1> DEFINE n == Len(station_routes)
<1>1. c \in Seq(DOMAIN station_routes) /\ c # <<>>
  BY DEF IsChain
<1>2. /\ Len(c) \in Nat /\ DOMAIN c = 1..Len(c)
      /\ \A j \in 1..Len(c) : c[j] \in DOMAIN station_routes
  BY <1>1, LenProperties, ElementOfSeq
<1>3. Len(c) # 0
  BY <1>1, EmptySeq
<1>4. n \in Nat /\ DOMAIN station_routes = 1..n
  BY DEF Typed, RoutesTyped
<1>5. ASSUME NEW j \in 1..(Len(c) - 1) PROVE successors[c[j]] # <<>>
  <2>1. c[j + 1] \in Range(successors[c[j]])
    BY DEF IsChain
  <2> QED BY <2>1 DEF Range
<1>6. ASSUME NEW j \in 2..Len(c) PROVE predecessors[c[j]] # <<>>
  <2>1. j - 1 \in 1..(Len(c) - 1) /\ j - 1 \in 1..Len(c) /\ (j - 1) + 1 = j /\ j \in 1..Len(c)
    BY <1>2
  <2>2. c[j] \in Range(successors[c[j - 1]])
    BY <2>1 DEF IsChain
  <2>3. c[j] \in 1..n /\ c[j - 1] \in 1..n
    BY <1>2, <1>4, <2>1
  <2> QED BY <2>2, <2>3 DEF Typed, LinksTyped
<1> QED BY <1>2, <1>3, <1>5, <1>6

\* An interlocking route over several station routes is the one of a
\* complete chain ...
LEMMA LongRight ==
  ASSUME Typed, NEW ir, IsInterlockingRoute(ir), Len(ir.station_routes) > 1
  PROVE  IsComplete(ir.station_routes) /\ ir = LongRoute(ir.station_routes)
<1> DEFINE c == ir.station_routes
           s == ir.start
           e == ir.end
           n == Len(c)
           first == c[1]
           last == c[n]
<1>1. /\ IsChain(c) /\ ir = Route(s, e, c)
      /\ s \in 1..size(station_routes[first]) /\ e \in 1..size(station_routes[last])
      /\ IsStop(first, s) /\ IsStop(last, e)
      /\ \A j \in DOMAIN c : \A idx \in 1..size(station_routes[c[j]]) :
           ((j = 1 => idx > s) /\ (j = n => idx < e)) => ~IsStop(c[j], idx)
      /\ \A j \in DOMAIN c : ~requires_etcs(station_routes[c[j]])
  BY DEF IsInterlockingRoute, LeadsToNextStop, first_sr, last_sr, Last
<1>2. n > 1
  OBVIOUS
<1> HIDE DEF c, s, e, n, first, last
<1>3. /\ n \in Nat \ {0} /\ DOMAIN c = 1..n
      /\ \A j \in 1..n : c[j] \in DOMAIN station_routes
      /\ \A j \in 1..(n - 1) : successors[c[j]] # <<>>
      /\ \A j \in 2..n : predecessors[c[j]] # <<>>
  BY <1>1, ChainTyped DEF n
<1>4. 1 \in 1..n /\ 1 \in 1..(n - 1) /\ n \in 1..n /\ n \in 2..n /\ n # 1
  BY <1>2, <1>3
<1>5. s = start_of(first) /\ can_start_an_interlocking(first)
  <2> DEFINE m == main_signals(first)
             sz == size(station_routes[first])
  <2>1. first \in DOMAIN station_routes /\ successors[first] # <<>>
    BY <1>3, <1>4 DEF first
  <2>2. s \in 1..sz /\ sz \in Nat /\ Range(m) \subseteq 1..sz
    BY <1>1, <2>1, SignalFacts
  <2>3. ASSUME NEW idx \in Range(m) PROVE idx <= s
    <3>1. idx \in 1..sz
      BY <2>2
    <3>2. idx > s => ~IsStop(first, idx)
      BY <1>1, <1>3, <1>4, <3>1 DEF first
    <3> QED BY <2>2, <3>1, <3>2 DEF IsStop
  <2>4. CASE s \in Range(m)
    <3>1. m # <<>>
      BY <2>4, <2>1, SignalFacts
    <3>2. s <= Last(m) /\ Last(m) \in Range(m)
      BY <2>1, <2>4, <3>1, SignalFacts
    <3>3. Last(m) <= s
      BY <2>3, <3>2
    <3>4. s = Last(m)
      BY <2>2, <3>2, <3>3
    <3> QED BY <3>1, <3>4 DEF start_of, can_start_an_interlocking, main_signals
  <2>5. CASE s \notin Range(m)
    <3>1. s = 1 /\ predecessors[first] = <<>>
      BY <1>1, <2>1, <2>5 DEF IsStop
    <3>2. m = <<>>
      <4> SUFFICES ASSUME m # <<>> PROVE FALSE
        OBVIOUS
      <4>1. Last(m) \in Range(m)
        BY <2>1, SignalFacts
      <4>2. Last(m) <= 1 /\ Last(m) \in 1..sz
        BY <2>2, <2>3, <3>1, <4>1
      <4> QED BY <2>2, <2>5, <3>1, <4>1, <4>2
    <3> QED BY <3>1, <3>2 DEF start_of, can_start_an_interlocking
  <2> QED BY <2>4, <2>5
<1>6. e = end_of(last) /\ can_end_an_interlocking(last)
  <2> DEFINE m == main_signals(last)
             sz == size(station_routes[last])
  <2>1. last \in DOMAIN station_routes /\ predecessors[last] # <<>>
    BY <1>3, <1>4 DEF last
  <2>2. e \in 1..sz /\ sz \in Nat /\ Range(m) \subseteq 1..sz
    BY <1>1, <2>1, SignalFacts
  <2>3. ASSUME NEW idx \in Range(m) PROVE e <= idx
    <3>1. idx \in 1..sz
      BY <2>2
    <3>2. idx < e => ~IsStop(last, idx)
      BY <1>1, <1>3, <1>4, <3>1 DEF last
    <3> QED BY <2>2, <3>1, <3>2 DEF IsStop
  <2>4. CASE e \in Range(m)
    <3>1. m # <<>>
      BY <2>4, <2>1, SignalFacts
    <3>2. m[1] <= e /\ m[1] \in Range(m)
      BY <2>1, <2>4, <3>1, SignalFacts
    <3>3. e <= m[1]
      BY <2>3, <3>2
    <3>4. e = m[1]
      BY <2>2, <3>2, <3>3
    <3> QED BY <3>1, <3>4 DEF end_of, can_end_an_interlocking, main_signals
  <2>5. CASE e \notin Range(m)
    <3>1. e = sz /\ successors[last] = <<>>
      BY <1>1, <2>1, <2>5 DEF IsStop
    <3>2. m = <<>>
      <4> SUFFICES ASSUME m # <<>> PROVE FALSE
        OBVIOUS
      <4>1. m[1] \in Range(m)
        BY <2>1, SignalFacts
      <4>2. sz <= m[1] /\ m[1] \in 1..sz
        BY <2>2, <2>3, <3>1, <4>1
      <4> QED BY <2>2, <2>5, <3>1, <4>1, <4>2
    <3> QED BY <3>1, <3>2 DEF end_of, can_end_an_interlocking
  <2> QED BY <2>4, <2>5
<1>7. ASSUME NEW j \in 2..(n - 1) PROVE main_signals(c[j]) = <<>>
  <2> DEFINE m == main_signals(c[j])
  <2> SUFFICES ASSUME m # <<>> PROVE FALSE
    OBVIOUS
  <2>1. j \in 1..n /\ j # 1 /\ j # n
    BY <1>3
  <2>2. m[1] \in Range(m) /\ m[1] \in 1..size(station_routes[c[j]])
    BY <1>3, <2>1, SignalFacts
  <2> QED BY <1>1, <1>3, <2>1, <2>2 DEF IsStop
<1>8. IsComplete(c)
  <2>1. \A j \in 1..(n - 1) : j \in DOMAIN c
    BY <1>3
  <2>2. IsOpen(c)
    BY <1>1, <1>2, <1>5, <1>7, <2>1 DEF IsOpen, n, first
  <2> QED BY <1>1, <1>3, <1>4, <1>6, <2>2 DEF IsComplete, n, last
<1>9. ir = LongRoute(c)
  BY <1>1, <1>5, <1>6 DEF LongRoute, first, last, n
<1> QED BY <1>8, <1>9 DEF c

\* ... and the other way round.
LEMMA LongFound ==
  ASSUME Typed, NEW c, IsComplete(c)
  PROVE  IsInterlockingRoute(LongRoute(c))
<1> DEFINE n == Len(c)
           first == c[1]
           last == c[n]
           ir == LongRoute(c)
           s == start_of(first)
           e == end_of(last)
<1>1. IsOpen(c) /\ IsChain(c) /\ n > 1
  BY DEF IsComplete, IsOpen
<1>2. /\ n \in Nat \ {0} /\ DOMAIN c = 1..n
      /\ \A j \in 1..n : c[j] \in DOMAIN station_routes
      /\ \A j \in 1..(n - 1) : successors[c[j]] # <<>>
      /\ \A j \in 2..n : predecessors[c[j]] # <<>>
  BY <1>1, ChainTyped
<1>3. 1 \in 1..n /\ 1 \in 1..(n - 1) /\ n \in 1..n /\ n \in 2..n /\ n # 1
  BY <1>1, <1>2
<1>4. ir.start = s /\ ir.end = e /\ ir.station_routes = c /\ ir = Route(ir.start, ir.end, c)
  BY DEF LongRoute, Route
<1> HIDE DEF ir, n
<1>5. /\ first \in DOMAIN station_routes /\ successors[first] # <<>>
      /\ last \in DOMAIN station_routes /\ predecessors[last] # <<>>
  BY <1>2, <1>3
<1>6. s \in 1..size(station_routes[first]) /\ e \in 1..size(station_routes[last])
  BY <1>5, SignalFacts
<1>7. IsStop(first, s)
  <2>1. CASE main_signals(first) = <<>>
    <3>1. predecessors[first] = <<>>
      BY <1>1, <2>1 DEF IsOpen, can_start_an_interlocking, main_signals
    <3> QED BY <2>1, <3>1 DEF IsStop, start_of
  <2>2. CASE main_signals(first) # <<>>
    BY <1>5, <2>2, SignalFacts DEF IsStop, start_of
  <2> QED BY <2>1, <2>2
<1>8. IsStop(last, e)
  <2>1. CASE main_signals(last) = <<>>
    <3>1. successors[last] = <<>>
      BY <2>1 DEF IsComplete, can_end_an_interlocking, main_signals, n
    <3> QED BY <2>1, <3>1 DEF IsStop, end_of
  <2>2. CASE main_signals(last) # <<>>
    BY <1>5, <2>2, SignalFacts DEF IsStop, end_of
  <2> QED BY <2>1, <2>2
<1>9. ASSUME NEW j \in 1..n, NEW idx \in 1..size(station_routes[c[j]]),
             j = 1 => idx > s, j = n => idx < e
      PROVE  ~IsStop(c[j], idx)
  <2> DEFINE k == c[j]
             m == main_signals(k)
             sz == size(station_routes[k])
  <2>1. k \in DOMAIN station_routes /\ sz \in Nat /\ Range(m) \subseteq 1..sz
    BY <1>2, SignalFacts
  <2>2. idx \notin Range(m)
    <3>1. CASE m = <<>>
      BY <2>1, <3>1, SignalFacts
    <3>2. CASE m # <<>>
      <4>1. j = 1 \/ j = n
        <5> SUFFICES ASSUME j # 1, j # n PROVE FALSE
          OBVIOUS
        <5>1. j \in 2..(n - 1)
          BY <1>2
        <5> QED BY <1>1, <3>2, <5>1 DEF IsOpen, n
      <4>2. CASE j = 1
        <5>1. s = Last(m) /\ idx > s
          BY <1>9, <3>2, <4>2 DEF start_of
        <5>2. idx \in Range(m) => idx <= Last(m)
          BY <2>1, <3>2, SignalFacts
        <5>3. Last(m) \in 1..sz
          BY <2>1, <3>2, SignalFacts
        <5> QED BY <2>1, <5>1, <5>2, <5>3
      <4>3. CASE j = n
        <5>1. e = m[1] /\ idx < e
          BY <1>9, <3>2, <4>3 DEF end_of
        <5>2. idx \in Range(m) => m[1] <= idx
          BY <2>1, <3>2, SignalFacts
        <5>3. m[1] \in 1..sz
          BY <2>1, <3>2, SignalFacts
        <5> QED BY <2>1, <5>1, <5>2, <5>3
      <4> QED BY <4>1, <4>2, <4>3
    <3> QED BY <3>1, <3>2
  <2>3. ~(idx = 1 /\ predecessors[k] = <<>>)
    <3>1. CASE j = 1
      <4>1. s \in 1..sz /\ idx > s
        BY <1>6, <1>9, <3>1
      <4> QED BY <2>1, <4>1
    <3>2. CASE j # 1
      <4>1. j \in 2..n
        BY <1>2, <3>2
      <4> QED BY <1>2, <4>1
    <3> QED BY <3>1, <3>2
  <2>4. ~(idx = sz /\ successors[k] = <<>>)
    <3>1. CASE j = n
      <4>1. e \in 1..sz /\ idx < e
        BY <1>6, <1>9, <3>1
      <4> QED BY <2>1, <4>1
    <3>2. CASE j # n
      <4>1. j \in 1..(n - 1)
        BY <1>2, <3>2
      <4> QED BY <1>2, <4>1
    <3> QED BY <3>1, <3>2
  <2> QED BY <2>2, <2>3, <2>4 DEF IsStop
<1>10. LeadsToNextStop(ir)
  BY <1>2, <1>4, <1>7, <1>8, <1>9 DEF LeadsToNextStop, n
<1>11. \A j \in 1..n : ~requires_etcs(station_routes[c[j]])
  <2> SUFFICES ASSUME NEW j \in 1..n PROVE ~requires_etcs(station_routes[c[j]])
    OBVIOUS
  <2>1. j = n \/ j \in 1..(n - 1)
    BY <1>2
  <2> QED BY <1>1, <2>1 DEF IsComplete, IsOpen, n
<1>12. first_sr(ir) = station_routes[first] /\ last_sr(ir) = station_routes[last]
  BY <1>4 DEF first_sr, last_sr, Last, n
<1>13. ir.start \in 1..size(first_sr(ir)) /\ ir.end \in 1..size(last_sr(ir))
  BY <1>4, <1>6, <1>12
<1>14. IsInterlockingRoute(ir)
  <2> HIDE DEF first, last, s, e
  <2>1. \A j \in DOMAIN c : ~requires_etcs(station_routes[c[j]])
    BY <1>2, <1>11
  <2> QED BY <1>1, <1>4, <1>10, <1>13, <2>1 DEF IsInterlockingRoute, n
<1> QED BY <1>14 DEF ir

-----------------------------------------------------------------------------
(***************************************************************************)
(* The interlocking routes on one station route.                           *)
(***************************************************************************)
\* The routes that are found on a station route alone.
ShortRoutes(k) ==
  Range(get_internal_interlocking_route(k))
    \cup Range(get_leading_interlocking_route(k))
    \cup Range(get_trailing_interlocking_route(k))

\* The active main signals of a station route are in order.
LEMMA SignalList ==
  ASSUME Typed, NEW k \in DOMAIN station_routes
  PROVE  LET m == main_signals(k) IN
         /\ Len(m) \in Nat /\ DOMAIN m = 1..Len(m) /\ (m = <<>> <=> Len(m) = 0)
         /\ \A i \in 1..Len(m) : m[i] \in 1..size(station_routes[k])
         /\ \A i, j \in 1..Len(m) : i < j => m[i] < m[j]
         /\ \A x : x \in Range(m) <=> \E i \in 1..Len(m) : x = m[i]
<1> DEFINE m == main_signals(k)
           sz == size(station_routes[k])
<1>1. sz \in Nat \ {0} /\ IsRising(m, sz)
  BY DEF Typed, RoutesTyped, main_signals
<1> HIDE DEF m, sz
<1>2. /\ Len(m) \in Nat /\ DOMAIN m = 1..Len(m) /\ m \in Seq(1..sz)
      /\ \A i \in 1..Len(m) : m[i] \in 1..sz
      /\ \A i, j \in 1..Len(m) : i < j => m[i] < m[j]
  BY <1>1 DEF IsRising, IsList
<1>3. \A x : x \in Range(m) <=> \E i \in 1..Len(m) : x = m[i]
  BY <1>2 DEF Range
<1> QED BY <1>2, <1>3, EmptySeq DEF m, sz

\* The routes from one main signal of a station route to the next.
LEMMA InternalRoutes ==
  ASSUME Typed, NEW k \in DOMAIN station_routes
  PROVE  LET m == main_signals(k)
             s == get_internal_interlocking_route(k)
         IN /\ Len(s) = IF m = <<>> THEN 0 ELSE Len(m) - 1
            /\ DOMAIN s = 1..Len(s)
            /\ s \in Seq([start : Int, end : Int, station_routes : {<<k>>}])
            /\ \A j \in 1..Len(s) : s[j] = Route(m[j], m[j + 1], <<k>>)
<1> DEFINE m == main_signals(k)
           s == get_internal_interlocking_route(k)
           l == IF m = <<>> THEN 0 ELSE Len(m) - 1
           T == [start : Int, end : Int, station_routes : {<<k>>}]
<1>1. /\ Len(m) \in Nat /\ (m = <<>> <=> Len(m) = 0)
      /\ \A i \in 1..Len(m) : m[i] \in 1..size(station_routes[k])
  BY SignalList
<1>2. s = [j \in 1..(Len(m) - 1) |-> Route(m[j], m[j + 1], <<k>>)]
  BY DEF get_internal_interlocking_route
<1> HIDE DEF m, s
<1>3. l \in Nat /\ 1..(Len(m) - 1) = 1..l
  BY <1>1
<1>4. s = [j \in 1..l |-> Route(m[j], m[j + 1], <<k>>)]
  BY <1>2, <1>3
<1>5. ASSUME NEW j \in 1..l PROVE Route(m[j], m[j + 1], <<k>>) \in T
  <2>1. j \in 1..Len(m) /\ j + 1 \in 1..Len(m)
    BY <1>1
  <2>2. m[j] \in Int /\ m[j + 1] \in Int
    BY <1>1, <2>1
  <2> QED BY <2>2 DEF Route
<1> HIDE DEF l, T
<1>6. s \in [1..l -> T] /\ DOMAIN s = 1..l
  BY <1>4, <1>5
<1>7. s \in Seq(T)
  BY <1>3, <1>6, SeqDef
<1>8. Len(s) = l
  BY <1>3, <1>6, <1>7, LenProperties
<1> QED BY <1>4, <1>6, <1>7, <1>8 DEF m, s, l, T

\* The routes on a station route alone: from one main signal to the next,
\* to the first one and from the last one.
LEMMA ShortMembers ==
  ASSUME Typed, NEW k \in DOMAIN station_routes, NEW ir
  PROVE  LET m == main_signals(k) IN
         ir \in ShortRoutes(k) <=>
           /\ m # <<>>
           /\ \/ \E j \in 1..(Len(m) - 1) : ir = Route(m[j], m[j + 1], <<k>>)
              \/ predecessors[k] = <<>> /\ ir = Route(1, m[1], <<k>>)
              \/ successors[k] = <<>> /\ ir = Route(Last(m), size(station_routes[k]), <<k>>)
<1> DEFINE m == main_signals(k)
           s == get_internal_interlocking_route(k)
<1>1. /\ DOMAIN s = 1..Len(s) /\ Len(s) = IF m = <<>> THEN 0 ELSE Len(m) - 1
      /\ \A j \in 1..Len(s) : s[j] = Route(m[j], m[j + 1], <<k>>)
  BY InternalRoutes
<1>2. ir \in Range(s) <=>
        m # <<>> /\ \E j \in 1..(Len(m) - 1) : ir = Route(m[j], m[j + 1], <<k>>)
  <2> HIDE DEF m, s
  <2>1. ir \in Range(s) <=> \E j \in 1..Len(s) : ir = s[j]
    BY <1>1 DEF Range
  <2>2. CASE m = <<>>
    BY <1>1, <2>1, <2>2
  <2>3. CASE m # <<>>
    BY <1>1, <2>1, <2>3
  <2> QED BY <2>2, <2>3
<1>3. \A x : Range(<<x>>) = {x}
  BY DEF Range
<1>4. Range(<<>>) = {}
  BY DEF Range
<1>5. ir \in Range(get_leading_interlocking_route(k)) <=>
        m # <<>> /\ predecessors[k] = <<>> /\ ir = Route(1, m[1], <<k>>)
  BY <1>3, <1>4 DEF get_leading_interlocking_route
<1>6. ir \in Range(get_trailing_interlocking_route(k)) <=>
        m # <<>> /\ successors[k] = <<>> /\ ir = Route(Last(m), size(station_routes[k]), <<k>>)
  BY <1>3, <1>4 DEF get_trailing_interlocking_route
<1> HIDE DEF m, s
<1> QED BY <1>2, <1>5, <1>6 DEF ShortRoutes, m, s

\* An interlocking route on a station route alone is one of those ...
LEMMA ShortRight ==
  ASSUME Typed, NEW k \in DOMAIN station_routes, NEW ir,
         IsInterlockingRoute(ir), ir.station_routes = <<k>>
  PROVE  ir \in ShortRoutes(k)
<1> DEFINE m == main_signals(k)
           sz == size(station_routes[k])
           R == Range(m)
           s == ir.start
           e == ir.end
<1>1. /\ ir = Route(s, e, <<k>>) /\ s \in 1..sz /\ e \in 1..sz
      /\ IsStop(k, s) /\ IsStop(k, e) /\ m # <<>> /\ s <= e
      /\ \A idx \in 1..sz : (idx > s /\ idx < e) => ~IsStop(k, idx)
      /\ s = e => /\ s \in R
                  /\ \/ s = 1 /\ predecessors[k] = <<>>
                     \/ e = sz /\ successors[k] = <<>>
  <2> DEFINE c == <<k>>
  <2>1. Len(c) = 1 /\ c[1] = k /\ DOMAIN c = {1}
    OBVIOUS
  <2>2. ir.station_routes = c
    OBVIOUS
  <2> HIDE DEF c
  <2>3. first_sr(ir) = station_routes[k] /\ last_sr(ir) = station_routes[k]
    BY <2>1, <2>2 DEF first_sr, last_sr, Last
  <2>4. LeadsToNextStop(ir)
    BY DEF IsInterlockingRoute
  <2>5. /\ IsStop(k, s) /\ IsStop(k, e)
        /\ \A idx \in 1..sz : (idx > s /\ idx < e) => ~IsStop(k, idx)
    BY <2>1, <2>2, <2>4 DEF LeadsToNextStop
  <2>6. ir = Route(s, e, c)
    BY <2>2 DEF IsInterlockingRoute
  <2> QED BY <2>1, <2>2, <2>3, <2>5, <2>6 DEF IsInterlockingRoute, c
<1>2. /\ sz \in Nat \ {0} /\ R \subseteq 1..sz
      /\ m[1] \in R /\ Last(m) \in R
      /\ \A x \in R : m[1] <= x /\ x <= Last(m)
  BY <1>1, SignalFacts
<1>3. /\ Len(m) \in Nat
      /\ \A i \in 1..Len(m) : m[i] \in 1..sz
      /\ \A i, j \in 1..Len(m) : i < j => m[i] < m[j]
      /\ \A x : x \in R <=> \E i \in 1..Len(m) : x = m[i]
  BY SignalList
<1>4. /\ \A idx \in R : IsStop(k, idx)
      /\ IsStop(k, s) <=> \/ s \in R \/ (s = 1 /\ predecessors[k] = <<>>)
                          \/ (s = sz /\ successors[k] = <<>>)
      /\ IsStop(k, e) <=> \/ e \in R \/ (e = 1 /\ predecessors[k] = <<>>)
                          \/ (e = sz /\ successors[k] = <<>>)
  BY DEF IsStop
<1> HIDE DEF m, sz, R, s, e
<1>5. SUFFICES \/ \E j \in 1..(Len(m) - 1) : s = m[j] /\ e = m[j + 1]
               \/ predecessors[k] = <<>> /\ s = 1 /\ e = m[1]
               \/ successors[k] = <<>> /\ s = Last(m) /\ e = sz
  BY <1>1, ShortMembers DEF m, sz
<1>6. CASE s = e
  <2>1. CASE s = 1 /\ predecessors[k] = <<>>
    <3>1. m[1] <= 1 /\ m[1] \in 1..sz
      BY <1>1, <1>2, <1>6, <2>1
    <3> QED BY <1>2, <1>6, <2>1, <3>1
  <2>2. CASE e = sz /\ successors[k] = <<>>
    <3>1. sz <= Last(m) /\ Last(m) \in 1..sz
      BY <1>1, <1>2, <1>6, <2>2
    <3> QED BY <1>2, <1>6, <2>2, <3>1
  <2> QED BY <1>1, <1>6, <2>1, <2>2
<1>7. CASE s < e
  <2>1. CASE s \in R /\ e \in R
    <3>1. PICK i \in 1..Len(m) : s = m[i]
      BY <1>3, <2>1
    <3>2. PICK j \in 1..Len(m) : e = m[j]
      BY <1>3, <2>1
    <3>3. i < j
      <4>1. j < i => m[j] < m[i]
        BY <1>3
      <4>2. m[i] \in 1..sz /\ m[j] \in 1..sz
        BY <1>3
      <4> QED BY <1>2, <1>3, <1>7, <3>1, <3>2, <4>1, <4>2
    <3>4. i + 1 \in 1..Len(m) /\ i \in 1..(Len(m) - 1)
      BY <1>3, <3>3
    <3>5. j = i + 1
      <4> SUFFICES ASSUME i + 1 < j PROVE FALSE
        BY <1>3, <3>3
      <4>1. m[i] < m[i + 1] /\ m[i + 1] < m[j] /\ m[i + 1] \in 1..sz
        BY <1>3, <3>4
      <4>2. m[i + 1] \in R
        BY <1>3, <3>4
      <4> QED BY <1>1, <1>4, <3>1, <3>2, <4>1, <4>2
    <3> QED BY <3>1, <3>2, <3>4, <3>5
  <2>2. CASE s \notin R
    <3>1. s = 1 /\ predecessors[k] = <<>>
      BY <1>1, <1>2, <1>4, <1>7, <2>2
    <3>2. m[1] # 1 /\ m[1] \in 1..sz /\ IsStop(k, m[1])
      BY <1>2, <1>4, <2>2, <3>1
    <3>3. ~(m[1] < e)
      BY <1>1, <1>2, <3>1, <3>2
    <3>4. e \in R
      <4> SUFFICES ASSUME e \notin R PROVE FALSE
        OBVIOUS
      <4>1. e = sz
        BY <1>1, <1>2, <1>4, <1>7, <3>1
      <4>2. m[1] = sz
        BY <1>1, <1>2, <3>2, <3>3, <4>1
      <4> QED BY <1>2, <4>1, <4>2
    <3>5. e = m[1]
      BY <1>1, <1>2, <3>2, <3>3, <3>4
    <3> QED BY <3>1, <3>5
  <2>3. CASE s \in R /\ e \notin R
    <3>1. e = sz /\ successors[k] = <<>>
      BY <1>1, <1>2, <1>4, <1>7, <2>3
    <3>2. Last(m) # sz /\ Last(m) \in 1..sz /\ IsStop(k, Last(m))
      BY <1>2, <1>4, <2>3, <3>1
    <3>3. ~(Last(m) > s)
      BY <1>1, <1>2, <3>1, <3>2
    <3>4. s = Last(m)
      BY <1>1, <1>2, <2>3, <3>2, <3>3
    <3> QED BY <3>1, <3>4
  <2> QED BY <2>1, <2>2, <2>3
<1> QED BY <1>1, <1>2, <1>6, <1>7

\* ... and the other way round.
LEMMA ShortFound ==
  ASSUME Typed, NEW k \in DOMAIN station_routes, NEW ir \in ShortRoutes(k)
  PROVE  IsInterlockingRoute(ir) /\ ir.station_routes = <<k>>
<1> DEFINE m == main_signals(k)
           sz == size(station_routes[k])
           R == Range(m)
           s == ir.start
           e == ir.end
           c == <<k>>
<1>1. m # <<>>
  BY ShortMembers
<1>2. PICK a, b : /\ ir = Route(a, b, c)
                  /\ \/ \E j \in 1..(Len(m) - 1) : a = m[j] /\ b = m[j + 1]
                     \/ predecessors[k] = <<>> /\ a = 1 /\ b = m[1]
                     \/ successors[k] = <<>> /\ a = Last(m) /\ b = sz
  BY ShortMembers
<1>3. s = a /\ e = b /\ ir.station_routes = c
  BY <1>2 DEF Route
<1>4. /\ sz \in Nat \ {0} /\ R \subseteq 1..sz
      /\ m[1] \in R /\ Last(m) \in R
      /\ \A x \in R : m[1] <= x /\ x <= Last(m)
  BY <1>1, SignalFacts
<1>5. /\ Len(m) \in Nat
      /\ \A i \in 1..Len(m) : m[i] \in 1..sz
      /\ \A i, j \in 1..Len(m) : i < j => m[i] < m[j]
      /\ \A x : x \in R <=> \E i \in 1..Len(m) : x = m[i]
  BY SignalList
<1>6. \A idx : IsStop(k, idx) <=> \/ idx \in R \/ (idx = 1 /\ predecessors[k] = <<>>)
                                 \/ (idx = sz /\ successors[k] = <<>>)
  BY DEF IsStop
<1>7. /\ Len(c) = 1 /\ c[1] = k /\ c[Len(c)] = k /\ DOMAIN c = {1}
      /\ c # <<>> /\ c \in Seq(DOMAIN station_routes)
  OBVIOUS
<1> HIDE DEF m, sz, R, s, e, c
<1> DEFINE Right ==
             /\ s \in 1..sz /\ e \in 1..sz /\ s <= e
             /\ IsStop(k, s) /\ IsStop(k, e)
             /\ \A idx \in 1..sz : (idx > s /\ idx < e) => ~IsStop(k, idx)
             /\ s = e => /\ s \in R
                         /\ \/ s = 1 /\ predecessors[k] = <<>>
                            \/ e = sz /\ successors[k] = <<>>
<1>8. Right
  <2>1. ASSUME NEW j \in 1..(Len(m) - 1), s = m[j], e = m[j + 1]
        PROVE  Right
    <3>1. j \in 1..Len(m) /\ j + 1 \in 1..Len(m) /\ j < j + 1
      BY <1>5
    <3>2. s \in R /\ e \in R /\ s < e
      BY <1>5, <2>1, <3>1
    <3>3. ASSUME NEW idx \in 1..sz, idx > s, idx < e, idx \in R PROVE FALSE
      <4>1. PICK i \in 1..Len(m) : idx = m[i]
        BY <1>5, <3>3
      <4>2. i < j \/ i = j \/ i = j + 1 \/ j + 1 < i
        BY <1>5
      <4>3. (i < j => m[i] < m[j]) /\ (j + 1 < i => m[j + 1] < m[i])
        BY <1>5, <3>1
      <4>4. m[i] \in 1..sz /\ m[j] \in 1..sz /\ m[j + 1] \in 1..sz
        BY <1>5, <3>1
      <4> QED BY <1>4, <2>1, <3>3, <4>1, <4>2, <4>3, <4>4
    <3>4. s \in 1..sz /\ e \in 1..sz
      BY <1>4, <3>2
    <3> QED BY <1>4, <1>6, <3>2, <3>3, <3>4
  <2>2. ASSUME predecessors[k] = <<>>, s = 1, e = m[1] PROVE Right
    <3>1. s \in 1..sz /\ e \in 1..sz /\ e \in R
      <4>1. e \in R /\ R \subseteq 1..sz
        BY <1>4, <2>2
      <4>2. sz \in Nat \ {0}
        BY <1>4
      <4> QED BY <4>1, <4>2, <2>2
    <3>2. ASSUME NEW idx \in 1..sz, idx > s, idx < e PROVE ~IsStop(k, idx)
      BY <1>4, <1>6, <2>2, <3>1, <3>2
    <3> QED BY <1>4, <1>6, <2>2, <3>1, <3>2
  <2>3. ASSUME successors[k] = <<>>, s = Last(m), e = sz PROVE Right
    <3>1. s \in 1..sz /\ e \in 1..sz /\ s \in R
      <4>1. s \in R /\ R \subseteq 1..sz
        BY <1>4, <2>3
      <4>2. sz \in Nat \ {0}
        BY <1>4
      <4> QED BY <4>1, <4>2, <2>3
    <3>2. ASSUME NEW idx \in 1..sz, idx > s, idx < e PROVE ~IsStop(k, idx)
      BY <1>4, <1>6, <2>3, <3>1, <3>2
    <3> QED BY <1>4, <1>6, <2>3, <3>1, <3>2
  <2> QED BY <1>2, <1>3, <2>1, <2>2, <2>3
<1>9. IsChain(c)
  BY <1>7 DEF IsChain
<1>10. LeadsToNextStop(ir)
  <2>1. ir.station_routes = c /\ ir.start = s /\ ir.end = e
    BY <1>3 DEF s, e
  <2>2. \A j \in DOMAIN c : j = 1 /\ j = Len(c) /\ c[j] = k
    BY <1>7
  <2>3. IsStop(c[1], s) /\ IsStop(c[Len(c)], e)
    BY <1>7, <1>8
  <2>4. \A j \in DOMAIN c : \A idx \in 1..size(station_routes[c[j]]) :
          ((j = 1 => idx > s) /\ (j = Len(c) => idx < e)) => ~IsStop(c[j], idx)
    <3> SUFFICES ASSUME NEW j \in DOMAIN c, NEW idx \in 1..sz, idx > s, idx < e
                 PROVE  ~IsStop(k, idx)
      BY <2>2 DEF sz
    <3> QED BY <1>8
  <2> HIDE DEF Right
  <2> QED BY <2>1, <2>3, <2>4 DEF LeadsToNextStop
<1>11. first_sr(ir) = station_routes[k] /\ last_sr(ir) = station_routes[k]
  BY <1>3, <1>7 DEF first_sr, last_sr, Last
<1>12. IsInterlockingRoute(ir)
  <2>1. ir = Route(ir.start, ir.end, ir.station_routes)
    BY <1>2, <1>3 DEF s, e
  <2>2. ir.start \in 1..size(first_sr(ir)) /\ ir.end \in 1..size(last_sr(ir))
    BY <1>8, <1>11 DEF sz, s, e
  <2> QED BY <1>1, <1>3, <1>7, <1>8, <1>9, <1>10, <2>1, <2>2
          DEF IsInterlockingRoute, s, e, sz, m, R
<1> QED BY <1>3, <1>12 DEF c

-----------------------------------------------------------------------------
(***************************************************************************)
(* The calls of fill_paths.                                                *)
(***************************************************************************)
\* The types of routes and calls.
IrType == [start : Nat, end : Nat, station_routes : Seq(Nat)]
CallType == [sr : Nat, ir : IrType]

\* The chain that a call of fill_paths looks at.
Path(call) == Append(call.ir.station_routes, call.sr)

\* A call that comes from the station route k.
CallRight(call, k) ==
  /\ call \in CallType /\ call.ir.station_routes # <<>>
  /\ call.ir = Route(start_of(k), size(station_routes[k]), call.ir.station_routes)
  /\ IsOpen(Path(call)) /\ Path(call)[1] = k

\* The calls to come look at different parts of the network: none of the
\* chains continues another one.
Pending(cs, k) ==
  /\ cs \in Seq(CallType)
  /\ \A i \in 1..Len(cs) : CallRight(cs[i], k)
  /\ \A i, j \in 1..Len(cs) : i # j => ~Prefix(Path(cs[i]), Path(cs[j]))

\* A chain over which the recursion goes on.
IsStem(q) ==
  /\ IsChain(q) /\ can_start_an_interlocking(q[1])
  /\ \A j \in 1..Len(q) : ~requires_etcs(station_routes[q[j]])
  /\ \A j \in 2..Len(q) : main_signals(q[j]) = <<>>

\* The types of an interlocking route.
LEMMA RouteTyped ==
  ASSUME Typed, NEW ir, IsInterlockingRoute(ir)
  PROVE  ir \in IrType /\ ir.station_routes[1] \in 1..Len(station_routes)
<1> DEFINE c == ir.station_routes
           n == Len(station_routes)
<1>1. IsChain(c) /\ ir = Route(ir.start, ir.end, c)
  BY DEF IsInterlockingRoute
<1>2. n \in Nat /\ DOMAIN station_routes = 1..n
  BY DEF Typed, RoutesTyped
<1>3. Len(c) \in Nat \ {0} /\ DOMAIN c = 1..Len(c) /\ \A j \in 1..Len(c) : c[j] \in 1..n
  BY <1>1, <1>2, ChainTyped
<1>4. c \in Seq(Nat)
  <2>1. c \in Seq(DOMAIN station_routes)
    BY <1>1 DEF IsChain
  <2>2. c \in [1..Len(c) -> DOMAIN station_routes]
    BY <2>1, LenProperties
  <2>3. c \in [1..Len(c) -> Nat]
    BY <1>2, <2>2
  <2> QED BY <1>3, <2>3, SeqDef
<1>5. c[1] \in 1..n /\ c[Len(c)] \in 1..n
  BY <1>3
<1>6. size(station_routes[c[1]]) \in Nat /\ size(station_routes[c[Len(c)]]) \in Nat
  BY <1>2, <1>5 DEF Typed, RoutesTyped
<1>7. ir.start \in Nat /\ ir.end \in Nat
  BY <1>6 DEF IsInterlockingRoute, first_sr, last_sr, Last
<1> QED BY <1>1, <1>4, <1>5, <1>7 DEF IrType, Route

\* A chain is a list of numbers.
LEMMA ChainNat ==
  ASSUME Typed, NEW c, IsChain(c)
  PROVE  c \in Seq(Nat) /\ \A j \in 1..Len(c) : c[j] \in Nat
<1>1. Len(station_routes) \in Nat /\ DOMAIN station_routes = 1..Len(station_routes)
  BY DEF Typed, RoutesTyped
<1>2. c \in Seq(DOMAIN station_routes)
  BY DEF IsChain
<1>3. c \in [1..Len(c) -> DOMAIN station_routes] /\ Len(c) \in Nat
  BY <1>2, LenProperties
<1>4. c \in [1..Len(c) -> Nat]
  BY <1>1, <1>3
<1> QED BY <1>3, <1>4, SeqDef

\* The recursion goes on to every successor.
LEMMA StemExtends ==
  ASSUME Typed, NEW q, IsStem(q), NEW s \in Range(successors[q[Len(q)]])
  PROVE  IsOpen(Append(q, s)) /\ s \in DOMAIN station_routes
<1> DEFINE n == Len(station_routes)
           p == Append(q, s)
           l == Len(q)
<1>1. IsChain(q)
  BY DEF IsStem
<1>2. /\ l \in Nat \ {0} /\ q \in Seq(Nat) /\ q \in Seq(DOMAIN station_routes)
      /\ \A j \in 1..l : q[j] \in DOMAIN station_routes
  BY <1>1, ChainTyped, ChainNat DEF IsChain
<1>3. s \in DOMAIN station_routes /\ s \in Nat
  <2>1. q[l] \in 1..n /\ DOMAIN station_routes = 1..n /\ n \in Nat
    BY <1>2 DEF Typed, RoutesTyped
  <2>2. IsList(successors[q[l]], n)
    BY <2>1 DEF Typed, LinksTyped
  <2> QED BY <2>1, <2>2 DEF IsList, Range
<1>4. /\ Len(p) = l + 1 /\ p[l + 1] = s /\ \A j \in 1..l : p[j] = q[j]
  BY <1>2, <1>3, AppendFacts
<1>5. p \in Seq(DOMAIN station_routes) /\ p # <<>>
  BY <1>2, <1>3, AppendProperties
<1>6. /\ s \in Range(successors[q[l]])
      /\ \A j \in 1..(l - 1) : q[j + 1] \in Range(successors[q[j]])
  BY <1>1 DEF IsChain
<1> HIDE DEF p, l
<1>7. IsChain(p)
  <2> SUFFICES ASSUME NEW j \in 1..(Len(p) - 1) PROVE p[j + 1] \in Range(successors[p[j]])
    BY <1>5 DEF IsChain
  <2>1. CASE j = l
    BY <1>2, <1>4, <1>6, <2>1
  <2>2. CASE j # l
    <3>1. j \in 1..(l - 1) /\ j \in 1..l /\ j + 1 \in 1..l
      BY <1>2, <1>4, <2>2
    <3> QED BY <1>4, <1>6, <3>1
  <2> QED BY <2>1, <2>2
<1>8. \A j \in 1..(Len(p) - 1) : j \in 1..l
  BY <1>2, <1>4
<1>9. 1 \in 1..l /\ Len(p) > 1 /\ p[1] = q[1]
  BY <1>2, <1>4
<1>10. IsOpen(p)
  <2>1. \A j \in 1..(Len(p) - 1) : ~requires_etcs(station_routes[p[j]])
    BY <1>4, <1>8 DEF IsStem, l
  <2>2. \A j \in 2..(Len(p) - 1) : main_signals(p[j]) = <<>>
    <3> SUFFICES ASSUME NEW j \in 2..(Len(p) - 1) PROVE main_signals(p[j]) = <<>>
      OBVIOUS
    <3>1. j \in 2..l /\ j \in 1..l
      BY <1>2, <1>4
    <3> QED BY <1>4, <3>1 DEF IsStem, l
  <2> QED BY <1>7, <1>9, <2>1, <2>2 DEF IsOpen, IsStem
<1> QED BY <1>3, <1>10 DEF p

\* A route that goes on from a chain goes on over a successor.
LEMMA StemSplits ==
  ASSUME Typed, NEW q, IsStem(q), NEW c, IsComplete(c), Prefix(q, c), Len(q) # Len(c)
  PROVE  \E s \in Range(successors[q[Len(q)]]) : Prefix(Append(q, s), c)
<1> DEFINE l == Len(q)
           s == c[l + 1]
<1>1. IsChain(q) /\ IsChain(c)
  BY DEF IsStem, IsComplete, IsOpen
<1>2. /\ l \in Nat \ {0} /\ q \in Seq(Nat) /\ Len(c) \in Nat /\ c \in Seq(Nat)
      /\ \A j \in 1..Len(c) : c[j] \in Nat
  BY <1>1, ChainTyped, ChainNat
<1>3. l <= Len(c) /\ \A j \in 1..l : c[j] = q[j]
  BY DEF Prefix
<1>4. l \in 1..(Len(c) - 1) /\ l + 1 \in 1..Len(c) /\ l \in 1..l
  BY <1>2, <1>3
<1>5. s \in Range(successors[q[l]]) /\ s \in Nat
  <2>1. c[l + 1] \in Range(successors[c[l]])
    BY <1>1, <1>4 DEF IsChain
  <2> QED BY <1>2, <1>3, <1>4, <2>1
<1>6. /\ Len(Append(q, s)) = l + 1 /\ Append(q, s)[l + 1] = s
      /\ \A j \in 1..l : Append(q, s)[j] = q[j]
  BY <1>2, <1>5, AppendFacts
<1> HIDE DEF l
<1>7. Prefix(Append(q, s), c)
  <2>1. ASSUME NEW j \in 1..(l + 1) PROVE c[j] = Append(q, s)[j]
    <3>1. j \in 1..l \/ j = l + 1
      BY <1>2
    <3> QED BY <1>3, <1>6, <3>1
  <2> QED BY <1>2, <1>4, <1>6, <2>1 DEF Prefix
<1> QED BY <1>5, <1>7 DEF l

\* The calls that follow a chain q.
NextCalls(q, k) == Calls(q[Len(q)], Route(start_of(k), size(station_routes[k]), q))

\* There is one call for each successor.
LEMMA NextCallsRight ==
  ASSUME Typed, NEW q, IsStem(q), NEW k, k = q[1]
  PROVE  LET cs == NextCalls(q, k)
             next == successors[q[Len(q)]]
         IN  /\ cs \in Seq(CallType) /\ Len(cs) = Len(next) /\ Len(next) \in Nat
             /\ DOMAIN next = 1..Len(next)
             /\ \A i, j \in 1..Len(next) : next[i] = next[j] => i = j
             /\ \A i \in 1..Len(next) : next[i] \in Nat
             /\ \A i \in 1..Len(cs) :
                  CallRight(cs[i], k) /\ Path(cs[i]) = Append(q, next[i])
<1> DEFINE cs == NextCalls(q, k)
           next == successors[q[Len(q)]]
           ir == Route(start_of(k), size(station_routes[k]), q)
           n == Len(station_routes)
<1>1. IsChain(q)
  BY DEF IsStem
<1>2. /\ Len(q) \in Nat \ {0} /\ q \in Seq(Nat) /\ q # <<>>
      /\ \A j \in 1..Len(q) : q[j] \in DOMAIN station_routes
  BY <1>1, ChainTyped, ChainNat DEF IsChain
<1>3. /\ DOMAIN station_routes = 1..n /\ n \in Nat
      /\ k \in DOMAIN station_routes /\ q[Len(q)] \in 1..n
  BY <1>2 DEF Typed, RoutesTyped
<1>4. IsList(next, n)
  BY <1>3 DEF Typed, LinksTyped
<1>5. /\ ir \in IrType /\ ir.station_routes = q
      /\ ir = Route(start_of(k), size(station_routes[k]), ir.station_routes)
  <2>1. start_of(k) \in Nat /\ size(station_routes[k]) \in Nat
    <3>1. size(station_routes[k]) \in Nat /\ start_of(k) \in 1..size(station_routes[k])
      BY <1>3, SignalFacts
    <3> QED BY <3>1
  <2> QED BY <1>2, <2>1 DEF Route, IrType
<1>6. cs = [j \in DOMAIN next |-> [sr |-> next[j], ir |-> ir]]
  BY DEF NextCalls, Calls
<1> HIDE DEF next, ir
<1>7. /\ Len(next) \in Nat /\ DOMAIN next = 1..Len(next)
      /\ \A i \in 1..Len(next) : next[i] \in 1..n
  BY <1>4 DEF IsList
<1>8. \A i \in 1..Len(next) : next[i] \in Nat
  BY <1>3, <1>7
<1> HIDE DEF cs, n
<1>9. cs \in [1..Len(next) -> CallType]
  BY <1>5, <1>6, <1>7, <1>8 DEF CallType
<1>10. cs \in Seq(CallType) /\ Len(cs) = Len(next)
  <2>1. cs \in Seq(CallType)
    BY <1>7, <1>9, SeqDef
  <2> QED BY <1>7, <1>9, <2>1, LenProperties
<1>11. ASSUME NEW i \in 1..Len(cs)
       PROVE  CallRight(cs[i], k) /\ Path(cs[i]) = Append(q, next[i])
  <2>1. cs[i] = [sr |-> next[i], ir |-> ir] /\ cs[i] \in CallType
    BY <1>6, <1>7, <1>9, <1>10
  <2>2. cs[i].ir = ir /\ cs[i].sr = next[i]
    BY <2>1
  <2>3. Path(cs[i]) = Append(q, next[i])
    BY <1>5, <2>2 DEF Path
  <2>4. next[i] \in Range(next) /\ next[i] \in Nat
    BY <1>7, <1>8, <1>10 DEF Range
  <2>5. IsOpen(Append(q, next[i]))
    BY <2>4, StemExtends DEF next
  <2>6. Append(q, next[i])[1] = k
    BY <1>2, <2>4, AppendFacts
  <2> QED BY <1>2, <1>5, <2>1, <2>2, <2>3, <2>5, <2>6 DEF CallRight
<1>12. \A i, j \in 1..Len(next) : next[i] = next[j] => i = j
  BY <1>4 DEF IsList
<1> QED BY <1>7, <1>8, <1>10, <1>11, <1>12 DEF cs, next

\* The chain of a call ends with its station route.
LEMMA PathFacts ==
  ASSUME Typed, NEW k, NEW call, CallRight(call, k)
  PROVE  /\ call.ir.station_routes \in Seq(Nat) /\ call.sr \in Nat
         /\ Path(call) \in Seq(Nat) /\ Len(Path(call)) \in Nat /\ Len(Path(call)) > 1
         /\ Path(call)[Len(Path(call))] = call.sr
  BY AppendFacts DEF CallRight, CallType, IrType, Path, IsOpen

\* The calls behind the next one.
LEMMA PendingTail ==
  ASSUME NEW cs, NEW k, Pending(cs, k), cs # <<>>
  PROVE  /\ Pending(Tail(cs), k) /\ Len(Tail(cs)) = Len(cs) - 1 /\ Len(cs) \in Nat \ {0}
         /\ \A i \in 1..(Len(cs) - 1) : Tail(cs)[i] = cs[i + 1] /\ i + 1 \in 1..Len(cs)
<1>1. /\ Tail(cs) \in Seq(CallType) /\ Len(Tail(cs)) = Len(cs) - 1 /\ Len(cs) \in Nat \ {0}
      /\ \A i \in 1..(Len(cs) - 1) : Tail(cs)[i] = cs[i + 1] /\ i + 1 \in 1..Len(cs)
  BY TailAt DEF Pending
<1>2. \A i \in 1..(Len(cs) - 1) : CallRight(Tail(cs)[i], k)
  BY <1>1 DEF Pending
<1>3. ASSUME NEW i \in 1..(Len(cs) - 1), NEW j \in 1..(Len(cs) - 1), i # j
      PROVE  ~Prefix(Path(Tail(cs)[i]), Path(Tail(cs)[j]))
  <2>1. i + 1 # j + 1
    BY <1>1, <1>3
  <2> QED BY <1>1, <2>1 DEF Pending
<1> QED BY <1>1, <1>2, <1>3 DEF Pending

\* The calls that follow a chain look at different parts of the network.
LEMMA PendingNext ==
  ASSUME Typed, NEW q, IsStem(q), NEW k, k = q[1]
  PROVE  Pending(NextCalls(q, k), k)
<1> DEFINE cs == NextCalls(q, k)
           next == successors[q[Len(q)]]
<1>1. /\ cs \in Seq(CallType) /\ Len(cs) = Len(next) /\ Len(next) \in Nat
      /\ \A i, j \in 1..Len(next) : next[i] = next[j] => i = j
      /\ \A i \in 1..Len(next) : next[i] \in Nat
      /\ \A i \in 1..Len(cs) : CallRight(cs[i], k) /\ Path(cs[i]) = Append(q, next[i])
  BY NextCallsRight
<1>2. q \in Seq(Nat)
  BY ChainNat DEF IsStem
<1> HIDE DEF cs, next
<1>3. ASSUME NEW i \in 1..Len(cs), NEW j \in 1..Len(cs), i # j
      PROVE  ~Prefix(Path(cs[i]), Path(cs[j]))
  <2>1. next[i] \in Nat /\ next[j] \in Nat /\ next[i] # next[j]
    BY <1>1, <1>3
  <2>2. Path(cs[i]) = Append(q, next[i]) /\ Path(cs[j]) = Append(q, next[j])
    BY <1>1
  <2>3. /\ Len(q) \in Nat /\ Len(Append(q, next[i])) = Len(q) + 1
        /\ Append(q, next[i])[Len(q) + 1] = next[i] /\ Append(q, next[j])[Len(q) + 1] = next[j]
    BY <1>2, <2>1, AppendFacts
  <2>4. Len(q) + 1 \in 1..(Len(q) + 1)
    BY <2>3
  <2> QED BY <2>1, <2>2, <2>3, <2>4 DEF Prefix
<1> QED BY <1>1, <1>3 DEF Pending, cs

\* Calls to come before other calls to come.
LEMMA PendingConcat ==
  ASSUME NEW a, NEW b, NEW k, Pending(a, k), Pending(b, k),
         \A i \in 1..Len(a) : \A j \in 1..Len(b) :
           ~Prefix(Path(a[i]), Path(b[j])) /\ ~Prefix(Path(b[j]), Path(a[i]))
  PROVE  Pending(a \o b, k)
<1> DEFINE c == a \o b
<1>1. /\ c \in Seq(CallType) /\ Len(a) \in Nat /\ Len(b) \in Nat
      /\ Len(c) = Len(a) + Len(b)
      /\ \A i \in 1..Len(a) : c[i] = a[i]
      /\ \A j \in 1..Len(b) : c[Len(a) + j] = b[j]
      /\ \A i \in 1..Len(c) : i \in 1..Len(a) \/ \E j \in 1..Len(b) : i = Len(a) + j
  BY ConcatAt DEF Pending
<1> HIDE DEF c
<1>2. ASSUME NEW i \in 1..Len(c) PROVE CallRight(c[i], k)
  BY <1>1 DEF Pending
<1>3. ASSUME NEW i \in 1..Len(c), NEW j \in 1..Len(c), i # j
      PROVE  ~Prefix(Path(c[i]), Path(c[j]))
  <2>1. CASE i \in 1..Len(a) /\ j \in 1..Len(a)
    BY <1>1, <1>3, <2>1 DEF Pending
  <2>2. CASE i \in 1..Len(a) /\ j \notin 1..Len(a)
    <3>1. PICK y \in 1..Len(b) : j = Len(a) + y
      BY <1>1, <2>2
    <3> QED BY <1>1, <2>2, <3>1
  <2>3. CASE i \notin 1..Len(a) /\ j \in 1..Len(a)
    <3>1. PICK x \in 1..Len(b) : i = Len(a) + x
      BY <1>1, <2>3
    <3> QED BY <1>1, <2>3, <3>1
  <2>4. CASE i \notin 1..Len(a) /\ j \notin 1..Len(a)
    <3>1. PICK x \in 1..Len(b) : i = Len(a) + x
      BY <1>1, <2>4
    <3>2. PICK y \in 1..Len(b) : j = Len(a) + y
      BY <1>1, <2>4
    <3>3. x # y
      BY <1>3, <3>1, <3>2
    <3> QED BY <1>1, <3>1, <3>2, <3>3 DEF Pending
  <2> QED BY <2>1, <2>2, <2>3, <2>4
<1> QED BY <1>1, <1>2, <1>3 DEF Pending, c

\* The calls after one that went on.
LEMMA PendingExpand ==
  ASSUME Typed, NEW cs, NEW k, Pending(cs, k), cs # <<>>,
         NEW q, q = Path(cs[1]), IsStem(q)
  PROVE  Pending(NextCalls(q, k) \o Tail(cs), k)
<1> DEFINE a == NextCalls(q, k)
           b == Tail(cs)
           next == successors[q[Len(q)]]
<1>1. /\ Pending(b, k) /\ Len(b) = Len(cs) - 1 /\ Len(cs) \in Nat \ {0}
      /\ \A i \in 1..(Len(cs) - 1) : b[i] = cs[i + 1] /\ i + 1 \in 1..Len(cs)
  BY PendingTail
<1>2. 1 \in 1..Len(cs) /\ CallRight(cs[1], k)
  BY <1>1 DEF Pending
<1>3. k = q[1] /\ q \in Seq(Nat)
  BY <1>2, PathFacts DEF CallRight
<1>4. Pending(a, k)
  BY <1>3, PendingNext
<1>5. /\ Len(a) = Len(next) /\ \A i \in 1..Len(next) : next[i] \in Nat
      /\ \A i \in 1..Len(a) : Path(a[i]) = Append(q, next[i])
  BY <1>3, NextCallsRight
<1> HIDE DEF a, b, next
<1>6. ASSUME NEW i \in 1..Len(a), NEW j \in 1..Len(b)
      PROVE  ~Prefix(Path(a[i]), Path(b[j])) /\ ~Prefix(Path(b[j]), Path(a[i]))
  <2>1. b[j] = cs[j + 1] /\ j + 1 \in 1..Len(cs) /\ j + 1 # 1
    BY <1>1
  <2> DEFINE p == Path(b[j])
  <2>2. ~Prefix(q, p) /\ ~Prefix(p, q)
    BY <1>2, <2>1 DEF Pending
  <2>3. p \in Seq(Nat)
    BY <2>1, PathFacts DEF Pending
  <2>4. Path(a[i]) = Append(q, next[i]) /\ next[i] \in Nat
    BY <1>5
  <2> HIDE DEF p
  <2>5. ~Prefix(Append(q, next[i]), p) /\ ~Prefix(p, Append(q, next[i]))
    BY <1>3, <2>2, <2>3, <2>4, PrefixOfAppend
  <2> QED BY <2>4, <2>5 DEF p
<1> QED BY <1>1, <1>4, <1>6, PendingConcat DEF a, b

-----------------------------------------------------------------------------
\* The route ir is in the list rs.
Found(rs, ir) == \E i \in 1..Len(rs) : rs[i] = ir

\* A list of interlocking routes, each once but where a station route is a
\* single node.
AllRight(rs) ==
  /\ rs \in Seq(IrType)
  /\ \A i \in 1..Len(rs) : IsInterlockingRoute(rs[i])
  /\ \A i, j \in 1..Len(rs) : rs[i] = rs[j] => (i = j \/ size(first_sr(rs[i])) = 1)

\* Two lists of interlocking routes behind each other.
LEMMA ConcatRight ==
  ASSUME NEW rs, AllRight(rs), NEW ts, AllRight(ts),
         \A x : Found(rs, x) /\ Found(ts, x) => size(first_sr(x)) = 1
  PROVE  /\ AllRight(rs \o ts)
         /\ \A x : Found(rs \o ts, x) <=> (Found(rs, x) \/ Found(ts, x))
<1> DEFINE c == rs \o ts
<1>1. /\ c \in Seq(IrType) /\ Len(rs) \in Nat /\ Len(ts) \in Nat
      /\ Len(c) = Len(rs) + Len(ts)
      /\ \A i \in 1..Len(rs) : c[i] = rs[i]
      /\ \A j \in 1..Len(ts) : c[Len(rs) + j] = ts[j]
      /\ \A i \in 1..Len(c) : i \in 1..Len(rs) \/ \E j \in 1..Len(ts) : i = Len(rs) + j
  BY ConcatAt DEF AllRight
<1> HIDE DEF c
<1>2. ASSUME NEW x PROVE Found(c, x) <=> (Found(rs, x) \/ Found(ts, x))
  <2>1. \A i \in 1..Len(rs) : i \in 1..Len(c)
    BY <1>1
  <2>2. \A j \in 1..Len(ts) : Len(rs) + j \in 1..Len(c)
    BY <1>1
  <2>3. ASSUME Found(c, x) PROVE Found(rs, x) \/ Found(ts, x)
    <3>1. PICK i \in 1..Len(c) : c[i] = x
      BY <2>3 DEF Found
    <3>2. CASE i \in 1..Len(rs)
      BY <1>1, <3>1, <3>2 DEF Found
    <3>3. CASE i \notin 1..Len(rs)
      <4>1. PICK j \in 1..Len(ts) : i = Len(rs) + j
        BY <1>1, <3>3
      <4> QED BY <1>1, <3>1, <4>1 DEF Found
    <3> QED BY <3>2, <3>3
  <2>4. Found(rs, x) => Found(c, x)
    BY <1>1, <2>1 DEF Found
  <2>5. Found(ts, x) => Found(c, x)
    <3> SUFFICES ASSUME NEW j \in 1..Len(ts), ts[j] = x PROVE Found(c, x)
      BY DEF Found
    <3> QED BY <1>1, <2>2 DEF Found
  <2> QED BY <2>3, <2>4, <2>5
<1>3. \A i \in 1..Len(c) : IsInterlockingRoute(c[i])
  BY <1>1 DEF AllRight
<1>4. ASSUME NEW i \in 1..Len(c), NEW j \in 1..Len(c), c[i] = c[j]
      PROVE  i = j \/ size(first_sr(c[i])) = 1
  <2>1. CASE i \in 1..Len(rs) /\ j \in 1..Len(rs)
    BY <1>1, <1>4, <2>1 DEF AllRight
  <2>2. CASE i \in 1..Len(rs) /\ j \notin 1..Len(rs)
    BY <1>1, <1>4, <2>2 DEF Found
  <2>3. CASE i \notin 1..Len(rs) /\ j \in 1..Len(rs)
    <3>1. Found(rs, c[j]) /\ Found(ts, c[i])
      BY <1>1, <2>3 DEF Found
    <3> QED BY <1>4, <3>1
  <2>4. CASE i \notin 1..Len(rs) /\ j \notin 1..Len(rs)
    BY <1>1, <1>4, <2>4 DEF AllRight
  <2> QED BY <2>1, <2>2, <2>3, <2>4
<1> QED BY <1>1, <1>2, <1>3, <1>4 DEF AllRight, c

\* A list of one interlocking route.
LEMMA SingleRight ==
  ASSUME Typed, NEW ir, IsInterlockingRoute(ir)
  PROVE  AllRight(<<ir>>) /\ \A x : Found(<<ir>>, x) <=> x = ir
<1> DEFINE s == <<ir>>
<1>1. Len(s) = 1 /\ s[1] = ir /\ s \in Seq(IrType)
  BY RouteTyped
<1>2. 1..Len(s) = {1}
  BY <1>1
<1> HIDE DEF s
<1> QED BY <1>1, <1>2 DEF AllRight, Found, s

\* The empty list.
LEMMA NoneRight == AllRight(<<>>) /\ \A x : ~Found(<<>>, x)
  BY DEF AllRight, Found

-----------------------------------------------------------------------------
(***************************************************************************)
(* The search from one station route.                                      *)
(***************************************************************************)
\* The routes that begin before the station route k are in rs.
AllBefore(rs, k) ==
  \A ir : IsInterlockingRoute(ir) /\ ir.station_routes[1] < k => Found(rs, ir)

\* The station route k comes next.
Ready(rs, k) ==
  /\ AllRight(rs) /\ AllBefore(rs, k)
  /\ \A x : Found(rs, x) => x.station_routes[1] < k

\* The long routes that begin with k are found, or a call is on the way to
\* them, but not both.
Searching(rs, k, cs) ==
  /\ AllRight(rs) /\ AllBefore(rs, k) /\ Pending(cs, k)
  /\ \A x : Found(rs, x) =>
       \/ x.station_routes[1] < k
       \/ /\ x.station_routes[1] = k /\ Len(x.station_routes) > 1
          /\ \A i \in 1..Len(cs) : ~Prefix(Path(cs[i]), x.station_routes)
  /\ \A c : IsComplete(c) /\ c[1] = k =>
       Found(rs, LongRoute(c)) \/ \E i \in 1..Len(cs) : Prefix(Path(cs[i]), c)

\* A single station route on which a search begins.
LEMMA StemOfOne ==
  ASSUME Typed, NEW k \in DOMAIN station_routes, can_start_an_interlocking(k),
         ~requires_etcs(station_routes[k])
  PROVE  IsStem(<<k>>)
<1> DEFINE q == <<k>>
<1>1. Len(q) = 1 /\ q[1] = k /\ q # <<>> /\ q \in Seq(DOMAIN station_routes)
  OBVIOUS
<1>2. 1..Len(q) = {1} /\ 2..Len(q) = {} /\ 1..(Len(q) - 1) = {}
  BY <1>1
<1> HIDE DEF q
<1>3. IsChain(q)
  BY <1>1, <1>2 DEF IsChain
<1> QED BY <1>1, <1>2, <1>3 DEF IsStem, q

\* The chain of a route over several station routes.
LEMMA CompleteFacts ==
  ASSUME Typed, NEW c, IsComplete(c)
  PROVE  /\ IsChain(c) /\ c \in Seq(Nat) /\ Len(c) \in Nat /\ Len(c) > 1
         /\ \A j \in 1..Len(c) : ~requires_etcs(station_routes[c[j]])
         /\ \A j \in 2..(Len(c) - 1) : ~can_end_an_interlocking(c[j])
         /\ can_end_an_interlocking(c[Len(c)])
         /\ LongRoute(c).station_routes = c
<1>1. IsChain(c) /\ Len(c) > 1 /\ IsOpen(c)
  BY DEF IsComplete, IsOpen
<1>2. c \in Seq(Nat) /\ Len(c) \in Nat
  BY <1>1, ChainNat, ChainTyped
<1>3. \A j \in 1..Len(c) : ~requires_etcs(station_routes[c[j]])
  <2> SUFFICES ASSUME NEW j \in 1..Len(c) PROVE ~requires_etcs(station_routes[c[j]])
    OBVIOUS
  <2>1. j = Len(c) \/ j \in 1..(Len(c) - 1)
    BY <1>2
  <2> QED BY <1>1, <2>1 DEF IsComplete, IsOpen
<1>4. ASSUME NEW j \in 2..(Len(c) - 1) PROVE ~can_end_an_interlocking(c[j])
  <2>1. j \in 1..(Len(c) - 1)
    BY <1>2
  <2>2. main_signals(c[j]) = <<>>
    BY <1>1 DEF IsOpen
  <2>3. successors[c[j]] # <<>>
    BY <1>1, <2>1, ChainTyped
  <2> QED BY <2>2, <2>3 DEF can_end_an_interlocking, main_signals
<1>5. LongRoute(c).station_routes = c
  BY DEF LongRoute, Route
<1> QED BY <1>1, <1>2, <1>3, <1>4, <1>5 DEF IsComplete

\* The search begins with the successors of the station route.
LEMMA StartSearch ==
  ASSUME Typed, NEW k \in DOMAIN station_routes, NEW rs, Ready(rs, k),
         can_start_an_interlocking(k), ~requires_etcs(station_routes[k])
  PROVE  Searching(rs, k, NextCalls(<<k>>, k))
<1> DEFINE q == <<k>>
           cs == NextCalls(q, k)
           next == successors[q[Len(q)]]
<1>1. IsStem(q) /\ q[1] = k /\ Len(q) = 1
  BY StemOfOne
<1> HIDE DEF q
<1>2. /\ Len(cs) = Len(next) /\ DOMAIN next = 1..Len(next)
      /\ \A i \in 1..Len(cs) : Path(cs[i]) = Append(q, next[i])
  BY <1>1, NextCallsRight
<1>3. Pending(cs, k)
  BY <1>1, PendingNext
<1>30. k \in Nat
  BY DEF Typed, RoutesTyped
<1>4. ASSUME NEW x, Found(rs, x) PROVE x.station_routes[1] < k
  BY <1>4 DEF Ready
<1>5. ASSUME NEW c, IsComplete(c), c[1] = k
      PROVE  \E i \in 1..Len(cs) : Prefix(Path(cs[i]), c)
  <2>1. Len(c) \in Nat /\ Len(c) > 1
    BY <1>5, CompleteFacts
  <2>2. Prefix(q, c) /\ Len(q) # Len(c)
    <3>1. \A j \in 1..Len(q) : c[j] = q[j]
      <4>1. \A j \in 1..1 : j = 1
        OBVIOUS
      <4> QED BY <1>1, <1>5, <4>1
    <3>2. Len(q) <= Len(c) /\ Len(q) # Len(c)
      <4>1. Len(q) = 1
        BY <1>1
      <4>2. 1 <= Len(c) /\ 1 # Len(c)
        <5>1. \A n \in Nat : n > 1 => 1 <= n /\ 1 # n
          OBVIOUS
        <5> QED BY ONLY <2>1, <5>1
      <4> QED BY ONLY <4>1, <4>2
    <3> QED BY <3>1, <3>2 DEF Prefix
  <2>3. PICK s \in Range(next) : Prefix(Append(q, s), c)
    BY <1>1, <1>5, <2>2, StemSplits
  <2>4. PICK i \in 1..Len(next) : s = next[i]
    BY <1>2 DEF Range
  <2> QED BY <1>2, <2>3, <2>4
<1> HIDE DEF cs, next
<1>6. Searching(rs, k, cs)
  BY <1>3, <1>4, <1>5 DEF Ready, Searching
<1> QED BY <1>6 DEF cs, q

\* No route over several station routes begins here.
LEMMA NoSearch ==
  ASSUME Typed, NEW k \in DOMAIN station_routes, NEW rs, Ready(rs, k),
         ~(can_start_an_interlocking(k) /\ ~requires_etcs(station_routes[k]))
  PROVE  Searching(rs, k, <<>>)
<1>1. Pending(<<>>, k)
  BY DEF Pending
<1>2. ASSUME NEW c, IsComplete(c), c[1] = k PROVE FALSE
  <2>1. /\ Len(c) \in Nat /\ Len(c) > 1
        /\ \A j \in 1..Len(c) : ~requires_etcs(station_routes[c[j]])
    BY <1>2, CompleteFacts
  <2>2. 1 \in 1..Len(c)
    BY <2>1
  <2> QED BY <1>2, <2>1, <2>2 DEF IsComplete, IsOpen
<1> QED BY <1>1, <1>2 DEF Ready, Searching

\* The chain of the next call, and the calls behind it.
LEMMA NextFacts ==
  ASSUME Typed, NEW cs, NEW k, Pending(cs, k), cs # <<>>
  PROVE  LET q  == Path(cs[1])
             ts == Tail(cs)
         IN  /\ CallRight(cs[1], k) /\ IsOpen(q) /\ IsChain(q) /\ q[1] = k
             /\ q \in Seq(Nat) /\ Len(q) \in Nat /\ Len(q) > 1 /\ q[Len(q)] = cs[1].sr
             /\ Pending(ts, k)
             /\ \A i \in 1..Len(ts) : ~Prefix(Path(ts[i]), q)
             /\ \A i \in 1..Len(ts) : \E j \in 2..Len(cs) : ts[i] = cs[j]
             /\ \A j \in 1..Len(cs) : j = 1 \/ \E i \in 1..Len(ts) : ts[i] = cs[j]
<1> DEFINE q == Path(cs[1])
           ts == Tail(cs)
<1>1. /\ Pending(ts, k) /\ Len(ts) = Len(cs) - 1 /\ Len(cs) \in Nat \ {0}
      /\ \A i \in 1..(Len(cs) - 1) : ts[i] = cs[i + 1] /\ i + 1 \in 1..Len(cs)
  BY PendingTail
<1>2. 1 \in 1..Len(cs) /\ CallRight(cs[1], k)
  BY <1>1 DEF Pending
<1>3. /\ IsOpen(q) /\ q[1] = k /\ q \in Seq(Nat) /\ Len(q) \in Nat /\ Len(q) > 1
      /\ q[Len(q)] = cs[1].sr /\ IsChain(q)
  BY <1>2, PathFacts DEF CallRight, IsOpen
<1> HIDE DEF ts
<1>4. ASSUME NEW i \in 1..Len(ts)
      PROVE  /\ ~Prefix(Path(ts[i]), q)
             /\ \E j \in 2..Len(cs) : ts[i] = cs[j]
  <2>1. i + 1 \in 2..Len(cs) /\ i + 1 \in 1..Len(cs) /\ i + 1 # 1 /\ ts[i] = cs[i + 1]
    BY <1>1
  <2>2. ~Prefix(Path(cs[i + 1]), Path(cs[1]))
    BY <1>2, <2>1 DEF Pending
  <2> QED BY <2>1, <2>2
<1>5. ASSUME NEW j \in 1..Len(cs), j # 1
      PROVE  \E i \in 1..Len(ts) : ts[i] = cs[j]
  <2>1. j - 1 \in 1..(Len(cs) - 1) /\ (j - 1) + 1 = j
    BY <1>1, <1>5
  <2> QED BY <1>1, <2>1
<1> QED BY <1>1, <1>2, <1>3, <1>4, <1>5 DEF ts

\* A call that gives up leads to no route.
LEMMA DropCall ==
  ASSUME Typed, NEW rs, NEW k, NEW cs, Searching(rs, k, cs), cs # <<>>,
         requires_etcs(station_routes[cs[1].sr])
  PROVE  Searching(rs, k, Tail(cs))
<1> DEFINE q == Path(cs[1])
           ts == Tail(cs)
<1>1. Pending(cs, k)
  BY DEF Searching
<1>2. /\ Len(q) \in Nat /\ Len(q) > 1 /\ q[Len(q)] = cs[1].sr /\ Pending(ts, k)
      /\ \A i \in 1..Len(ts) : \E j \in 2..Len(cs) : ts[i] = cs[j]
      /\ \A j \in 1..Len(cs) : j = 1 \/ \E i \in 1..Len(ts) : ts[i] = cs[j]
  BY <1>1, NextFacts
<1>3. Len(cs) \in Nat
  BY <1>1, LenProperties DEF Pending
<1> HIDE DEF ts
<1>4. ASSUME NEW x, NEW i \in 1..Len(ts), \A j \in 1..Len(cs) : ~Prefix(Path(cs[j]), x)
      PROVE  ~Prefix(Path(ts[i]), x)
  <2>1. PICK j \in 2..Len(cs) : ts[i] = cs[j]
    BY <1>2
  <2>2. j \in 1..Len(cs)
    BY <1>3
  <2> QED BY <1>4, <2>1, <2>2
<1>5. ASSUME NEW c, IsComplete(c), Prefix(q, c) PROVE FALSE
  <2>1. Len(c) \in Nat /\ \A j \in 1..Len(c) : ~requires_etcs(station_routes[c[j]])
    BY <1>5, CompleteFacts
  <2>2. Len(q) \in 1..Len(c) /\ Len(q) \in 1..Len(q)
    BY <1>2, <1>5, <2>1 DEF Prefix
  <2>3. c[Len(q)] = cs[1].sr
    BY <1>2, <1>5, <2>2 DEF Prefix
  <2> QED BY <2>1, <2>2, <2>3
<1>6. ASSUME NEW c, IsComplete(c), c[1] = k
      PROVE  Found(rs, LongRoute(c)) \/ \E i \in 1..Len(ts) : Prefix(Path(ts[i]), c)
  <2> SUFFICES ASSUME NEW j \in 1..Len(cs), Prefix(Path(cs[j]), c)
               PROVE  \E i \in 1..Len(ts) : Prefix(Path(ts[i]), c)
    BY <1>6 DEF Searching
  <2>1. j # 1
    BY <1>5, <1>6
  <2> QED BY <1>2, <2>1
<1> HIDE DEF q
<1>7. Searching(rs, k, ts)
  BY <1>2, <1>4, <1>6 DEF Searching
<1> QED BY <1>7 DEF ts

\* A call at the end of a chain adds its route, which is new.
LEMMA CompleteCall ==
  ASSUME Typed, NEW rs, NEW k \in Nat, NEW cs, Searching(rs, k, cs), cs # <<>>,
         ~requires_etcs(station_routes[cs[1].sr]), can_end_an_interlocking(cs[1].sr)
  PROVE  /\ completed(cs[1].ir, cs[1].sr) \in IrType
         /\ Searching(rs \o <<completed(cs[1].ir, cs[1].sr)>>, k, Tail(cs))
<1> DEFINE q == Path(cs[1])
           ts == Tail(cs)
           new == completed(cs[1].ir, cs[1].sr)
           rs2 == rs \o <<new>>
<1>1. Pending(cs, k) /\ AllRight(rs)
  BY DEF Searching
<1>2. /\ CallRight(cs[1], k) /\ IsOpen(q) /\ q[1] = k
      /\ Len(q) \in Nat /\ Len(q) > 1 /\ q[Len(q)] = cs[1].sr /\ Pending(ts, k)
      /\ \A i \in 1..Len(ts) : ~Prefix(Path(ts[i]), q)
      /\ \A i \in 1..Len(ts) : \E j \in 2..Len(cs) : ts[i] = cs[j]
      /\ \A j \in 1..Len(cs) : j = 1 \/ \E i \in 1..Len(ts) : ts[i] = cs[j]
  BY <1>1, NextFacts
<1>3. IsComplete(q)
  BY <1>2 DEF IsComplete
<1>4. new = LongRoute(q)
  <2>1. cs[1].ir.start = start_of(k)
    BY <1>2 DEF CallRight, Route
  <2>2. new = Route(start_of(k), end_of(cs[1].sr), q)
    BY <2>1 DEF completed, end_of, Path
  <2> QED BY <1>2, <2>2 DEF LongRoute
<1>5. IsInterlockingRoute(new) /\ new.station_routes = q /\ new \in IrType
  BY <1>3, <1>4, LongFound, CompleteFacts, RouteTyped
<1>6. Len(cs) \in Nat /\ 1 \in 1..Len(cs)
  <2>1. Len(cs) \in Nat /\ Len(cs) # 0
    BY <1>1, LenProperties, EmptySeq DEF Pending
  <2> QED BY <2>1
<1>7. Prefix(q, q)
  BY <1>2 DEF Prefix
<1>8. ~Found(rs, new)
  <2> SUFFICES ASSUME Found(rs, new) PROVE FALSE
    OBVIOUS
  <2>1. ~(new.station_routes[1] < k)
    BY <1>2, <1>5
  <2> QED BY <1>5, <1>6, <1>7, <2>1 DEF Searching
<1>9. AllRight(<<new>>) /\ \A x : Found(<<new>>, x) <=> x = new
  BY <1>5, SingleRight
<1>10. AllRight(rs2) /\ \A x : Found(rs2, x) <=> (Found(rs, x) \/ x = new)
  <2> HIDE DEF new
  <2>1. \A x : Found(rs, x) /\ Found(<<new>>, x) => size(first_sr(x)) = 1
    BY <1>8, <1>9
  <2>2. /\ AllRight(rs \o <<new>>)
        /\ \A x : Found(rs \o <<new>>, x) <=> (Found(rs, x) \/ Found(<<new>>, x))
    BY <1>1, <1>9, <2>1, ConcatRight
  <2> QED BY <1>9, <2>2
<1> HIDE DEF ts, q, new, rs2
<1>11. ASSUME NEW x, Found(rs2, x)
       PROVE  \/ x.station_routes[1] < k
              \/ /\ x.station_routes[1] = k /\ Len(x.station_routes) > 1
                 /\ \A i \in 1..Len(ts) : ~Prefix(Path(ts[i]), x.station_routes)
  <2>1. CASE x = new
    BY <1>2, <1>5, <2>1
  <2>2. CASE Found(rs, x)
    <3>1. \A i \in 1..Len(ts) : \E j \in 1..Len(cs) : ts[i] = cs[j]
      <4> SUFFICES ASSUME NEW i \in 1..Len(ts) PROVE \E j \in 1..Len(cs) : ts[i] = cs[j]
        OBVIOUS
      <4>1. PICK j \in 2..Len(cs) : ts[i] = cs[j]
        BY <1>2
      <4>2. j \in 1..Len(cs)
        BY <1>6
      <4> QED BY <4>1, <4>2
    <3> QED BY <2>2, <3>1 DEF Searching
  <2> QED BY <1>10, <1>11, <2>1, <2>2
<1>12. ASSUME NEW c, IsComplete(c), Prefix(q, c) PROVE LongRoute(c) = new
  <2>1. /\ Len(c) \in Nat /\ c \in Seq(Nat)
        /\ \A j \in 2..(Len(c) - 1) : ~can_end_an_interlocking(c[j])
    BY <1>12, CompleteFacts
  <2>2. Len(q) <= Len(c) /\ Len(q) \in 1..Len(q) /\ \A j \in 1..Len(q) : c[j] = q[j]
    BY <1>2, <1>12 DEF Prefix
  <2>3. Len(q) = Len(c)
    <3> SUFFICES ASSUME Len(q) # Len(c) PROVE FALSE
      OBVIOUS
    <3>1. Len(q) \in 2..(Len(c) - 1)
      BY <1>2, <2>1, <2>2
    <3>2. c[Len(q)] = cs[1].sr
      BY <1>2, <2>2
    <3> QED BY <2>1, <3>1, <3>2
  <2>4. q \in Seq(Nat)
    BY <1>3, CompleteFacts
  <2>5. q = c
    <3>1. q = [j \in 1..Len(q) |-> q[j]] /\ c = [j \in 1..Len(c) |-> c[j]]
      BY <2>1, <2>4, LenProperties
    <3> QED BY <2>2, <2>3, <3>1
  <2> QED BY <1>4, <2>5
<1>13. ASSUME NEW c, IsComplete(c), c[1] = k
       PROVE  Found(rs2, LongRoute(c)) \/ \E i \in 1..Len(ts) : Prefix(Path(ts[i]), c)
  <2>1. CASE Found(rs, LongRoute(c))
    BY <1>10, <2>1
  <2>2. ASSUME NEW j \in 1..Len(cs), Prefix(Path(cs[j]), c)
        PROVE  Found(rs2, LongRoute(c)) \/ \E i \in 1..Len(ts) : Prefix(Path(ts[i]), c)
    <3>1. CASE j = 1
      BY <1>10, <1>12, <1>13, <2>2, <3>1 DEF q
    <3>2. CASE j # 1
      BY <1>2, <2>2, <3>2
    <3> QED BY <3>1, <3>2
  <2> QED BY <1>13, <2>1, <2>2 DEF Searching
<1>14. AllBefore(rs2, k)
  BY <1>10 DEF AllBefore, Searching
<1>15. Searching(rs2, k, ts)
  BY <1>2, <1>10, <1>11, <1>13, <1>14 DEF Searching
<1> QED BY <1>5, <1>15 DEF ts, rs2, new

\* The same of calls, with the places of both lists in the concatenation.
LEMMA ConcatParts ==
  \A a, b \in Seq(CallType) :
    /\ Len(a) \in Nat /\ Len(b) \in Nat
    /\ Len(a \o b) = Len(a) + Len(b)
    /\ \A i \in 1..Len(a) : (a \o b)[i] = a[i] /\ i \in 1..Len(a \o b)
    /\ \A j \in 1..Len(b) : (a \o b)[Len(a) + j] = b[j] /\ Len(a) + j \in 1..Len(a \o b)
    /\ \A i \in 1..Len(a \o b) : i \in 1..Len(a) \/ \E j \in 1..Len(b) : i = Len(a) + j
<1> SUFFICES ASSUME NEW a \in Seq(CallType), NEW b \in Seq(CallType), NEW c, c = a \o b
    PROVE  /\ Len(a) \in Nat /\ Len(b) \in Nat
           /\ Len(c) = Len(a) + Len(b)
           /\ \A i \in 1..Len(a) : c[i] = a[i] /\ i \in 1..Len(c)
           /\ \A j \in 1..Len(b) : c[Len(a) + j] = b[j] /\ Len(a) + j \in 1..Len(c)
           /\ \A i \in 1..Len(c) : i \in 1..Len(a) \/ \E j \in 1..Len(b) : i = Len(a) + j
  OBVIOUS
<1>1. Len(a) \in Nat /\ Len(b) \in Nat /\ Len(c) = Len(a) + Len(b)
  BY ConcatAt
<1>2. ASSUME NEW i \in 1..Len(a) PROVE c[i] = a[i] /\ i \in 1..Len(c)
  BY <1>1, ConcatAt
<1>3. ASSUME NEW j \in 1..Len(b) PROVE c[Len(a) + j] = b[j] /\ Len(a) + j \in 1..Len(c)
  BY <1>1, ConcatAt
<1>4. ASSUME NEW i \in 1..Len(c) PROVE i \in 1..Len(a) \/ \E j \in 1..Len(b) : i = Len(a) + j
  BY <1>1, ConcatAt
<1> QED BY <1>1, <1>2, <1>3, <1>4

\* A call in the middle of a chain goes on with all successors.
LEMMA ExpandCall ==
  ASSUME Typed, NEW rs, NEW k \in Nat, NEW cs, Searching(rs, k, cs), cs # <<>>,
         ~requires_etcs(station_routes[cs[1].sr]), ~can_end_an_interlocking(cs[1].sr)
  PROVE  Searching(rs, k, NextCalls(Path(cs[1]), k) \o Tail(cs))
<1> DEFINE q == Path(cs[1])
           ts == Tail(cs)
           on == NextCalls(q, k)
           ns == on \o ts
           next == successors[q[Len(q)]]
<1>1. Pending(cs, k)
  BY DEF Searching
<1>2. /\ CallRight(cs[1], k) /\ IsOpen(q) /\ q[1] = k /\ q \in Seq(Nat)
      /\ Len(q) \in Nat /\ Len(q) > 1 /\ q[Len(q)] = cs[1].sr /\ Pending(ts, k)
      /\ \A i \in 1..Len(ts) : \E j \in 2..Len(cs) : ts[i] = cs[j]
      /\ \A j \in 1..Len(cs) : j = 1 \/ \E i \in 1..Len(ts) : ts[i] = cs[j]
  BY <1>1, NextFacts
<1>3. IsStem(q)
  <2>1. \A j \in 1..Len(q) : j = Len(q) \/ j \in 1..(Len(q) - 1)
    BY <1>2
  <2>2. \A j \in 2..Len(q) : j = Len(q) \/ j \in 2..(Len(q) - 1)
    BY <1>2
  <2>3. main_signals(q[Len(q)]) = <<>>
    BY <1>2 DEF can_end_an_interlocking, main_signals
  <2> QED BY <1>2, <2>1, <2>2, <2>3 DEF IsStem, IsOpen
<1>4. Pending(ns, k)
  BY <1>1, <1>3, PendingExpand
<1>5. /\ on \in Seq(CallType) /\ Len(on) = Len(next) /\ DOMAIN next = 1..Len(next)
      /\ \A i \in 1..Len(next) : next[i] \in Nat
      /\ \A i \in 1..Len(on) : Path(on[i]) = Append(q, next[i])
  BY <1>2, <1>3, NextCallsRight
<1> HIDE DEF q, ts, on, next
<1>6. /\ Len(on) \in Nat /\ Len(ts) \in Nat
      /\ Len(ns) = Len(on) + Len(ts)
      /\ \A i \in 1..Len(on) : ns[i] = on[i] /\ i \in 1..Len(ns)
      /\ \A j \in 1..Len(ts) : ns[Len(on) + j] = ts[j] /\ Len(on) + j \in 1..Len(ns)
      /\ \A i \in 1..Len(ns) : i \in 1..Len(on) \/ \E j \in 1..Len(ts) : i = Len(on) + j
  <2>1. ts \in Seq(CallType) /\ on \in Seq(CallType)
    BY <1>2, <1>5 DEF Pending
  <2> QED BY ONLY <2>1, ConcatParts DEF ns
<1>7. Len(cs) \in Nat /\ 1 \in 1..Len(cs)
  <2>1. Len(cs) \in Nat /\ Len(cs) # 0
    BY <1>1, LenProperties, EmptySeq DEF Pending
  <2> QED BY <2>1
<1> HIDE DEF ns
<1>8. ASSUME NEW x \in Seq(Nat), \A j \in 1..Len(cs) : ~Prefix(Path(cs[j]), x),
             NEW i \in 1..Len(ns)
      PROVE  ~Prefix(Path(ns[i]), x)
  <2>1. CASE i \in 1..Len(on)
    <3>1. Path(ns[i]) = Append(q, next[i]) /\ next[i] \in Nat
      BY <1>5, <1>6, <2>1
    <3>2. ~Prefix(q, x)
      BY <1>7, <1>8 DEF q
    <3> QED BY <1>2, <3>1, <3>2, PrefixOfAppend
  <2>2. ASSUME NEW j \in 1..Len(ts), i = Len(on) + j PROVE ~Prefix(Path(ns[i]), x)
    <3>1. PICK l \in 2..Len(cs) : ts[j] = cs[l]
      BY <1>2
    <3>2. l \in 1..Len(cs)
      BY <1>7
    <3> QED BY <1>6, <1>8, <2>2, <3>1, <3>2
  <2> QED BY <1>6, <2>1, <2>2
<1>9. ASSUME NEW x, Found(rs, x)
      PROVE  \/ x.station_routes[1] < k
             \/ /\ x.station_routes[1] = k /\ Len(x.station_routes) > 1
                /\ \A i \in 1..Len(ns) : ~Prefix(Path(ns[i]), x.station_routes)
  <2>1. x \in IrType
    BY <1>9, RouteTyped DEF Searching, AllRight, Found
  <2>2. x.station_routes \in Seq(Nat)
    BY <2>1 DEF IrType
  <2> QED BY <1>8, <1>9, <2>2 DEF Searching
<1>10. ASSUME NEW c, IsComplete(c), c[1] = k
       PROVE  Found(rs, LongRoute(c)) \/ \E i \in 1..Len(ns) : Prefix(Path(ns[i]), c)
  <2> SUFFICES ASSUME NEW j \in 1..Len(cs), Prefix(Path(cs[j]), c)
               PROVE  \E i \in 1..Len(ns) : Prefix(Path(ns[i]), c)
    BY <1>10 DEF Searching
  <2>1. CASE j = 1
    <3>1. Prefix(q, c)
      BY <2>1 DEF q
    <3>2. Len(q) # Len(c)
      <4> SUFFICES ASSUME Len(q) = Len(c) PROVE FALSE
        OBVIOUS
      <4>1. can_end_an_interlocking(c[Len(c)])
        BY <1>10, CompleteFacts
      <4>2. Len(q) \in 1..Len(q)
        BY <1>2
      <4>3. c[Len(q)] = q[Len(q)]
        BY <3>1, <4>2 DEF Prefix
      <4> QED BY <1>2, <4>1, <4>3
    <3>3. PICK s \in Range(next) : Prefix(Append(q, s), c)
      BY <1>3, <1>10, <3>1, <3>2, StemSplits DEF next
    <3>4. PICK i \in 1..Len(next) : s = next[i]
      BY <1>5 DEF Range
    <3>5. i \in 1..Len(on)
      BY <1>5
    <3>6. i \in 1..Len(ns)
      BY <1>6, <3>5
    <3>7. ns[i] = on[i] /\ Path(on[i]) = Append(q, s)
      BY <1>5, <1>6, <3>4, <3>5
    <3> QED BY <3>3, <3>6, <3>7
  <2>2. CASE j # 1
    <3>1. PICK i \in 1..Len(ts) : ts[i] = cs[j]
      BY <1>2, <2>2
    <3>2. Len(on) + i \in 1..Len(ns) /\ ns[Len(on) + i] = cs[j]
      BY <1>6, <3>1
    <3> QED BY <3>2
  <2> QED BY <2>1, <2>2
<1>11. Searching(rs, k, ns)
  BY <1>4, <1>9, <1>10 DEF Searching
<1> QED BY <1>11 DEF ns, on, ts, q

\* The routes between the main signals of a station route are right.
LEMMA InternalRight ==
  ASSUME Typed, NEW k \in DOMAIN station_routes
  PROVE  LET s == get_internal_interlocking_route(k) IN
         AllRight(s) /\ \A x : Found(s, x) <=> x \in Range(s)
<1> DEFINE m == main_signals(k)
           s == get_internal_interlocking_route(k)
<1>1. /\ Len(s) = IF m = <<>> THEN 0 ELSE Len(m) - 1
      /\ DOMAIN s = 1..Len(s)
      /\ s \in Seq([start : Int, end : Int, station_routes : {<<k>>}])
      /\ \A j \in 1..Len(s) : s[j] = Route(m[j], m[j + 1], <<k>>)
  BY InternalRoutes
<1>2. /\ Len(m) \in Nat /\ (m = <<>> <=> Len(m) = 0)
      /\ \A i \in 1..Len(m) : m[i] \in 1..size(station_routes[k])
      /\ \A i, j \in 1..Len(m) : i < j => m[i] < m[j]
  BY SignalList
<1> HIDE DEF m
<1>3. \A j \in 1..Len(s) : s[j] \in Range(s)
  BY <1>1 DEF Range
<1>4. \A j \in 1..Len(s) : IsInterlockingRoute(s[j])
  BY <1>3, ShortFound DEF ShortRoutes
<1> HIDE DEF s
<1>5. Len(s) \in Nat /\ \A j \in 1..Len(s) : j \in 1..Len(m)
  BY <1>1, <1>2
<1>6. s \in Seq(IrType)
  <2>1. \A j \in 1..Len(s) : s[j] \in IrType
    BY <1>4, RouteTyped
  <2>2. s \in [1..Len(s) -> IrType]
    <3>1. s = [j \in 1..Len(s) |-> s[j]]
      BY <1>1, LenProperties
    <3> QED BY <2>1, <3>1
  <2> QED BY <1>5, <2>2, SeqDef
<1>7. ASSUME NEW i \in 1..Len(s), NEW j \in 1..Len(s), s[i] = s[j] PROVE i = j
  <2>1. m[i] = m[j]
    <3>1. s[i] = Route(m[i], m[i + 1], <<k>>) /\ s[j] = Route(m[j], m[j + 1], <<k>>)
      BY <1>1
    <3>2. \A x, y : Route(x, y, <<k>>).start = x
      BY DEF Route
    <3> QED BY <1>7, <3>1, <3>2
  <2>2. i \in 1..Len(m) /\ j \in 1..Len(m)
    BY <1>5
  <2>3. m[i] \in Int /\ m[j] \in Int
    BY <1>2, <2>2
  <2>4. ~(i < j) /\ ~(j < i)
    BY <1>2, <2>1, <2>2, <2>3
  <2> QED BY <2>4
<1>8. AllRight(s)
  BY <1>4, <1>6, <1>7 DEF AllRight
<1>9. \A x : Found(s, x) <=> x \in Range(s)
  BY <1>1 DEF Found, Range
<1> QED BY <1>8, <1>9 DEF s

\* The routes to the first main signal and from the last one are right.
LEMMA EndsRight ==
  ASSUME Typed, NEW k \in DOMAIN station_routes
  PROVE  LET a == get_leading_interlocking_route(k)
             b == get_trailing_interlocking_route(k)
         IN  /\ AllRight(a) /\ \A x : Found(a, x) <=> x \in Range(a)
             /\ AllRight(b) /\ \A x : Found(b, x) <=> x \in Range(b)
<1>1. \A x : Range(<<x>>) = {x}
  BY DEF Range
<1>2. Range(<<>>) = {}
  BY DEF Range
<1> DEFINE a == get_leading_interlocking_route(k)
           b == get_trailing_interlocking_route(k)
           x == Route(1, main_signals(k)[1], <<k>>)
           y == Route(Last(main_signals(k)), size(station_routes[k]), <<k>>)
<1>3. a = <<>> \/ a = <<x>>
  BY DEF get_leading_interlocking_route
<1>4. b = <<>> \/ b = <<y>>
  BY DEF get_trailing_interlocking_route
<1>5. a = <<x>> => IsInterlockingRoute(x)
  <2> HAVE a = <<x>>
  <2>1. x \in ShortRoutes(k)
    BY <1>1 DEF ShortRoutes
  <2> QED BY <2>1, ShortFound
<1>6. b = <<y>> => IsInterlockingRoute(y)
  <2> HAVE b = <<y>>
  <2>1. y \in ShortRoutes(k)
    BY <1>1 DEF ShortRoutes
  <2> QED BY <2>1, ShortFound
<1> HIDE DEF a, b, x, y
<1>7. AllRight(a) /\ \A z : Found(a, z) <=> z \in Range(a)
  BY <1>1, <1>2, <1>3, <1>5, SingleRight, NoneRight
<1>8. AllRight(b) /\ \A z : Found(b, z) <=> z \in Range(b)
  BY <1>1, <1>2, <1>4, <1>6, SingleRight, NoneRight
<1> QED BY <1>7, <1>8 DEF a, b

\* The short routes of a station route are different, but for the signal that
\* leads and trails.
LEMMA ShortApart ==
  ASSUME Typed, NEW k \in DOMAIN station_routes, NEW x
  PROVE  LET s == Range(get_internal_interlocking_route(k))
             a == Range(get_leading_interlocking_route(k))
             b == Range(get_trailing_interlocking_route(k))
         IN  /\ ~(x \in s /\ x \in a) /\ ~(x \in s /\ x \in b)
             /\ x \in a /\ x \in b => size(station_routes[k]) = 1
<1> DEFINE m == main_signals(k)
           sz == size(station_routes[k])
           s == get_internal_interlocking_route(k)
           a == get_leading_interlocking_route(k)
           b == get_trailing_interlocking_route(k)
<1>1. \A z : Range(<<z>>) = {z}
  BY DEF Range
<1>2. Range(<<>>) = {}
  BY DEF Range
<1>3. x \in Range(a) => m # <<>> /\ x = Route(1, m[1], <<k>>)
  BY <1>1, <1>2 DEF get_leading_interlocking_route
<1>4. x \in Range(b) => m # <<>> /\ x = Route(Last(m), sz, <<k>>)
  BY <1>1, <1>2 DEF get_trailing_interlocking_route
<1>5. x \in Range(s) => m # <<>> /\ \E j \in 1..(Len(m) - 1) : x = Route(m[j], m[j + 1], <<k>>)
  <2>1. /\ Len(s) = IF m = <<>> THEN 0 ELSE Len(m) - 1
        /\ DOMAIN s = 1..Len(s)
        /\ \A j \in 1..Len(s) : s[j] = Route(m[j], m[j + 1], <<k>>)
    BY InternalRoutes
  <2> HIDE DEF m, s
  <2>2. x \in Range(s) => \E j \in 1..Len(s) : x = s[j]
    BY <2>1 DEF Range
  <2>3. m # <<>> => Len(s) = Len(m) - 1
    BY <2>1
  <2>4. m = <<>> => 1..Len(s) = {}
    BY <2>1
  <2> QED BY <2>1, <2>2, <2>3, <2>4
<1>6. /\ Len(m) \in Nat
      /\ \A i \in 1..Len(m) : m[i] \in 1..sz
      /\ \A i, j \in 1..Len(m) : i < j => m[i] < m[j]
      /\ \A y : y \in Range(m) <=> \E i \in 1..Len(m) : y = m[i]
  BY SignalList
<1>7. /\ sz \in Nat \ {0}
      /\ m # <<>> => /\ m[1] \in 1..sz /\ Last(m) \in 1..sz
                     /\ \A y \in Range(m) : m[1] <= y /\ y <= Last(m)
  BY SignalFacts
<1> HIDE DEF m, sz, a, b, s
<1>8. ASSUME NEW j \in 1..(Len(m) - 1), m # <<>>
      PROVE  /\ m[j] \in 1..sz /\ m[j + 1] \in 1..sz /\ m[j] < m[j + 1]
             /\ m[1] <= m[j] /\ m[j + 1] <= Last(m)
  <2>1. j \in 1..Len(m) /\ j + 1 \in 1..Len(m) /\ j < j + 1
    BY <1>6
  <2>2. m[j] \in Range(m) /\ m[j + 1] \in Range(m)
    BY <1>6, <2>1
  <2> QED BY <1>6, <1>7, <1>8, <2>1, <2>2
<1>9. ~(x \in Range(s) /\ x \in Range(a))
  <2> SUFFICES ASSUME x \in Range(s), x \in Range(a) PROVE FALSE
    OBVIOUS
  <2>1. PICK j \in 1..(Len(m) - 1) : x = Route(m[j], m[j + 1], <<k>>)
    BY <1>5
  <2>2. m # <<>> /\ m[j + 1] = m[1]
    BY <1>3, <2>1 DEF Route
  <2>3. /\ m[j] \in 1..sz /\ m[j + 1] \in 1..sz /\ m[j] < m[j + 1] /\ m[1] <= m[j]
    BY <1>8, <2>2
  <2> QED BY <2>2, <2>3
<1>10. ~(x \in Range(s) /\ x \in Range(b))
  <2> SUFFICES ASSUME x \in Range(s), x \in Range(b) PROVE FALSE
    OBVIOUS
  <2>1. PICK j \in 1..(Len(m) - 1) : x = Route(m[j], m[j + 1], <<k>>)
    BY <1>5
  <2>2. m # <<>> /\ m[j] = Last(m)
    BY <1>4, <2>1 DEF Route
  <2> QED BY <1>7, <1>8, <2>2
<1>11. ASSUME x \in Range(a), x \in Range(b) PROVE sz = 1
  <2>1. m # <<>> /\ Last(m) = 1 /\ m[1] = sz
    BY <1>3, <1>4, <1>11 DEF Route
  <2>2. 1 \in 1..Len(m)
    BY <1>6, <2>1, EmptySeq
  <2>3. m[1] \in Range(m)
    BY <1>6, <2>2
  <2>4. m[1] <= Last(m)
    BY <1>7, <2>1, <2>3
  <2> QED BY <1>7, <2>1, <2>4
<1> QED BY <1>9, <1>10, <1>11 DEF s, a, b, sz

\* When no call is left, the routes on the station route alone complete
\* what begins with it (get_interlocking.cc:164).
LEMMA FinishSearch ==
  ASSUME Typed, NEW k \in DOMAIN station_routes, NEW rs, Searching(rs, k, <<>>)
  PROVE  Ready(((rs \o get_internal_interlocking_route(k))
                   \o get_leading_interlocking_route(k))
                 \o get_trailing_interlocking_route(k), k + 1)
<1> DEFINE s == get_internal_interlocking_route(k)
           a == get_leading_interlocking_route(k)
           b == get_trailing_interlocking_route(k)
           r1 == rs \o s
           r2 == r1 \o a
           r3 == r2 \o b
           sz == size(station_routes[k])
<1>1. /\ AllRight(s) /\ \A x : Found(s, x) <=> x \in Range(s)
      /\ AllRight(a) /\ \A x : Found(a, x) <=> x \in Range(a)
      /\ AllRight(b) /\ \A x : Found(b, x) <=> x \in Range(b)
  BY InternalRight, EndsRight
<1>2. /\ \A x : ~(x \in Range(s) /\ x \in Range(a)) /\ ~(x \in Range(s) /\ x \in Range(b))
      /\ \A x : x \in Range(a) /\ x \in Range(b) => sz = 1
  BY ShortApart
<1>3. \A x : (x \in Range(s) \/ x \in Range(a) \/ x \in Range(b)) <=> x \in ShortRoutes(k)
  BY DEF ShortRoutes
<1>4. \A x \in ShortRoutes(k) : IsInterlockingRoute(x) /\ x.station_routes = <<k>>
  BY ShortFound
<1>5. k \in Nat /\ \A x : x.station_routes = <<k>> =>
        x.station_routes[1] = k /\ Len(x.station_routes) = 1
  <2>1. k \in Nat
    BY DEF Typed, RoutesTyped
  <2>2. <<k>>[1] = k /\ Len(<<k>>) = 1
    OBVIOUS
  <2> QED BY <2>1, <2>2
<1>6. ASSUME NEW x, Found(rs, x)
      PROVE  x.station_routes # <<k>> /\ x.station_routes[1] < k + 1
  <2>1. x \in IrType /\ x.station_routes[1] \in Nat
    <3>1. IsInterlockingRoute(x)
      BY <1>6 DEF Searching, AllRight, Found
    <3>2. Len(station_routes) \in Nat
      BY DEF Typed, RoutesTyped
    <3> QED BY <3>1, <3>2, RouteTyped
  <2>2. x.station_routes[1] < k \/ (x.station_routes[1] = k /\ Len(x.station_routes) > 1)
    BY <1>6 DEF Searching
  <2>3. x.station_routes = <<k>> => FALSE
    <3> HAVE x.station_routes = <<k>>
    <3>1. x.station_routes[1] = k /\ Len(x.station_routes) = 1
      BY <1>5
    <3>2. ~(k < k) /\ ~(1 > 1)
      BY <1>5
    <3> QED BY <2>2, <3>1, <3>2
  <2> QED BY <1>5, <2>1, <2>2, <2>3
<1> HIDE DEF s, a, b, sz
<1>7. \A x : x \in ShortRoutes(k) => ~Found(rs, x)
  BY <1>4, <1>6
<1>8. \A x : x \in ShortRoutes(k) => size(first_sr(x)) = sz
  BY <1>4, <1>5 DEF first_sr, sz
<1>9. AllRight(r1) /\ \A x : Found(r1, x) <=> (Found(rs, x) \/ Found(s, x))
  <2>1. AllRight(rs)
    BY DEF Searching
  <2>2. \A x : Found(rs, x) /\ Found(s, x) => size(first_sr(x)) = 1
    BY <1>1, <1>3, <1>7
  <2> QED BY <1>1, <2>1, <2>2, ConcatRight
<1> HIDE DEF r1
<1>10. AllRight(r2) /\ \A x : Found(r2, x) <=> (Found(r1, x) \/ Found(a, x))
  <2>1. \A x : Found(r1, x) /\ Found(a, x) => size(first_sr(x)) = 1
    BY <1>1, <1>2, <1>3, <1>7, <1>9
  <2> QED BY <1>1, <1>9, <2>1, ConcatRight
<1> HIDE DEF r2
<1>11. AllRight(r3) /\ \A x : Found(r3, x) <=> (Found(r2, x) \/ Found(b, x))
  <2>1. \A x : Found(r2, x) /\ Found(b, x) => size(first_sr(x)) = 1
    <3> SUFFICES ASSUME NEW x, Found(r2, x), Found(b, x) PROVE size(first_sr(x)) = 1
      OBVIOUS
    <3>1. x \in Range(b) /\ x \in ShortRoutes(k)
      BY <1>1, <1>3
    <3>2. Found(rs, x) \/ x \in Range(s) \/ x \in Range(a)
      BY <1>1, <1>9, <1>10
    <3>3. x \in Range(a)
      BY <1>2, <1>7, <3>1, <3>2
    <3> QED BY <1>2, <1>8, <3>1, <3>3
  <2> QED BY <1>1, <1>10, <2>1, ConcatRight
<1> HIDE DEF r3
<1>12. \A x : Found(r3, x) <=> (Found(rs, x) \/ x \in ShortRoutes(k))
  BY <1>1, <1>3, <1>9, <1>10, <1>11
<1>13. ASSUME NEW ir, IsInterlockingRoute(ir), ir.station_routes[1] < k + 1
       PROVE  Found(r3, ir)
  <2> DEFINE c == ir.station_routes
  <2>1. c[1] \in Nat /\ c \in Seq(Nat) /\ IsChain(c)
    <3>1. Len(station_routes) \in Nat
      BY DEF Typed, RoutesTyped
    <3> QED BY <1>13, <3>1, RouteTyped DEF IrType, IsInterlockingRoute
  <2>2. Len(c) \in Nat /\ Len(c) # 0
    BY <2>1, ChainTyped
  <2>3. CASE c[1] < k
    BY <1>12, <1>13, <2>3 DEF Searching, AllBefore
  <2>4. CASE c[1] = k /\ Len(c) = 1
    <3>1. c = <<k>>
      <4>1. c = [j \in 1..Len(c) |-> c[j]]
        BY <2>1, LenProperties
      <4>2. c = [j \in 1..1 |-> c[j]]
        BY <2>4, <4>1
      <4>3. c = [j \in 1..1 |-> k]
        BY <2>4, <4>2
      <4> QED BY <4>3
    <3>2. ir \in ShortRoutes(k)
      BY <1>13, <3>1, ShortRight
    <3> QED BY <1>12, <3>2
  <2>5. CASE c[1] = k /\ Len(c) > 1
    <3>1. IsComplete(c) /\ ir = LongRoute(c)
      BY <1>13, <2>5, LongRight
    <3>2. Found(rs, LongRoute(c))
      <4>1. Found(rs, LongRoute(c)) \/ \E i \in 1..Len(<<>>) : Prefix(Path(<<>>[i]), c)
        BY <2>5, <3>1 DEF Searching
      <4> QED BY <4>1
    <3> QED BY <1>12, <3>1, <3>2
  <2> QED BY <1>5, <1>13, <2>1, <2>2, <2>3, <2>4, <2>5
<1>14. \A x : Found(r3, x) => x.station_routes[1] < k + 1
  <2>1. \A x \in ShortRoutes(k) : x.station_routes[1] < k + 1
    BY <1>4, <1>5
  <2> QED BY <1>6, <1>12, <2>1
<1>15. Ready(r3, k + 1)
  BY <1>11, <1>13, <1>14 DEF Ready, AllBefore
<1> QED BY <1>15 DEF r3, r2, r1, s, a, b

-----------------------------------------------------------------------------
(***************************************************************************)
(* The invariant of the search, for any rail plan.                         *)
(***************************************************************************)
\* The network is left as it is.
NetworkKept == UNCHANGED <<graph, network, station_routes, successors, predecessors>>

\* What an interlocking route is does not change with the interlocking.
LEMMA SameRoutes ==
  ASSUME NetworkKept
  PROVE  /\ Typed' <=> Typed
         /\ HasInterlocking' <=> HasInterlocking
         /\ \A rs, k : Ready(rs, k)' <=> Ready(rs, k)
         /\ \A rs, k, cs : Searching(rs, k, cs)' <=> Searching(rs, k, cs)
<1>1. /\ graph' = graph /\ network' = network /\ station_routes' = station_routes
      /\ successors' = successors /\ predecessors' = predecessors
  BY DEF NetworkKept
<1>2. Typed' <=> Typed
  BY <1>1 DEF Typed, RoutesTyped, LinksTyped, size
<1>3. HasInterlocking' <=> HasInterlocking
  BY <1>1 DEF HasInterlocking
<1>4. ASSUME NEW k PROVE main_signals(k)' = main_signals(k)
  BY <1>1 DEF main_signals
<1>5. ASSUME NEW k PROVE start_of(k)' = start_of(k) /\ end_of(k)' = end_of(k)
  BY <1>1, <1>4 DEF start_of, end_of, size
<1>6. ASSUME NEW k PROVE can_start_an_interlocking(k)' <=> can_start_an_interlocking(k)
  BY <1>1 DEF can_start_an_interlocking
<1>7. ASSUME NEW k PROVE can_end_an_interlocking(k)' <=> can_end_an_interlocking(k)
  BY <1>1 DEF can_end_an_interlocking
<1>8. ASSUME NEW k PROVE requires_etcs(station_routes[k])' <=> requires_etcs(station_routes[k])
  BY <1>1 DEF requires_etcs
<1>9. ASSUME NEW c PROVE IsChain(c)' <=> IsChain(c)
  BY <1>1 DEF IsChain
<1>10. ASSUME NEW k, NEW i PROVE IsStop(k, i)' <=> IsStop(k, i)
  BY <1>1, <1>4 DEF IsStop, size
<1>11. ASSUME NEW ir PROVE IsInterlockingRoute(ir)' <=> IsInterlockingRoute(ir)
  <2>1. first_sr(ir)' = first_sr(ir) /\ last_sr(ir)' = last_sr(ir)
    BY <1>1 DEF first_sr, last_sr
  <2>2. LeadsToNextStop(ir)' <=> LeadsToNextStop(ir)
    BY <1>1, <1>10 DEF LeadsToNextStop, size
  <2> QED BY <1>1, <1>4, <1>8, <1>9, <2>1, <2>2 DEF IsInterlockingRoute, size
<1>12. ASSUME NEW c PROVE IsOpen(c)' <=> IsOpen(c)
  BY <1>1, <1>4, <1>6, <1>8, <1>9 DEF IsOpen
<1>13. ASSUME NEW c PROVE IsComplete(c)' <=> IsComplete(c)
  BY <1>1, <1>7, <1>8, <1>12 DEF IsComplete
<1>14. ASSUME NEW c PROVE LongRoute(c)' = LongRoute(c)
  BY <1>5 DEF LongRoute
<1>15. ASSUME NEW call, NEW k PROVE CallRight(call, k)' <=> CallRight(call, k)
  BY <1>1, <1>5, <1>12 DEF CallRight, size
<1>16. ASSUME NEW cs, NEW k PROVE Pending(cs, k)' <=> Pending(cs, k)
  BY <1>15 DEF Pending
<1>17. ASSUME NEW rs PROVE AllRight(rs)' <=> AllRight(rs)
  <2>1. ASSUME NEW ir PROVE first_sr(ir)' = first_sr(ir)
    BY <1>1 DEF first_sr
  <2> QED BY <1>11, <2>1 DEF AllRight, size
<1>18. ASSUME NEW rs, NEW k PROVE AllBefore(rs, k)' <=> AllBefore(rs, k)
  BY <1>11 DEF AllBefore
<1>19. ASSUME NEW rs, NEW k PROVE Ready(rs, k)' <=> Ready(rs, k)
  BY <1>17, <1>18 DEF Ready
<1>20. ASSUME NEW rs, NEW k, NEW cs PROVE Searching(rs, k, cs)' <=> Searching(rs, k, cs)
  BY <1>13, <1>14, <1>16, <1>17, <1>18 DEF Searching
<1> QED BY <1>2, <1>3, <1>19, <1>20

\* The stages before and of the search.
EarlyStages == {"sections", "borders", "nodes", "routes", "station_route_graph"}
SearchStages == {"interlocking", "fill_paths", "mappings"}

\* What is known of the routes irs when k is the next station route, cs are
\* the calls to come and n is the number of station routes.
SearchOK(irs, k, cs, n) ==
  /\ stage = "interlocking" /\ HasInterlocking =>
       k \in DOMAIN station_routes /\ Ready(irs, k)
  /\ stage = "fill_paths" =>
       k \in DOMAIN station_routes /\ Searching(irs, k, cs)
  /\ stage = "mappings" => Ready(irs, n + 1)

RouteInv ==
  /\ network \in Networks
  /\ stage \in EarlyStages => interlocking.routes = <<>> /\ current = 1
  /\ stage \in EarlyStages \cup SearchStages =>
       "routes" \in DOMAIN interlocking
  /\ stage = "station_route_graph" => RoutesTyped
  /\ stage \in SearchStages => Typed
  /\ \A irs, k, cs, n :
       /\ irs = interlocking.routes /\ k = current
       /\ cs = calls /\ n = Len(station_routes)
       => SearchOK(irs, k, cs, n)

\* A stage behind the search.
LEMMA SearchIsOver ==
  network \in Networks /\ stage \notin EarlyStages \cup SearchStages => RouteInv
  BY DEF RouteInv, SearchOK, EarlyStages, SearchStages

\* The steps before the station routes.
LEMMA GraphKeepsInv ==
  ASSUME RouteInv, GraphNext, UNCHANGED <<route_vars, ir_vars>>
  PROVE  RouteInv'
<1>1. network' = network /\ stage \in {"sections", "borders", "nodes"}
  BY DEF GraphNext, parse_section, complete_borders, connect_all_nodes
<1>2. stage' \in {"sections", "borders", "nodes", "routes"}
  BY <1>1 DEF GraphNext, parse_section, complete_borders, connect_all_nodes
<1>3. interlocking' = interlocking /\ current' = current
  BY DEF ir_vars
<1> QED BY <1>1, <1>2, <1>3 DEF RouteInv, SearchOK, EarlyStages, SearchStages

\* The station routes.
LEMMA CalculateKeepsInv ==
  ASSUME RouteInv, calculate_station_routes, UNCHANGED ir_vars
  PROVE  RouteInv'
<1>1. /\ network \in Networks /\ stage = "routes"
      /\ stage' = "station_route_graph" /\ network' = network
  BY DEF RouteInv, calculate_station_routes, graph_vars
<1>2. RoutesTyped'
  BY <1>1, CalculateRoutes
<1>3. interlocking' = interlocking /\ current' = current
  BY DEF ir_vars
<1> QED BY <1>1, <1>2, <1>3 DEF RouteInv, SearchOK, EarlyStages, SearchStages

\* Before the first station route nothing is found.
LEMMA NothingBefore == Typed => Ready(<<>>, 1)
<1> SUFFICES ASSUME Typed PROVE Ready(<<>>, 1)
  OBVIOUS
<1>1. ASSUME NEW ir, IsInterlockingRoute(ir), ir.station_routes[1] < 1 PROVE FALSE
  <2>1. ir.station_routes[1] \in 1..Len(station_routes)
    BY <1>1, RouteTyped
  <2> QED BY <1>1, <2>1
<1> QED BY <1>1, NoneRight DEF Ready, AllBefore

\* The station route graph.
LEMMA GetGraphKeepsInv ==
  ASSUME RouteInv, get_station_route_graph, UNCHANGED ir_vars
  PROVE  RouteInv'
<1>1. /\ network \in Networks /\ stage = "station_route_graph" /\ stage' = "interlocking"
      /\ network' = network
  BY DEF RouteInv, get_station_route_graph, graph_vars
<1>2. /\ interlocking' = interlocking /\ current' = current
      /\ interlocking.routes = <<>> /\ current = 1
      /\ "routes" \in DOMAIN interlocking
  BY <1>1 DEF ir_vars, RouteInv, EarlyStages
<1>3. Typed'
  <2>1. RoutesTyped
    BY <1>1 DEF RouteInv
  <2> QED BY <2>1, GetGraph DEF Typed
<1>4. Ready(<<>>, 1)'
  BY <1>3, NothingBefore, PTL
<1>5. HasInterlocking' => 1 \in DOMAIN station_routes'
  BY <1>3 DEF Typed, RoutesTyped, HasInterlocking
<1>6. ASSUME NEW cs, NEW n PROVE SearchOK(<<>>, 1, cs, n)'
  BY <1>1, <1>4, <1>5 DEF SearchOK
<1> QED BY <1>1, <1>2, <1>3, <1>6 DEF RouteInv, EarlyStages, SearchStages

\* A step of the search that leaves the routes irs, the station route k and the
\* calls cs.
LEMMA SearchStep ==
  ASSUME RouteInv, NetworkKept, stage \in SearchStages, stage' \in SearchStages,
         NEW irs, NEW k, NEW cs,
         "routes" \in DOMAIN interlocking', interlocking'.routes = irs,
         current' = k, calls' = cs,
         stage' = "interlocking" => k \in DOMAIN station_routes /\ Ready(irs, k),
         stage' = "fill_paths" =>
           k \in DOMAIN station_routes /\ Searching(irs, k, cs),
         stage' = "mappings" => Ready(irs, Len(station_routes) + 1)
  PROVE  RouteInv'
<1>1. network' = network /\ station_routes' = station_routes
  BY DEF NetworkKept
<1>2. network \in Networks /\ Typed
      /\ "routes" \in DOMAIN interlocking
  BY DEF RouteInv
<1>3. Typed'
  BY <1>2, SameRoutes
<1>5. SearchOK(irs, k, cs, Len(station_routes))'
  BY <1>1, SameRoutes DEF SearchOK
<1>6. \A n : n = Len(station_routes') => SearchOK(irs, k, cs, n)'
  BY <1>1, <1>5 DEF SearchOK
<1>7. stage' \notin EarlyStages /\ stage' # "station_route_graph"
  BY DEF EarlyStages, SearchStages
<1> QED BY <1>1, <1>2, <1>3, <1>6, <1>7 DEF RouteInv

\* start_station_route.
LEMMA StartKeepsInv ==
  ASSUME RouteInv, start_station_route
  PROVE  RouteInv'
<1> DEFINE irs == interlocking.routes
           k == current
<1>1. /\ stage = "interlocking" /\ HasInterlocking /\ stage' = "fill_paths"
      /\ UNCHANGED <<graph_vars, route_vars, interlocking, current>>
  BY DEF start_station_route
<1>2. NetworkKept
  BY <1>1 DEF NetworkKept, graph_vars, route_vars
<1>3. Typed /\ k \in DOMAIN station_routes /\ Ready(irs, k) /\ "routes" \in DOMAIN interlocking
  BY <1>1 DEF RouteInv, SearchOK, SearchStages
<1>4. interlocking'.routes = irs /\ "routes" \in DOMAIN interlocking'
  BY <1>1, <1>3
<1>5. Searching(irs, k, calls')
  <2>1. CASE can_start_an_interlocking(k) /\ ~requires_etcs(station_routes[k])
    <3>1. <<k>>[Len(<<k>>)] = k
      OBVIOUS
    <3>2. calls' = NextCalls(<<k>>, k)
      BY <2>1, <3>1 DEF start_station_route, NextCalls, start_of
    <3> QED BY <1>3, <2>1, <3>2, StartSearch
  <2>2. CASE ~(can_start_an_interlocking(k) /\ ~requires_etcs(station_routes[k]))
    <3>1. calls' = <<>>
      BY <2>2 DEF start_station_route
    <3> QED BY <1>3, <2>2, <3>1, NoSearch
  <2> QED BY <2>1, <2>2
<1>6. PICK rs, c, cs : rs = irs /\ c = k /\ cs = calls'
  OBVIOUS
<1>7. stage \in SearchStages /\ stage' \in SearchStages
  BY <1>1 DEF SearchStages
<1>8. /\ "routes" \in DOMAIN interlocking'
      /\ interlocking'.routes = rs /\ current' = c /\ calls' = cs
      /\ c \in DOMAIN station_routes /\ Searching(rs, c, cs)
  BY <1>1, <1>3, <1>4, <1>5, <1>6
<1> HIDE DEF irs, k
<1> QED BY <1>1, <1>2, <1>7, <1>8, SearchStep

\* fill_paths.
LEMMA FillPathsKeepsInv ==
  ASSUME RouteInv, fill_paths
  PROVE  RouteInv'
<1> DEFINE irs == interlocking.routes
           k == current
           sr == calls[1].sr
           ir == calls[1].ir
<1>1. /\ stage = "fill_paths" /\ calls # <<>> /\ stage' = stage
      /\ UNCHANGED <<graph_vars, route_vars, current>>
  BY DEF fill_paths
<1>2. NetworkKept
  BY <1>1 DEF NetworkKept, graph_vars, route_vars
<1>3. /\ Typed /\ k \in DOMAIN station_routes /\ Searching(irs, k, calls)
      /\ "routes" \in DOMAIN interlocking
  BY <1>1 DEF RouteInv, SearchOK, SearchStages
<1>30. k \in Nat
  BY <1>3 DEF Typed, RoutesTyped
<1>4. \E rs, cs : /\ "routes" \in DOMAIN interlocking' /\ interlocking'.routes = rs
                  /\ calls' = cs /\ Searching(rs, k, cs)
  <2>1. CASE requires_etcs(station_routes[sr])
    <3>1. calls' = Tail(calls) /\ interlocking' = interlocking
      BY <2>1 DEF fill_paths
    <3>2. Searching(irs, k, Tail(calls))
      BY <1>1, <1>3, <2>1, DropCall
    <3> QED BY <1>3, <3>1, <3>2
  <2>2. CASE ~requires_etcs(station_routes[sr]) /\ can_end_an_interlocking(sr)
    <3>1. /\ calls' = Tail(calls)
          /\ interlocking' = [interlocking EXCEPT !.routes = Append(irs, completed(ir, sr))]
      BY <2>2 DEF fill_paths
    <3>2. /\ completed(ir, sr) \in IrType
          /\ Searching(irs \o <<completed(ir, sr)>>, k, Tail(calls))
      BY <1>1, <1>3, <1>30, <2>2, CompleteCall
    <3>3. irs \in Seq(IrType)
      BY <1>3 DEF Searching, AllRight
    <3>4. Append(irs, completed(ir, sr)) = irs \o <<completed(ir, sr)>>
      <4> HIDE DEF irs, ir, sr
      <4> QED BY <3>2, <3>3, AppendIsConcat
    <3> QED BY <1>3, <3>1, <3>2, <3>4
  <2>3. CASE ~requires_etcs(station_routes[sr]) /\ ~can_end_an_interlocking(sr)
    <3>1. /\ calls' = Calls(sr, [ir EXCEPT !.station_routes = Append(@, sr)]) \o Tail(calls)
          /\ interlocking' = interlocking
      BY <2>3 DEF fill_paths
    <3>2. Searching(irs, k, NextCalls(Path(calls[1]), k) \o Tail(calls))
      BY <1>1, <1>3, <1>30, <2>3, ExpandCall
    <3>3. Calls(sr, [ir EXCEPT !.station_routes = Append(@, sr)])
            = NextCalls(Path(calls[1]), k)
      <4>1. Pending(calls, k)
        BY <1>3 DEF Searching
      <4>2. CallRight(calls[1], k) /\ Path(calls[1])[Len(Path(calls[1]))] = sr
        BY <1>1, <1>3, <4>1, NextFacts
      <4>3. ir = Route(start_of(k), size(station_routes[k]), ir.station_routes)
        BY <4>2 DEF CallRight
      <4>4. [ir EXCEPT !.station_routes = Append(@, sr)]
              = Route(start_of(k), size(station_routes[k]), Append(ir.station_routes, sr))
        <5> DEFINE a == start_of(k)
                   b == size(station_routes[k])
        <5> HIDE DEF a, b, ir, sr
        <5>1. ir = [start |-> a, end |-> b, station_routes |-> ir.station_routes]
          BY <4>3 DEF Route, a, b
        <5>2. [ir EXCEPT !.station_routes = Append(@, sr)]
                = [start |-> a, end |-> b, station_routes |-> Append(ir.station_routes, sr)]
          BY <5>1
        <5> QED BY <5>2 DEF Route, a, b
      <4> QED BY <4>2, <4>4 DEF NextCalls, Path
    <3> QED BY <1>3, <3>1, <3>2, <3>3
  <2> QED BY <2>1, <2>2, <2>3
<1>5. PICK rs, cs : /\ "routes" \in DOMAIN interlocking' /\ interlocking'.routes = rs
                    /\ calls' = cs /\ Searching(rs, k, cs)
  BY <1>4
<1>6. PICK c : c = k
  OBVIOUS
<1>7. stage \in SearchStages /\ stage' \in SearchStages
  BY <1>1 DEF SearchStages
<1>8. current' = c /\ c \in DOMAIN station_routes /\ Searching(rs, c, cs)
  BY <1>1, <1>3, <1>5, <1>6
<1> HIDE DEF irs, k, ir, sr
<1> QED BY <1>1, <1>2, <1>5, <1>7, <1>8, SearchStep

\* finish_station_route.
LEMMA FinishKeepsInv ==
  ASSUME RouteInv, finish_station_route
  PROVE  RouteInv'
<1> DEFINE irs == interlocking.routes
           k == current
           all == ((irs \o get_internal_interlocking_route(k))
                        \o get_leading_interlocking_route(k))
                     \o get_trailing_interlocking_route(k)
<1>1. /\ stage = "fill_paths" /\ calls = <<>>
      /\ interlocking' = [interlocking EXCEPT !.routes = all]
      /\ \/ k = Len(station_routes) /\ stage' = "mappings" /\ current' = k
         \/ k # Len(station_routes) /\ stage' = "interlocking" /\ current' = k + 1
      /\ UNCHANGED <<graph_vars, route_vars, calls>>
  BY DEF finish_station_route
<1>2. NetworkKept
  BY <1>1 DEF NetworkKept, graph_vars, route_vars
<1>3. /\ Typed /\ k \in DOMAIN station_routes /\ Searching(irs, k, <<>>)
      /\ Len(station_routes) \in Nat /\ DOMAIN station_routes = 1..Len(station_routes)
      /\ "routes" \in DOMAIN interlocking
  BY <1>1 DEF RouteInv, SearchOK, SearchStages, Typed, RoutesTyped
<1>4. Ready(all, k + 1)
  BY <1>3, FinishSearch
<1> HIDE DEF all, irs
<1>5. PICK rs, j : rs = all /\ j = k + 1
  OBVIOUS
<1>6. /\ stage \in SearchStages /\ stage' \in SearchStages
  BY <1>1 DEF SearchStages
<1>7. /\ k \in Nat /\ j \in Nat /\ Ready(rs, j) /\ stage' # "fill_paths"
      /\ "routes" \in DOMAIN interlocking' /\ interlocking'.routes = rs
  BY <1>1, <1>3, <1>4, <1>5
<1>8. CASE k = Len(station_routes)
  <2>1. stage' = "mappings" /\ current' = k
    BY <1>1, <1>8
  <2>2. Ready(rs, Len(station_routes) + 1)
    BY <1>5, <1>7, <1>8
  <2>3. PICK c, cs : current' = c /\ calls' = cs
    OBVIOUS
  <2> HIDE DEF k
  <2> QED BY <1>2, <1>6, <1>7, <2>1, <2>2, <2>3, SearchStep
<1>9. CASE k # Len(station_routes)
  <2>1. stage' = "interlocking" /\ current' = j
    BY <1>1, <1>5, <1>9
  <2>2. j \in DOMAIN station_routes
    BY <1>3, <1>5, <1>9
  <2>3. PICK cs : calls' = cs
    OBVIOUS
  <2> HIDE DEF k
  <2> QED BY <1>2, <1>6, <1>7, <2>1, <2>2, <2>3, SearchStep
<1> QED BY <1>8, <1>9

\* A step to a stage behind the search.
LEMMA LaterStages ==
  ASSUME RouteInv, network' = network, stage' \notin EarlyStages \cup SearchStages
  PROVE  RouteInv'
<1>1. (network \in Networks /\ stage \notin EarlyStages \cup SearchStages)'
  BY DEF RouteInv, EarlyStages, SearchStages
<1> QED BY <1>1, SearchIsOver, PTL

\* All steps up to the mappings.
LEMMA InterlockingKeepsInv ==
  ASSUME RouteInv, InterlockingNext
  PROVE  RouteInv'
<1>1. CASE GraphNext /\ UNCHANGED <<route_vars, ir_vars>>
  BY <1>1, GraphKeepsInv
<1>2. CASE calculate_station_routes /\ UNCHANGED ir_vars
  BY <1>2, CalculateKeepsInv
<1>3. CASE get_station_route_graph /\ UNCHANGED ir_vars
  BY <1>3, GetGraphKeepsInv
<1>4. CASE get_interlocking
  BY <1>4, LaterStages DEF get_interlocking, graph_vars, EarlyStages, SearchStages
<1> QED BY <1>1, <1>2, <1>3, <1>4, StartKeepsInv, FillPathsKeepsInv, FinishKeepsInv
        DEF InterlockingNext, RoutesNext

\* Steps that change nothing of the infrastructure.
LEMMA RoutesUnchanged ==
  ASSUME RouteInv, UNCHANGED infrastructure_vars
  PROVE  RouteInv'
<1>1. /\ NetworkKept /\ network' = network /\ stage' = stage /\ interlocking' = interlocking
      /\ current' = current /\ calls' = calls /\ station_routes' = station_routes
  BY DEF infrastructure_vars, graph_vars, route_vars, ir_vars, NetworkKept
<1>2. (Typed' <=> Typed) /\ (RoutesTyped' <=> RoutesTyped)
  BY <1>1, SameRoutes DEF RoutesTyped, size
<1>3. ASSUME NEW irs, NEW k, NEW cs, NEW n
      PROVE  SearchOK(irs, k, cs, n)' <=> SearchOK(irs, k, cs, n)
  BY <1>1, SameRoutes DEF SearchOK
<1> QED BY <1>1, <1>2, <1>3 DEF RouteInv

\* All steps.
LEMMA RouteStep ==
  ASSUME RouteInv, [TimetableNext \/ Parsed]_vars
  PROVE  RouteInv'
<1> DEFINE Later == network' = network /\ stage' \notin EarlyStages \cup SearchStages
<1>1. CASE InterlockingNext
  BY <1>1, InterlockingKeepsInv
<1>2. CASE start_threads
  BY <1>2, LaterStages DEF start_threads, graph_vars, EarlyStages, SearchStages
<1>3. ASSUME NEW t \in Threads, generate_used_by(t) PROVE RouteInv'
  BY <1>3, LaterStages DEF generate_used_by, graph_vars, EarlyStages, SearchStages
<1>4. CASE combine_thread_results
  BY <1>4, LaterStages DEF combine_thread_results, graph_vars, EarlyStages, SearchStages
<1>5. CASE get_exclusion_graph
  BY <1>5, LaterStages DEF get_exclusion_graph, graph_vars, EarlyStages, SearchStages
<1>6. CASE read_exclusion_sets
  BY <1>6, LaterStages DEF read_exclusion_sets, graph_vars, EarlyStages, SearchStages
<1>7. CASE Complete
  BY <1>7, RoutesUnchanged DEF Complete
<1>8. CASE open_directory
  <2>1. network' = network /\ stage' \in {"parsed", "work"}
    BY <1>8 DEF open_directory, reject, graph_vars
  <2> QED BY <2>1, LaterStages DEF EarlyStages, SearchStages
<1>9. ASSUME NEW p \in Parsers,
             take_item(p) \/ parse_train(p) \/ crash(p) \/ finish_item(p)
      PROVE  RouteInv'
  <2>1. network' = network /\ stage' \in {"crashed", "work"}
    <3>1. take_item(p) => network' = network /\ stage' = "work"
      BY DEF take_item, infra_vars, graph_vars
    <3>2. parse_train(p) => network' = network /\ stage' = "work"
      BY DEF parse_train, infra_vars, graph_vars
    <3>3. crash(p) => network' = network /\ stage' = "crashed"
      BY DEF crash, infra_vars, graph_vars
    <3>4. finish_item(p) => network' = network /\ stage' = "work"
      BY DEF finish_item, infra_vars, graph_vars
    <3> QED BY <1>9, <3>1, <3>2, <3>3, <3>4
  <2> QED BY <2>1, LaterStages DEF EarlyStages, SearchStages
<1>10. CASE finish_timetable
  BY <1>10, LaterStages DEF finish_timetable, infra_vars, graph_vars, EarlyStages, SearchStages
<1>11. CASE UNCHANGED vars
  BY <1>11, RoutesUnchanged DEF vars
<1> QED BY <1>1, <1>2, <1>3, <1>4, <1>5, <1>6, <1>7, <1>8, <1>9, <1>10, <1>11
        DEF TimetableNext, ExclusionNext, Parsed

LEMMA RouteInit ==
  ASSUME TimetableInit
  PROVE  RouteInv
<1>1. network \in Networks /\ stage = "sections"
  BY DEF TimetableInit, ExclusionInit, InterlockingInit, RoutesInit, GraphInit
<1>2. interlocking.routes = <<>> /\ "routes" \in DOMAIN interlocking /\ current = 1
  BY DEF TimetableInit, ExclusionInit, InterlockingInit
<1> QED BY <1>1, <1>2 DEF RouteInv, SearchOK, SearchStages

\* What the invariant says when the search is over.
LEMMA AllAreFound ==
  ASSUME RouteInv, stage = "mappings"
  PROVE  /\ AllRight(interlocking.routes)
         /\ DOMAIN interlocking.routes = 1..Len(interlocking.routes)
         /\ \A ir : IsInterlockingRoute(ir) <=> ir \in Range(interlocking.routes)
<1> DEFINE irs == interlocking.routes
           n == Len(station_routes)
<1>1. Typed /\ Ready(irs, n + 1) /\ n \in Nat
  BY DEF RouteInv, SearchOK, SearchStages, Typed, RoutesTyped
<1> HIDE DEF irs
<1>2. AllRight(irs) /\ DOMAIN irs = 1..Len(irs)
  BY <1>1, LenProperties DEF Ready, AllRight
<1>3. ASSUME NEW ir, IsInterlockingRoute(ir) PROVE ir \in Range(irs)
  <2>1. ir.station_routes[1] \in 1..n
    BY <1>1, <1>3, RouteTyped
  <2>2. ir.station_routes[1] < n + 1
    BY <1>1, <2>1
  <2>3. Found(irs, ir)
    BY <1>1, <1>3, <2>2 DEF Ready, AllBefore
  <2> QED BY <1>2, <2>3 DEF Found, Range
<1>4. ASSUME NEW ir \in Range(irs) PROVE IsInterlockingRoute(ir)
  BY <1>2, <1>4 DEF AllRight, Range
<1> QED BY <1>2, <1>3, <1>4 DEF irs

LEMMA ExpectedAreRight ==
  \A ir \in ExpectedRoutes : IsInterlockingRoute(ir)
  BY DEF ExpectedRoutes

(***************************************************************************)
(* When the mappings are filled, the interlocking routes are, for any rail *)
(* plan, such as lead from one stop to the next and nothing else, with     *)
(* every such route over up to four station routes among them, and none of *)
(* them is there twice but the signal that is all of a station route       *)
(* (get_interlocking.cc:164 and :245).                                     *)
(***************************************************************************)
THEOREM RoutesBetweenSignals == TimetableSpec => []RoutesFromSignalToSignal
<1>1. ASSUME RouteInv PROVE RoutesFromSignalToSignal
  <2> SUFFICES ASSUME stage = "mappings" PROVE RoutesFromSignalToSignal
    BY DEF RoutesFromSignalToSignal
  <2> QED BY <1>1, AllAreFound, ExpectedAreRight DEF RoutesFromSignalToSignal, AllRight
<1> QED BY <1>1, RouteInit, RouteStep, PTL DEF TimetableSpec

(***************************************************************************)
(* The same without the bound on the length: a route is found if and only  *)
(* if it leads from one stop to the next, over however many station routes *)
(* (the recursion of fill_paths, get_interlocking.cc:190).                 *)
(***************************************************************************)
THEOREM EveryRouteIsFound ==
  TimetableSpec =>
    [](stage = "mappings" =>
         \A ir : IsInterlockingRoute(ir) <=> ir \in Range(interlocking.routes))
<1>1. ASSUME RouteInv
      PROVE  stage = "mappings" =>
               \A ir : IsInterlockingRoute(ir) <=> ir \in Range(interlocking.routes)
  BY <1>1, AllAreFound
<1> QED BY <1>1, RouteInit, RouteStep, PTL DEF TimetableSpec

-----------------------------------------------------------------------------
(***************************************************************************)
(* The graph: an element keeps its type and its id, whatever is parsed     *)
(* afterwards, so that what the rail plan calls a switch is one.           *)
(***************************************************************************)
\* The fields of an element.
Fields == {"type", "rising", "line", "km", "neighbours", "arcs", "sections"}

\* The shape of the graph made so far.
HasShape(g) ==
  /\ {"elements", "sections", "borders", "id_of"} \subseteq DOMAIN g
  /\ \E S : g.elements \in Seq(S)
  /\ \E S : g.borders \in Seq(S)
  /\ \A id \in DOMAIN g.elements : Fields \subseteq DOMAIN g.elements[id]

\* Elements have the types of the rail plan, and only crosses have arcs.
TypesRight(g) ==
  /\ DOMAIN g.id_of = DOMAIN network.type
  /\ \A rp \in DOMAIN g.id_of :
       g.id_of[rp] # Null =>
         /\ g.id_of[rp] \in DOMAIN g.elements
         /\ g.elements[g.id_of[rp]].type = network.type[rp]
  /\ \A id \in DOMAIN g.elements :
       g.elements[id].arcs # {} => g.elements[id].type = "CROSS"

\* What holds of the graph in every stage.
GraphRight(g) == HasShape(g) /\ TypesRight(g)

\* What the ids and the types need of a graph.
SameTypes(g, h) ==
  /\ h.id_of = g.id_of
  /\ DOMAIN h.elements = DOMAIN g.elements
  /\ \A id \in DOMAIN g.elements :
       /\ h.elements[id].type = g.elements[id].type
       /\ h.elements[id].arcs = g.elements[id].arcs
       /\ DOMAIN h.elements[id] = DOMAIN g.elements[id]

\* A change that keeps ids and types keeps the graph right.
LEMMA SameTypesRight ==
  ASSUME NEW g, GraphRight(g), NEW h, SameTypes(g, h),
         {"elements", "sections", "borders", "id_of"} \subseteq DOMAIN h,
         \E S : h.elements \in Seq(S), \E S : h.borders \in Seq(S)
  PROVE  GraphRight(h)
<1>1. HasShape(h)
  BY DEF GraphRight, HasShape, SameTypes
<1>2. TypesRight(h)
  BY DEF GraphRight, TypesRight, SameTypes
<1> QED BY <1>1, <1>2 DEF GraphRight

\* A new element.
LEMMA NewElementRight ==
  ASSUME NEW g, GraphRight(g), NEW type, NEW up
  PROVE  LET h == create_element_t(g, type, up)
             new == Len(g.elements) + 1
         IN  /\ GraphRight(h) /\ h.id_of = g.id_of
             /\ new \in DOMAIN h.elements /\ new # Null
             /\ h.elements[new].type = type
<1> DEFINE e == [type       |-> type,
                 rising     |-> [p \in Ports(type) |-> p = Main(type) /\ up],
                 line       |-> [p \in Ports(type) |-> NoLine],
                 km         |-> [p \in Ports(type) |-> 0],
                 neighbours |-> [s \in Ports(type) \X BOOLEAN |-> Null],
                 arcs       |-> {},
                 sections   |-> <<>>]
           new == Len(g.elements) + 1
           h == create_element_t(g, type, up)
<1>1. e.type = type /\ e.arcs = {} /\ Fields \subseteq DOMAIN e
  BY DEF Fields
<1>2. h = [g EXCEPT !.elements = Append(@, e)]
  BY DEF create_element_t
<1> HIDE DEF e, h
<1>3. /\ {"elements", "sections", "borders", "id_of"} \subseteq DOMAIN g
      /\ \E S : g.elements \in Seq(S)
      /\ \E S : g.borders \in Seq(S)
  BY DEF GraphRight, HasShape
<1> DEFINE es == Append(g.elements, e)
<1>4. /\ \E S : es \in Seq(S)
      /\ DOMAIN es = DOMAIN g.elements \cup {new}
      /\ new \notin DOMAIN g.elements /\ new # 0
      /\ es[new] = e
      /\ \A k \in DOMAIN g.elements : es[k] = g.elements[k]
  BY <1>3, AppendedIsSequence
<1>5. /\ {"elements", "sections", "borders", "id_of"} \subseteq DOMAIN h
      /\ h.elements = es /\ h.borders = g.borders /\ h.id_of = g.id_of
  BY <1>2, <1>3
<1> HIDE DEF es, new
<1>6. \A id \in DOMAIN es : Fields \subseteq DOMAIN es[id]
  BY <1>1, <1>4 DEF GraphRight, HasShape
<1>7. HasShape(h)
  BY <1>3, <1>4, <1>5, <1>6 DEF HasShape
<1>8. \A id \in DOMAIN es : es[id].arcs # {} => es[id].type = "CROSS"
  BY <1>1, <1>4 DEF GraphRight, TypesRight
<1>9. TypesRight(h)
  BY <1>4, <1>5, <1>8 DEF GraphRight, TypesRight
<1> QED BY <1>1, <1>4, <1>5, <1>7, <1>9 DEF GraphRight, h, new, Null

\* Nor does one that is named by the rail plan, which then has an id.
LEMMA NamedElementRight ==
  ASSUME NEW g, GraphRight(g), NEW type, NEW up, NEW rp,
         rp \in DOMAIN network.type => type = network.type[rp]
  PROVE  /\ GraphRight(create_element(g, rp, type, up))
         /\ rp \in DOMAIN network.type => create_element(g, rp, type, up).id_of[rp] # Null
<1> DEFINE new == Len(g.elements) + 1
           h == create_element_t(g, type, up)
           i == create_element(g, rp, type, up)
<1>1. /\ GraphRight(h) /\ h.id_of = g.id_of
      /\ new \in DOMAIN h.elements /\ new # Null
      /\ h.elements[new].type = type
  BY NewElementRight
<1>2. i = [h EXCEPT !.id_of[rp] = new]
  BY DEF create_element
<1> HIDE DEF h, i, new
<1>3. /\ {"elements", "sections", "borders", "id_of"} \subseteq DOMAIN i
      /\ i.elements = h.elements /\ i.borders = h.borders
      /\ i.id_of = [h.id_of EXCEPT ![rp] = new]
  BY <1>1, <1>2 DEF GraphRight, HasShape
<1>4. HasShape(i)
  BY <1>1, <1>3 DEF GraphRight, HasShape
<1>5. DOMAIN i.id_of = DOMAIN network.type
  BY <1>1, <1>3 DEF GraphRight, TypesRight
<1>6. ASSUME NEW q \in DOMAIN i.id_of, i.id_of[q] # Null
      PROVE  i.id_of[q] \in DOMAIN i.elements /\ i.elements[i.id_of[q]].type = network.type[q]
  <2>1. CASE q = rp
    BY <2>1, <1>1, <1>3, <1>5
  <2>2. CASE q # rp
    BY <2>2, <1>1, <1>3, <1>5, <1>6 DEF GraphRight, TypesRight
  <2> QED BY <2>1, <2>2
<1>7. TypesRight(i)
  BY <1>1, <1>3, <1>5, <1>6 DEF GraphRight, TypesRight
<1>8. rp \in DOMAIN network.type => i.id_of[rp] # Null
  BY <1>1, <1>3, <1>5
<1> QED BY <1>4, <1>7, <1>8 DEF GraphRight, i

\* Afterwards the end of a section has an id.
LEMMA GetOrCreateRight ==
  ASSUME NEW g, GraphRight(g), NEW rp \in DOMAIN network.type
  PROVE  LET h == get_or_create_element(g, rp, network.type[rp])
         IN  GraphRight(h) /\ h.id_of[rp] # Null
<1> DEFINE h == create_element(g, rp, network.type[rp], FALSE)
<1>1. GraphRight(h) /\ h.id_of[rp] # Null
  BY NamedElementRight
<1> QED BY <1>1 DEF get_or_create_element

\* Kilometre points, lines and neighbours do not touch the types.
LEMMA DescribedRight ==
  ASSUME NEW g, GraphRight(g), NEW id, NEW port, NEW x, NEW y
  PROVE  /\ GraphRight(set_km_point_and_line(g, id, port, x, y))
         /\ SameTypes(g, set_km_point_and_line(g, id, port, x, y))
         /\ GraphRight(set_neighbour(g, id, port, x, y))
<1> DEFINE e  == g.elements[id]
           at == IF e.type \in {"BORDER"} \cup UndirectedTypes
                 THEN Ports(e.type) ELSE {port}
           f  == [e EXCEPT !.km = [p \in at |-> x] @@ @, !.line = [p \in at |-> y] @@ @]
           n  == [e EXCEPT !.neighbours[neighbour_slot(e, port, y)] = x]
           h  == set_km_point_and_line(g, id, port, x, y)
           i  == set_neighbour(g, id, port, x, y)
<1>1. /\ {"elements", "sections", "borders", "id_of"} \subseteq DOMAIN g
      /\ \E S : g.elements \in Seq(S)
      /\ \E S : g.borders \in Seq(S)
      /\ \A k \in DOMAIN g.elements : Fields \subseteq DOMAIN g.elements[k]
  BY DEF GraphRight, HasShape
<1>2. id \in DOMAIN g.elements =>
        /\ f.type = e.type /\ f.arcs = e.arcs /\ DOMAIN f = DOMAIN e
        /\ n.type = e.type /\ n.arcs = e.arcs /\ DOMAIN n = DOMAIN e
  BY <1>1 DEF Fields
<1>3. h.elements = [g.elements EXCEPT ![id] = f]
  BY <1>1 DEF set_km_point_and_line
<1>4. i.elements = [g.elements EXCEPT ![id] = n]
  BY <1>1 DEF set_neighbour
<1>5. /\ {"elements", "sections", "borders", "id_of"} \subseteq DOMAIN h
      /\ h.borders = g.borders /\ h.id_of = g.id_of
  BY <1>1 DEF set_km_point_and_line
<1>6. /\ {"elements", "sections", "borders", "id_of"} \subseteq DOMAIN i
      /\ i.borders = g.borders /\ i.id_of = g.id_of
  BY <1>1 DEF set_neighbour
<1> HIDE DEF f, n, h, i
<1>7. SameTypes(g, h) /\ SameTypes(g, i)
  BY <1>2, <1>3, <1>4, <1>5, <1>6 DEF SameTypes
<1>8. (\E S : h.elements \in Seq(S)) /\ (\E S : i.elements \in Seq(S))
  <2> HIDE DEF e, at
  <2>1. \E S : [g.elements EXCEPT ![id] = f] \in Seq(S)
    BY ONLY <1>1, ReplacedIsSequence
  <2>2. \E S : [g.elements EXCEPT ![id] = n] \in Seq(S)
    BY ONLY <1>1, ReplacedIsSequence
  <2> QED BY <2>1, <2>2, <1>3, <1>4
<1>9. GraphRight(h)
  BY ONLY GraphRight(g), <1>1, <1>5, <1>7, <1>8, SameTypesRight
<1>10. GraphRight(i)
  BY ONLY GraphRight(g), <1>1, <1>6, <1>7, <1>8, SameTypesRight
<1> QED BY <1>7, <1>9, <1>10 DEF h, i

\* The end of a section of the rail plan.
LEMMA DescribeEndRight ==
  ASSUME NEW g, GraphRight(g), NEW i, NEW s, NEW end, NEW is_start,
         NEW id, id = g.id_of[end.rp], id # Null,
         end.rp \in DOMAIN network.type, end.port \in Ports(network.type[end.rp])
  PROVE  GraphRight(describe_end(g, id, i, s, end, is_start))
<1> DEFINE k == set_km_point_and_line(g, id, end.port, end.km, s.line)
           e == k.elements[id]
           b == [element   |-> id,
                 station   |-> s.station,
                 neighbour |-> network.beyond[end.rp],
                 line      |-> s.line,
                 low       |-> is_start,
                 partner   |-> Null]
           arcs == {a \in ArcAt(end.port) : <<end.rp, a>> \in network.arcs}
           f == [e EXCEPT !.rising[end.port] =
                            IF g.elements[id].type = "KM_JUMP" /\ end.port = "end"
                            THEN @ ELSE ~is_start,
                          !.arcs = @ \cup arcs,
                          !.sections = Append(@, i)]
           h == describe_end(g, id, i, s, end, is_start)
<1>1. GraphRight(k) /\ SameTypes(g, k)
  BY DescribedRight
<1> HIDE DEF k
<1>2. /\ {"elements", "sections", "borders", "id_of"} \subseteq DOMAIN k
      /\ \E S : k.elements \in Seq(S)
      /\ \E S : k.borders \in Seq(S)
      /\ \A j \in DOMAIN k.elements : Fields \subseteq DOMAIN k.elements[j]
  BY <1>1 DEF GraphRight, HasShape
<1>3. id \in DOMAIN k.elements /\ e.type = network.type[end.rp]
  BY <1>1 DEF GraphRight, TypesRight, SameTypes
<1>4. f.type = e.type /\ f.arcs = e.arcs \cup arcs /\ DOMAIN f = DOMAIN e
  BY <1>2, <1>3 DEF Fields
<1>5. /\ {"elements", "sections", "borders", "id_of"} \subseteq DOMAIN h
      /\ h.elements = [k.elements EXCEPT ![id] = f] /\ h.id_of = k.id_of
      /\ h.borders = IF g.elements[id].type # "BORDER" THEN k.borders
                     ELSE Append(k.borders, b)
  BY <1>2 DEF describe_end, k
<1> HIDE DEF f, h, b
<1>6. \E S : h.borders \in Seq(S)
  <2>1. \E S : Append(k.borders, b) \in Seq(S)
    BY ONLY <1>2, AppendedIsSequence
  <2> QED BY <1>2, <1>5, <2>1
<1>7. \E S : h.elements \in Seq(S)
  <2>1. \E S : [k.elements EXCEPT ![id] = f] \in Seq(S)
    BY ONLY <1>2, ReplacedIsSequence
  <2> QED BY <1>5, <2>1
<1>8. HasShape(h)
  BY <1>2, <1>3, <1>4, <1>5, <1>6, <1>7 DEF HasShape
<1>9. arcs # {} => e.type = "CROSS"
  <2>1. arcs # {} => end.port \in {"start_left", "end_left"}
    BY DEF ArcAt
  <2>2. \A type : {"start_left", "end_left"} \cap Ports(type) # {} => type = "CROSS"
    BY DEF Ports
  <2> QED BY <2>1, <2>2, <1>3
<1> HIDE DEF arcs
<1>10. TypesRight(h)
  <2>1. /\ DOMAIN h.elements = DOMAIN k.elements
        /\ \A j \in DOMAIN k.elements : h.elements[j].type = k.elements[j].type
    BY <1>3, <1>4, <1>5
  <2>2. \A j \in DOMAIN h.elements :
          h.elements[j].arcs # {} => h.elements[j].type = "CROSS"
    BY <2>1, <1>1, <1>3, <1>4, <1>5, <1>9 DEF GraphRight, TypesRight
  <2> QED BY <2>1, <2>2, <1>1, <1>5 DEF GraphRight, TypesRight
<1> QED BY <1>8, <1>10 DEF GraphRight, h

\* An end of a section is put into the graph (emplace_into_network).
LEMMA EmplaceRight ==
  ASSUME NEW g, GraphRight(g), NEW i, NEW s, NEW end, NEW is_start,
         end.rp \in DOMAIN network.type, end.port \in Ports(network.type[end.rp])
  PROVE  GraphRight(emplace_into_network(g, i, s, end, is_start))
<1> DEFINE h == get_or_create_element(g, end.rp, network.type[end.rp])
<1>1. GraphRight(h) /\ h.id_of[end.rp] # Null
  BY GetOrCreateRight
<1> HIDE DEF h
<1>2. GraphRight(describe_end(h, h.id_of[end.rp], i, s, end, is_start))
  BY <1>1, DescribeEndRight
<1> QED BY <1>2 DEF emplace_into_network, h

\* What an element is next to, and the sections it is in.
LEMMA FieldReplacedRight ==
  ASSUME NEW g, GraphRight(g), NEW id, NEW v
  PROVE  /\ GraphRight([g EXCEPT !.elements[id].sections = v])
         /\ GraphRight([g EXCEPT !.elements[id].neighbours = v])
<1> DEFINE e == g.elements[id]
           f == [e EXCEPT !.sections = v]
           n == [e EXCEPT !.neighbours = v]
           h == [g EXCEPT !.elements[id].sections = v]
           i == [g EXCEPT !.elements[id].neighbours = v]
<1>1. /\ {"elements", "sections", "borders", "id_of"} \subseteq DOMAIN g
      /\ \E S : g.elements \in Seq(S)
      /\ \E S : g.borders \in Seq(S)
      /\ \A k \in DOMAIN g.elements : Fields \subseteq DOMAIN g.elements[k]
  BY DEF GraphRight, HasShape
<1>2. id \in DOMAIN g.elements =>
        /\ f.type = e.type /\ f.arcs = e.arcs /\ DOMAIN f = DOMAIN e
        /\ n.type = e.type /\ n.arcs = e.arcs /\ DOMAIN n = DOMAIN e
  BY <1>1 DEF Fields
<1>3. h.elements = [g.elements EXCEPT ![id] = f] /\ i.elements = [g.elements EXCEPT ![id] = n]
  BY <1>1
<1>5. /\ {"elements", "sections", "borders", "id_of"} \subseteq DOMAIN h
      /\ h.borders = g.borders /\ h.id_of = g.id_of
      /\ {"elements", "sections", "borders", "id_of"} \subseteq DOMAIN i
      /\ i.borders = g.borders /\ i.id_of = g.id_of
  BY <1>1
<1> HIDE DEF f, n, h, i, e
<1>7. SameTypes(g, h) /\ SameTypes(g, i)
  BY <1>2, <1>3, <1>5 DEF SameTypes, e
<1>8. (\E S : h.elements \in Seq(S)) /\ (\E S : i.elements \in Seq(S))
  <2>1. \E S : [g.elements EXCEPT ![id] = f] \in Seq(S)
    BY ONLY <1>1, ReplacedIsSequence
  <2>2. \E S : [g.elements EXCEPT ![id] = n] \in Seq(S)
    BY ONLY <1>1, ReplacedIsSequence
  <2> QED BY <2>1, <2>2, <1>3
<1>9. GraphRight(h)
  BY ONLY GraphRight(g), <1>1, <1>5, <1>7, <1>8, SameTypesRight
<1>10. GraphRight(i)
  BY ONLY GraphRight(g), <1>1, <1>5, <1>7, <1>8, SameTypesRight
<1> QED BY <1>9, <1>10 DEF h, i

\* A track element is made and described.
LEMMA ParseTrackElementRight ==
  ASSUME NEW g, GraphRight(g), NEW i, NEW s, NEW rp
  PROVE  GraphRight(parse_track_element(g, i, s, rp))
<1> DEFINE g1 == create_element(g, rp, network.type[rp], network.rising[rp])
           id == g1.id_of[rp]
           g2 == set_km_point_and_line(g1, id, "track", network.km[rp], s.line)
<1>1. GraphRight(g1)
  BY NamedElementRight
<1> HIDE DEF g1
<1>2. GraphRight(g2)
  BY <1>1, DescribedRight
<1> HIDE DEF g2
<1>3. GraphRight([g2 EXCEPT !.elements[id].sections = <<i>>])
  BY <1>2, FieldReplacedRight
<1> QED BY <1>3 DEF parse_track_element, g1, g2

\* And connected to the one before it.
LEMMA CreateTrackElementRight ==
  ASSUME NEW scan, GraphRight(scan.g), NEW i, NEW s, NEW rp, NEW dir
  PROVE  GraphRight(create_track_element(scan, i, s, rp, dir).g)
<1> DEFINE g0 == IF scan.g.id_of[rp] = Null
                 THEN parse_track_element(scan.g, i, s, rp) ELSE scan.g
           id == g0.id_of[rp]
           g1 == set_neighbour(g0, scan.prev, scan.port, id,
                               dir \/ is_track_element(g0.elements[scan.prev]))
           g2 == set_neighbour(g1, id, "track", scan.prev, FALSE)
<1>1. GraphRight(g0)
  BY ParseTrackElementRight
<1> HIDE DEF g0
<1>2. GraphRight(g1)
  BY <1>1, DescribedRight
<1> HIDE DEF g1
<1>3. GraphRight(g2)
  BY <1>2, DescribedRight
<1>4. create_track_element(scan, i, s, rp, dir).g = g2
  BY DEF create_track_element, g0, g1
<1> QED BY <1>3, <1>4

-----------------------------------------------------------------------------
(***************************************************************************)
(* The scan of a section, track element by track element, never harms what *)
(* is there.                                                               *)
(***************************************************************************)
\* f is the scan of a section, track element by track element.
Scans(f, n, first, i, s, met, dir) ==
  /\ f = [k \in 0..n |-> f[k]] /\ f[0] = first
  /\ \A k \in 1..n : f[k] = create_track_element(f[k - 1], i, s, met[k], dir)

\* There is a scan of any length: the model names it by CHOOSE.
LEMMA ScanExists ==
  ASSUME NEW n \in Nat, NEW first, NEW i, NEW s, NEW met, NEW dir
  PROVE  \E f : Scans(f, n, first, i, s, met, dir)
<1> DEFINE T == {k \in Nat : \E f : Scans(f, k, first, i, s, met, dir)}
           step(x, k) == create_track_element(x, i, s, met[k], dir)
<1>1. 0 \in T
  <2> DEFINE f == [k \in 0..0 |-> first]
  <2>1. Scans(f, 0, first, i, s, met, dir)
    BY DEF Scans
  <2> QED BY <2>1
<1>2. ASSUME NEW k \in T PROVE k + 1 \in T
  <2>1. PICK f : Scans(f, k, first, i, s, met, dir)
    OBVIOUS
  <2> DEFINE g == [j \in 0..(k + 1) |-> IF j = k + 1 THEN step(f[k], k + 1) ELSE f[j]]
  <2>2. k \in Nat
    OBVIOUS
  <2> HIDE DEF step
  <2>3. g = [j \in 0..(k + 1) |-> g[j]] /\ g[0] = first
    BY <2>1, <2>2 DEF Scans
  <2>4. ASSUME NEW j \in 1..(k + 1) PROVE g[j] = step(g[j - 1], j)
    <3>1. CASE j = k + 1
      <4>1. g[k + 1] = step(f[k], k + 1) /\ g[k] = f[k]
        BY <2>2
      <4> QED BY <3>1, <4>1, <2>2
    <3>2. CASE j # k + 1
      <4>1. j \in 1..k /\ g[j] = f[j] /\ g[j - 1] = f[j - 1]
        BY <2>2, <3>2
      <4> QED BY <4>1, <2>1 DEF Scans, step
    <3> QED BY <3>1, <3>2
  <2>5. Scans(g, k + 1, first, i, s, met, dir)
    <3> HIDE DEF g
    <3> QED BY <2>3, <2>4 DEF Scans, step
  <2> QED BY <2>2, <2>5
<1>3. T = Nat
  <2> HIDE DEF T
  <2>1. T \subseteq Nat
    BY DEF T
  <2> QED BY <1>1, <1>2, <2>1, AllNaturals
<1> QED BY <1>3

\* No step of a scan harms the graph.
LEMMA ScanRight ==
  ASSUME NEW n \in Nat, NEW first, GraphRight(first.g), NEW i, NEW s, NEW met, NEW dir,
         NEW f, Scans(f, n, first, i, s, met, dir)
  PROVE  GraphRight(f[n].g)
<1> DEFINE T == {k \in Nat : k <= n => GraphRight(f[k].g)}
<1>1. 0 \in T
  BY DEF Scans
<1>2. ASSUME NEW k \in Nat, k \in T PROVE k + 1 \in T
  <2> SUFFICES ASSUME k + 1 <= n PROVE GraphRight(f[k + 1].g)
    OBVIOUS
  <2>1. GraphRight(f[k].g)
    BY <1>2
  <2>2. k + 1 \in 1..n /\ (k + 1) - 1 = k
    OBVIOUS
  <2>3. f[k + 1] = create_track_element(f[k], i, s, met[k + 1], dir)
    BY <2>2 DEF Scans
  <2> QED BY <2>1, <2>3, CreateTrackElementRight
<1>3. n \in T
  <2> HIDE DEF T
  <2> QED BY <1>1, <1>2, AllNaturals
<1> QED BY <1>3

\* A section is scanned in one direction (insert_in_direction).
LEMMA InsertInDirectionRight ==
  ASSUME NEW g, GraphRight(g), NEW i, NEW s, IsFiniteSet(s.track),
         NEW start, NEW port, NEW dir
  PROVE  GraphRight(insert_in_direction(g, i, s, start, port, dir).g)
<1> DEFINE S == {rp \in s.track : \/ network.type[rp] \in UndirectedTypes
                                  \/ network.rising[rp] = dir}
           met == element_order_from_nodes(S, dir)
           n == Len(met)
           first == [g |-> g, prev |-> start, port |-> port]
           R(f) == f = [k \in 0..n |->
                          IF k = 0 THEN [g |-> g, prev |-> start, port |-> port]
                          ELSE create_track_element(f[k - 1], i, s, met[k], dir)]
           scan == CHOOSE f : R(f)
<1>1. insert_in_direction(g, i, s, start, port, dir) = scan[n]
  BY DEF insert_in_direction
<1>2. n \in Nat
  <2>1. IsFiniteSet(S)
    BY FS_Subset
  <2>2. Cardinality(S) \in Nat
    BY <2>1, FS_CardinalityType
  <2> HIDE DEF S
  <2> QED BY <2>2 DEF element_order_from_nodes, Sorted
<1> HIDE DEF met, n
<1>3. PICK h : Scans(h, n, first, i, s, met, dir)
  BY <1>2, ScanExists
<1>4. R(h)
  <2> DEFINE b == [k \in 0..n |-> IF k = 0 THEN first
                                  ELSE create_track_element(h[k - 1], i, s, met[k], dir)]
  <2>1. ASSUME NEW k \in 0..n PROVE h[k] = b[k]
    <3>1. k = 0 \/ k \in 1..n
      BY <1>2
    <3>2. k \in 1..n => k # 0
      BY <1>2
    <3>4. k \in 1..n => h[k] = create_track_element(h[k - 1], i, s, met[k], dir)
      BY <1>3 DEF Scans
    <3>3. h[0] = first
      BY <1>3 DEF Scans
    <3> HIDE DEF first
    <3> QED BY <3>1, <3>2, <3>3, <3>4
  <2>2. h = [k \in 0..n |-> h[k]]
    BY <1>3 DEF Scans
  <2>3. h = b
    <3> HIDE DEF b, first
    <3>1. b = [k \in 0..n |-> b[k]]
      BY DEF b
    <3>2. [k \in 0..n |-> h[k]] = [k \in 0..n |-> b[k]]
      BY <2>1
    <3> QED BY ONLY <2>2, <3>1, <3>2
  <2> QED BY <2>3
<1>5. R(scan)
  <2> HIDE DEF R
  <2> QED BY <1>4
<1>6. Scans(scan, n, first, i, s, met, dir)
  <2> HIDE DEF scan
  <2>1. scan = [k \in 0..n |-> scan[k]]
    BY <1>5
  <2>2. scan[0] = first
    BY <1>2, <1>5
  <2>3. ASSUME NEW k \in 1..n
        PROVE  scan[k] = create_track_element(scan[k - 1], i, s, met[k], dir)
    BY <1>2, <1>5
  <2> QED BY <2>1, <2>2, <2>3 DEF Scans
<1> HIDE DEF scan
<1>7. GraphRight(scan[n].g)
  BY <1>2, <1>6, ScanRight
<1> QED BY <1>1, <1>7

\* A section with nothing in between gets an element of its own.
LEMMA InsertMetaRight ==
  ASSUME NEW g, GraphRight(g), NEW i, NEW s, NEW e1, NEW e2, NEW up
  PROVE  GraphRight(insert_meta_in_empty(g, i, s, e1, e2, up))
<1> DEFINE g1 == create_element_t(g, "META", up)
           meta == Len(g1.elements)
           g2 == set_km_point_and_line(g1, meta, "track", get_km(g.elements[e1], e2), s.line)
           v3 == (<<"track", TRUE>> :> e2) @@ (<<"track", FALSE>> :> e1)
           g3 == [g2 EXCEPT !.elements[meta].neighbours = v3]
           g4 == [g3 EXCEPT !.elements[meta].sections = <<i>>]
           v5 == Replace(g4.elements[e1].neighbours, e2, meta)
           g5 == [g4 EXCEPT !.elements[e1].neighbours = v5]
           v6 == Replace(g5.elements[e2].neighbours, e1, meta)
           g6 == [g5 EXCEPT !.elements[e2].neighbours = v6]
<1>1. GraphRight(g1)
  BY NewElementRight
<1> HIDE DEF g1, meta
<1>2. GraphRight(g2)
  BY <1>1, DescribedRight
<1> HIDE DEF g2, v3
<1>3. GraphRight(g3)
  BY <1>2, FieldReplacedRight
<1> HIDE DEF g3
<1>4. GraphRight(g4)
  BY <1>3, FieldReplacedRight
<1> HIDE DEF g4, v5
<1>5. GraphRight(g5)
  BY <1>4, FieldReplacedRight
<1> HIDE DEF g5, v6
<1>6. GraphRight(g6)
  BY <1>5, FieldReplacedRight
<1> DEFINE f3 == [g2 EXCEPT !.elements[meta].neighbours = v3,
                            !.elements[meta].sections = <<i>>]
           f4 == [f3 EXCEPT !.elements[e1].neighbours = Replace(@, e2, meta)]
<1>8. f3 = g4
  BY DEF g3, g4
<1>9. f4 = g5
  BY <1>8 DEF g5, v5
<1>10. [f4 EXCEPT !.elements[e2].neighbours = Replace(@, e1, meta)] = g6
  BY <1>9 DEF v6
<1>7. insert_meta_in_empty(g, i, s, e1, e2, up) = g6
  BY <1>10 DEF insert_meta_in_empty, g1, meta, g2, v3
<1> QED BY <1>6, <1>7

\* Both directions of a section are scanned.
LEMMA ScanRisingRight ==
  ASSUME NEW g, GraphRight(g), NEW i, NEW s, IsFiniteSet(s.track), NEW first, NEW last
  PROVE  /\ GraphRight(scan_rising(g, i, s, first, last))
         /\ GraphRight(scan_falling(g, i, s, first, last))
<1>1. GraphRight(scan_rising(g, i, s, first, last))
  <2> DEFINE scan == insert_in_direction(g, i, s, first, s.start.port, TRUE)
             g1 == set_neighbour(scan.g, scan.prev, scan.port, last, TRUE)
             g2 == set_neighbour(g1, last, s.end.port, scan.prev, TRUE)
  <2>1. GraphRight(scan.g)
    BY InsertInDirectionRight
  <2> HIDE DEF scan
  <2>2. GraphRight(g1)
    BY <2>1, DescribedRight
  <2> HIDE DEF g1
  <2>3. GraphRight(g2)
    BY <2>2, DescribedRight
  <2> HIDE DEF g2
  <2>4. GraphRight(insert_meta_in_empty(g2, i, s, first, last, TRUE))
    BY <2>3, InsertMetaRight
  <2> QED BY <2>3, <2>4 DEF scan_rising, end_of_scan_rising, scan, g1, g2
<1>2. GraphRight(scan_falling(g, i, s, first, last))
  <2> DEFINE scan == insert_in_direction(g, i, s, last, s.end.port, FALSE)
             g1 == set_neighbour(scan.g, first, s.start.port, scan.prev, FALSE)
             g2 == set_neighbour(g1, scan.prev, scan.port, first,
                                 is_track_element(scan.g.elements[scan.prev]))
  <2>1. GraphRight(scan.g)
    BY InsertInDirectionRight
  <2> HIDE DEF scan
  <2>2. GraphRight(g1)
    BY <2>1, DescribedRight
  <2> HIDE DEF g1
  <2>3. GraphRight(g2)
    BY <2>2, DescribedRight
  <2> HIDE DEF g2
  <2>4. GraphRight(insert_meta_in_empty(g2, i, s, last, first, FALSE))
    BY <2>3, InsertMetaRight
  <2> QED BY <2>3, <2>4 DEF scan_falling, end_of_scan_falling, scan, g1, g2
<1> QED BY <1>1, <1>2

\* The sections of the graph do not matter to its elements.
LEMMA SectionsReplacedRight ==
  ASSUME NEW g, GraphRight(g), NEW v
  PROVE  GraphRight([g EXCEPT !.sections = v])
<1> DEFINE h == [g EXCEPT !.sections = v]
<1>1. /\ {"elements", "sections", "borders", "id_of"} \subseteq DOMAIN g
      /\ \E S : g.elements \in Seq(S)
      /\ \E S : g.borders \in Seq(S)
  BY DEF GraphRight, HasShape
<1>2. /\ {"elements", "sections", "borders", "id_of"} \subseteq DOMAIN h
      /\ h.elements = g.elements /\ h.borders = g.borders /\ h.id_of = g.id_of
  BY <1>1
<1> HIDE DEF h
<1>3. SameTypes(g, h)
  BY <1>2 DEF SameTypes
<1>4. GraphRight(h)
  BY <1>1, <1>2, <1>3, SameTypesRight
<1> QED BY <1>4 DEF h

\* A whole section is put into the graph (parse_section_into_network).
LEMMA ParseSectionRight ==
  ASSUME NEW g, GraphRight(g), NEW i, NEW s, IsFiniteSet(s.track),
         \A end \in {s.start, s.end} :
           end.rp \in DOMAIN network.type /\ end.port \in Ports(network.type[end.rp])
  PROVE  GraphRight(parse_section_into_network(g, i, s))
<1> DEFINE g1 == emplace_into_network(g, i, s, s.start, TRUE)
           g2 == emplace_into_network(g1, i, s, s.end, FALSE)
           first == g2.id_of[s.start.rp]
           last == g2.id_of[s.end.rp]
           g3 == scan_rising(g2, i, s, first, last)
           g4 == scan_falling(g3, i, s, first, last)
<1>1. GraphRight(g1)
  BY EmplaceRight
<1> HIDE DEF g1
<1>2. GraphRight(g2)
  BY <1>1, EmplaceRight
<1> HIDE DEF g2, first, last
<1>3. GraphRight(g3)
  BY <1>2, ScanRisingRight
<1> HIDE DEF g3
<1>4. GraphRight(g4)
  BY <1>3, ScanRisingRight
<1> HIDE DEF g4
<1>5. GraphRight(add_section(g4, i, s, first, last))
  BY <1>4, SectionsReplacedRight DEF add_section
<1> QED BY <1>5 DEF parse_section_into_network, scan_section, g1, g2, first, last, g3, g4

-----------------------------------------------------------------------------
(***************************************************************************)
(* The borders between stations are joined.                                *)
(***************************************************************************)
\* The borders that are kept (parse_iss.cc:893).
LEMMA JoinedBorders ==
  ASSUME GraphRight(graph)
  PROVE  /\ Len(joined_borders) \in Nat /\ DOMAIN joined_borders = 1..Len(joined_borders)
         /\ \E S : joined_borders \in Seq(S)
<1> DEFINE known(b) == b.neighbour.station \in {s.station : s \in Range(network.sections)}
           kept     == Selected(graph.borders, known)
           B        == {k \in DOMAIN graph.borders : known(graph.borders[k])}
           at       == SetAsVector(B)
           f        == joined_borders
<1>1. DOMAIN kept = DOMAIN at
  BY DEF Selected, Indices
<1>2. PICK n \in Nat : DOMAIN graph.borders = 1..n
  BY LenProperties DEF GraphRight, HasShape
<1>3. B \in SUBSET (1..n)
  BY <1>2
<1> HIDE DEF B, known
<1>4. Len(at) \in Nat /\ DOMAIN at = 1..Len(at)
  BY <1>2, <1>3, VectorRises DEF IsRising, IsList
<1> HIDE DEF at, kept
<1>5. f = [k \in 1..Len(at) |-> f[k]]
  BY <1>1, <1>4 DEF joined_borders, kept, known
<1> HIDE DEF f
<1>6. Len(f) = Len(at) /\ DOMAIN f = 1..Len(at) /\ \E S : f \in Seq(S)
  BY <1>4, <1>5, MappedIsSequence
<1> QED BY <1>4, <1>6 DEF f

\* f connects the borders one after the other.
Connects(f, n, joined) ==
  /\ f = [k \in 0..n |-> f[k]] /\ f[0] = graph.elements
  /\ \A k \in 1..n : f[k] = connect_border(f[k - 1], joined[k])

\* There is such a sequence of changes.
LEMMA ConnectsExists ==
  ASSUME NEW n \in Nat, NEW joined
  PROVE  \E f : Connects(f, n, joined)
<1> DEFINE T == {k \in Nat : \E f : Connects(f, k, joined)}
           step(x, k) == connect_border(x, joined[k])
<1>1. 0 \in T
  <2> DEFINE f == [k \in 0..0 |-> graph.elements]
  <2>1. Connects(f, 0, joined)
    BY DEF Connects
  <2> QED BY <2>1
<1>2. ASSUME NEW k \in T PROVE k + 1 \in T
  <2>1. PICK f : Connects(f, k, joined)
    OBVIOUS
  <2> DEFINE g == [j \in 0..(k + 1) |-> IF j = k + 1 THEN step(f[k], k + 1) ELSE f[j]]
  <2>2. k \in Nat
    OBVIOUS
  <2> HIDE DEF step
  <2>3. g = [j \in 0..(k + 1) |-> g[j]] /\ g[0] = graph.elements
    BY <2>1, <2>2 DEF Connects
  <2>4. ASSUME NEW j \in 1..(k + 1) PROVE g[j] = step(g[j - 1], j)
    <3>1. CASE j = k + 1
      <4>1. g[k + 1] = step(f[k], k + 1) /\ g[k] = f[k]
        BY <2>2
      <4> QED BY <3>1, <4>1, <2>2
    <3>2. CASE j # k + 1
      <4>1. j \in 1..k /\ g[j] = f[j] /\ g[j - 1] = f[j - 1]
        BY <2>2, <3>2
      <4> QED BY <4>1, <2>1 DEF Connects, step
    <3> QED BY <3>1, <3>2
  <2>5. Connects(g, k + 1, joined)
    <3> HIDE DEF g
    <3> QED BY <2>3, <2>4 DEF Connects, step
  <2> QED BY <2>2, <2>5
<1>3. T = Nat
  <2> HIDE DEF T
  <2>1. T \subseteq Nat
    BY DEF T
  <2> QED BY <1>1, <1>2, <2>1, AllNaturals
<1> QED BY <1>3

\* Elements that differ in their neighbours and sections only.
SameElements(es, fs) ==
  /\ DOMAIN fs = DOMAIN es
  /\ \A id \in DOMAIN es :
       /\ fs[id].type = es[id].type
       /\ fs[id].arcs = es[id].arcs
       /\ DOMAIN fs[id] = DOMAIN es[id]

\* Connecting one border changes neighbours only.
LEMMA ConnectBorderRight ==
  ASSUME NEW es, \A id \in DOMAIN es : Fields \subseteq DOMAIN es[id],
         \E S : es \in Seq(S), NEW b
  PROVE  /\ SameElements(es, connect_border(es, b))
         /\ \E S : connect_border(es, b) \in Seq(S)
<1> DEFINE port == IF b.low THEN "end" ELSE "start"
           id == b.element
           f == [es[id] EXCEPT !.neighbours[<<port, TRUE>>]  = b.partner,
                               !.neighbours[<<port, FALSE>>] = b.partner]
<1>1. connect_border(es, b) = [es EXCEPT ![id] = f]
  BY DEF connect_border
<1>2. id \in DOMAIN es =>
        f.type = es[id].type /\ f.arcs = es[id].arcs /\ DOMAIN f = DOMAIN es[id]
  BY DEF Fields
<1> HIDE DEF f, id
<1>3. SameElements(es, [es EXCEPT ![id] = f])
  BY <1>2 DEF SameElements
<1>4. \E S : [es EXCEPT ![id] = f] \in Seq(S)
  BY ReplacedIsSequence
<1> QED BY <1>1, <1>3, <1>4

\* So does connecting any number of them.
LEMMA ConnectsRight ==
  ASSUME GraphRight(graph), NEW n \in Nat, NEW joined, NEW f, Connects(f, n, joined)
  PROVE  SameElements(graph.elements, f[n]) /\ \E S : f[n] \in Seq(S)
<1> DEFINE R(es) == SameElements(graph.elements, es) /\ \E S : es \in Seq(S)
           T == {k \in Nat : k <= n => R(f[k])}
<1>1. 0 \in T
  BY DEF Connects, SameElements, GraphRight, HasShape
<1>2. ASSUME NEW k \in Nat, k \in T PROVE k + 1 \in T
  <2> SUFFICES ASSUME k + 1 <= n PROVE R(f[k + 1])
    OBVIOUS
  <2>1. R(f[k])
    BY <1>2
  <2>2. k + 1 \in 1..n /\ (k + 1) - 1 = k
    OBVIOUS
  <2>3. f[k + 1] = connect_border(f[k], joined[k + 1])
    BY <2>2 DEF Connects
  <2>4. \A id \in DOMAIN f[k] : Fields \subseteq DOMAIN f[k][id]
    BY <2>1 DEF SameElements, GraphRight, HasShape
  <2>5. SameElements(f[k], f[k + 1]) /\ \E S : f[k + 1] \in Seq(S)
    BY <2>1, <2>3, <2>4, ConnectBorderRight
  <2> QED BY <2>1, <2>5 DEF SameElements
<1>3. n \in T
  <2> HIDE DEF T
  <2> QED BY <1>1, <1>2, AllNaturals
<1> HIDE DEF R
<1>4. R(f[n])
  BY <1>3
<1> QED BY <1>4 DEF R

\* And connecting all of them.
LEMMA ConnectBordersRight ==
  ASSUME GraphRight(graph), NEW joined, Len(joined) \in Nat
  PROVE  /\ SameElements(graph.elements, connect_borders(joined))
         /\ \E S : connect_borders(joined) \in Seq(S)
<1> DEFINE n == Len(joined)
           R(f) == f = [k \in 0..n |-> IF k = 0 THEN graph.elements
                                       ELSE connect_border(f[k - 1], joined[k])]
           connected == CHOOSE f : R(f)
<1>1. connect_borders(joined) = connected[n]
  BY DEF connect_borders
<1>2. n \in Nat
  OBVIOUS
<1> HIDE DEF n
<1>3. PICK h : Connects(h, n, joined)
  BY <1>2, ConnectsExists
<1>4. R(h)
  <2> DEFINE b == [k \in 0..n |-> IF k = 0 THEN graph.elements
                                  ELSE connect_border(h[k - 1], joined[k])]
  <2>1. ASSUME NEW k \in 0..n PROVE h[k] = b[k]
    <3>1. k = 0 \/ k \in 1..n
      BY <1>2
    <3>2. k \in 1..n => k # 0
      BY <1>2
    <3>3. k \in 1..n => h[k] = connect_border(h[k - 1], joined[k])
      BY <1>3 DEF Connects
    <3>4. h[0] = graph.elements
      BY <1>3 DEF Connects
    <3> QED BY <3>1, <3>2, <3>3, <3>4
  <2>2. h = [k \in 0..n |-> h[k]]
    BY <1>3 DEF Connects
  <2>3. h = b
    <3> HIDE DEF b
    <3>1. b = [k \in 0..n |-> b[k]]
      BY DEF b
    <3>2. [k \in 0..n |-> h[k]] = [k \in 0..n |-> b[k]]
      BY <2>1
    <3> QED BY ONLY <2>2, <3>1, <3>2
  <2> QED BY <2>3
<1>5. R(connected)
  <2> HIDE DEF R
  <2> QED BY <1>4
<1>6. Connects(connected, n, joined)
  <2> HIDE DEF connected
  <2>1. connected = [k \in 0..n |-> connected[k]]
    BY <1>5
  <2>2. connected[0] = graph.elements
    BY <1>2, <1>5
  <2>3. ASSUME NEW k \in 1..n
        PROVE  connected[k] = connect_border(connected[k - 1], joined[k])
    BY <1>2, <1>5
  <2> QED BY <2>1, <2>2, <2>3 DEF Connects
<1> HIDE DEF connected
<1> QED BY <1>1, <1>2, <1>6, ConnectsRight

\* The section between two borders is added.
LEMMA AddBorderSectionRight ==
  ASSUME NEW g, GraphRight(g), NEW b
  PROVE  GraphRight(add_border_section(g, b))
<1> DEFINE i == Len(g.sections) + 1
           g1 == [g EXCEPT !.sections = Append(@, border_section(b))]
           v2 == Append(g1.elements[b.element].sections, i)
           g2 == [g1 EXCEPT !.elements[b.element].sections = v2]
           v3 == Append(g2.elements[b.partner].sections, i)
           g3 == [g2 EXCEPT !.elements[b.partner].sections = v3]
<1>1. GraphRight(g1)
  BY SectionsReplacedRight
<1> HIDE DEF g1, i, v2
<1>2. GraphRight(g2)
  BY <1>1, FieldReplacedRight
<1> HIDE DEF g2, v3
<1>3. GraphRight(g3)
  BY <1>2, FieldReplacedRight
<1>4. add_border_section(g, b) = g3
  <2> DEFINE f2 == [g EXCEPT !.sections = Append(@, border_section(b)),
                            !.elements[b.element].sections = Append(@, i)]
  <2>1. {"elements", "sections"} \subseteq DOMAIN g
    BY DEF GraphRight, HasShape
  <2>2. f2 = g2
    BY <2>1 DEF g1, g2, v2
  <2>3. [f2 EXCEPT !.elements[b.partner].sections = Append(@, i)] = g3
    BY <2>2 DEF v3
  <2> QED BY <2>3 DEF add_border_section, i
<1> QED BY <1>3, <1>4

\* The k-th border needs no section of its own.
HasSection(joined, k) ==
  \E j \in 1..(k - 1) : get_id_tuple(joined[j]) = get_id_tuple(joined[k])

\* f adds the sections between the borders one after the other.
AddsSections(f, n, first, joined) ==
  /\ f = [k \in 0..n |-> f[k]] /\ f[0] = first
  /\ \A k \in 1..n : f[k] = IF HasSection(joined, k) THEN f[k - 1]
                            ELSE add_border_section(f[k - 1], joined[k])

\* There is such a sequence of graphs.
LEMMA AddsSectionsExists ==
  ASSUME NEW n \in Nat, NEW first, NEW joined
  PROVE  \E f : AddsSections(f, n, first, joined)
<1> DEFINE T == {k \in Nat : \E f : AddsSections(f, k, first, joined)}
           step(x, k) == IF HasSection(joined, k) THEN x
                         ELSE add_border_section(x, joined[k])
<1>1. 0 \in T
  <2> DEFINE f == [k \in 0..0 |-> first]
  <2>1. AddsSections(f, 0, first, joined)
    BY DEF AddsSections
  <2> QED BY <2>1
<1>2. ASSUME NEW k \in T PROVE k + 1 \in T
  <2>1. PICK f : AddsSections(f, k, first, joined)
    OBVIOUS
  <2> DEFINE g == [j \in 0..(k + 1) |-> IF j = k + 1 THEN step(f[k], k + 1) ELSE f[j]]
  <2>2. k \in Nat
    OBVIOUS
  <2> HIDE DEF step
  <2>3. g = [j \in 0..(k + 1) |-> g[j]] /\ g[0] = first
    BY <2>1, <2>2 DEF AddsSections
  <2>4. ASSUME NEW j \in 1..(k + 1) PROVE g[j] = step(g[j - 1], j)
    <3>1. CASE j = k + 1
      <4>1. g[k + 1] = step(f[k], k + 1) /\ g[k] = f[k]
        BY <2>2
      <4> QED BY <3>1, <4>1, <2>2
    <3>2. CASE j # k + 1
      <4>1. j \in 1..k /\ g[j] = f[j] /\ g[j - 1] = f[j - 1]
        BY <2>2, <3>2
      <4> QED BY <4>1, <2>1 DEF AddsSections, step
    <3> QED BY <3>1, <3>2
  <2>5. AddsSections(g, k + 1, first, joined)
    <3> HIDE DEF g
    <3> QED BY <2>3, <2>4 DEF AddsSections, step
  <2> QED BY <2>2, <2>5
<1>3. T = Nat
  <2> HIDE DEF T
  <2>1. T \subseteq Nat
    BY DEF T
  <2> QED BY <1>1, <1>2, <2>1, AllNaturals
<1> QED BY <1>3

\* All of them are right.
LEMMA AddsSectionsRight ==
  ASSUME NEW n \in Nat, NEW first, GraphRight(first), NEW joined,
         NEW f, AddsSections(f, n, first, joined)
  PROVE  GraphRight(f[n])
<1> DEFINE T == {k \in Nat : k <= n => GraphRight(f[k])}
<1>1. 0 \in T
  BY DEF AddsSections
<1>2. ASSUME NEW k \in Nat, k \in T PROVE k + 1 \in T
  <2> SUFFICES ASSUME k + 1 <= n PROVE GraphRight(f[k + 1])
    OBVIOUS
  <2>1. GraphRight(f[k])
    BY <1>2
  <2>2. k + 1 \in 1..n /\ (k + 1) - 1 = k
    OBVIOUS
  <2>3. f[k + 1] = IF HasSection(joined, k + 1) THEN f[k]
                   ELSE add_border_section(f[k], joined[k + 1])
    BY <2>2 DEF AddsSections
  <2> QED BY <2>1, <2>3, AddBorderSectionRight
<1>3. n \in T
  <2> HIDE DEF T
  <2> QED BY <1>1, <1>2, AllNaturals
<1> QED BY <1>3

\* The sections between all borders are added.
LEMMA AddBorderSectionsRight ==
  ASSUME GraphRight(graph), NEW joined, Len(joined) \in Nat, \E S : joined \in Seq(S)
  PROVE  GraphRight(add_border_sections(joined))
<1> DEFINE n == Len(joined)
           es == connect_borders(joined)
           first == [graph EXCEPT !.borders = joined, !.elements = connect_borders(joined)]
           R(f) == f = [k \in 0..n |->
                          IF k = 0
                          THEN [graph EXCEPT !.borders  = joined,
                                             !.elements = connect_borders(joined)]
                          ELSE IF \E j \in 1..(k - 1) :
                                    get_id_tuple(joined[j]) = get_id_tuple(joined[k])
                          THEN f[k - 1]
                          ELSE add_border_section(f[k - 1], joined[k])]
           with == CHOOSE f : R(f)
<1>1. add_border_sections(joined) = with[n]
  BY DEF add_border_sections
<1>2. n \in Nat
  OBVIOUS
<1> HIDE DEF n
<1>3. PICK h : AddsSections(h, n, first, joined)
  BY <1>2, AddsSectionsExists
<1>4. R(h)
  <2> DEFINE b == [k \in 0..n |->
                     IF k = 0
                     THEN [graph EXCEPT !.borders  = joined,
                                        !.elements = connect_borders(joined)]
                     ELSE IF \E j \in 1..(k - 1) :
                               get_id_tuple(joined[j]) = get_id_tuple(joined[k])
                     THEN h[k - 1]
                     ELSE add_border_section(h[k - 1], joined[k])]
  <2>1. ASSUME NEW k \in 0..n PROVE h[k] = b[k]
    <3>1. k = 0 \/ k \in 1..n
      BY <1>2
    <3>2. k \in 1..n => k # 0
      BY <1>2
    <3>3. k \in 1..n => h[k] = IF HasSection(joined, k) THEN h[k - 1]
                               ELSE add_border_section(h[k - 1], joined[k])
      BY <1>3 DEF AddsSections
    <3>4. h[0] = first
      BY <1>3 DEF AddsSections
    <3> QED BY <3>1, <3>2, <3>3, <3>4 DEF HasSection
  <2>2. h = [k \in 0..n |-> h[k]]
    BY <1>3 DEF AddsSections
  <2>3. h = b
    <3> HIDE DEF b
    <3>1. b = [k \in 0..n |-> b[k]]
      BY DEF b
    <3>2. [k \in 0..n |-> h[k]] = [k \in 0..n |-> b[k]]
      BY <2>1
    <3> QED BY ONLY <2>2, <3>1, <3>2
  <2> QED BY <2>3
<1>5. R(with)
  <2> HIDE DEF R
  <2> QED BY <1>4
<1>6. AddsSections(with, n, first, joined)
  <2> HIDE DEF with
  <2>1. with = [k \in 0..n |-> with[k]]
    BY <1>5
  <2>2. with[0] = first
    BY <1>2, <1>5
  <2>3. ASSUME NEW k \in 1..n
        PROVE  with[k] = IF HasSection(joined, k) THEN with[k - 1]
                         ELSE add_border_section(with[k - 1], joined[k])
    BY <1>2, <1>5 DEF HasSection
  <2> QED BY <2>1, <2>2, <2>3 DEF AddsSections
<1> HIDE DEF with, first
<1>7. GraphRight(first)
  <2>1. SameElements(graph.elements, es) /\ \E S : es \in Seq(S)
    BY <1>2, ConnectBordersRight DEF n
  <2> HIDE DEF es
  <2>2. {"elements", "sections", "borders", "id_of"} \subseteq DOMAIN graph
    BY DEF GraphRight, HasShape
  <2>3. /\ {"elements", "sections", "borders", "id_of"} \subseteq DOMAIN first
        /\ first.elements = es /\ first.borders = joined /\ first.id_of = graph.id_of
    BY <2>2 DEF first, es
  <2>4. SameTypes(graph, first)
    BY <2>1, <2>3 DEF SameTypes, SameElements
  <2> QED BY <2>1, <2>3, <2>4, SameTypesRight
<1> QED BY <1>1, <1>2, <1>6, <1>7, AddsSectionsRight

-----------------------------------------------------------------------------
(***************************************************************************)
(* The nodes of the elements, and the graph in all stages.                 *)
(***************************************************************************)
\* Only what forks has branches.
LEMMA BranchesAtSwitches ==
  ASSUME GraphRight(graph), NEW id \in DOMAIN graph.elements,
         NEW x \in connect_nodes(graph, id), x.kind = "branch"
  PROVE  x.from[1] = id /\ is_switch(graph.elements[id])
<1> DEFINE e == graph.elements[id]
<1>1. ASSUME NEW name, NEW slot, NEW dir, NEW y \in ByNeighbour(graph, id, name, slot, dir)
      PROVE  y.kind = "next"
  BY <1>1 DEF ByNeighbour, Edge
<1>2. ASSUME NEW by, NEW kind, NEW p, NEW y \in Leaving(graph, id, by, kind, p)
      PROVE  y.kind = kind /\ y.from[1] = id
  <2>1. PICK to : y = Edge(id, node_towards(e, by), kind, to)
    BY <1>2 DEF Leaving
  <2> QED BY <2>1 DEF Edge
<1>3. CASE is_directed(e)
  <2>1. connect_nodes(graph, id) =
          ByNeighbour(graph, id, "node", <<"track", TRUE>>, rising(e))
    BY <1>3 DEF connect_nodes, is_directed, is_track_element, is_undirected, SectionTypes,
            SimpleTypes, EndTypes, UndirectedTypes
  <2>2. x.kind = "next"
    BY ONLY <1>1, <2>1, x \in connect_nodes(graph, id)
  <2> QED BY <2>2
<1>4. CASE ~is_directed(e) /\ (is_undirected(e) \/ e.type \in {"KM_JUMP", "BORDER"})
  <2>1. connect_nodes(graph, id) =
          ByNeighbour(graph, id, "top", <<"start", TRUE>>, TRUE)
          \cup ByNeighbour(graph, id, "bot", <<"end", FALSE>>, FALSE)
    BY <1>4 DEF connect_nodes, is_directed, is_track_element, is_undirected, SectionTypes,
            SimpleTypes, EndTypes, UndirectedTypes
  <2>2. x.kind = "next"
    BY ONLY <1>1, <2>1, x \in connect_nodes(graph, id)
  <2> QED BY <2>2
<1>5. CASE /\ ~is_directed(e) /\ ~(is_undirected(e) \/ e.type \in {"KM_JUMP", "BORDER"})
           /\ e.type = "SIMPLE_SWITCH"
  <2>1. connect_nodes(graph, id) =
          Leaving(graph, id, "start", "next", "start")
          \cup Leaving(graph, id, "stem", "next", "stem")
          \cup Leaving(graph, id, "branch", "branch", "branch")
    BY <1>5 DEF connect_nodes
  <2>2. x \in Leaving(graph, id, "branch", "branch", "branch")
    BY <1>2, <2>1
  <2> QED BY <1>2, <1>5, <2>2 DEF is_switch
<1>6. CASE /\ ~is_directed(e) /\ ~(is_undirected(e) \/ e.type \in {"KM_JUMP", "BORDER"})
           /\ e.type # "SIMPLE_SWITCH"
  <2>1. connect_nodes(graph, id) =
          UNION ({Leaving(graph, id, p, "next", p) : p \in Ports(e.type)}
                 \cup {UNION {Leaving(graph, id, a[1], "branch", a[2])
                                : a \in ArcPorts(arc)} : arc \in e.arcs})
    BY <1>6 DEF connect_nodes
  <2>2. PICK arc \in e.arcs : x \in UNION {Leaving(graph, id, a[1], "branch", a[2])
                                             : a \in ArcPorts(arc)}
    BY <1>2, <2>1
  <2>3. e.type = "CROSS"
    BY <2>2 DEF GraphRight, TypesRight
  <2>4. PICK a : x \in Leaving(graph, id, a[1], "branch", a[2])
    BY <2>2
  <2> QED BY <1>2, <2>2, <2>3, <2>4 DEF is_switch
<1> QED BY <1>3, <1>4, <1>5, <1>6

\* The nodes are those of the elements, and forks are at switches.
HasNodes(g, next, branch) ==
  /\ DOMAIN next = AllNodes(g) /\ DOMAIN branch = AllNodes(g)
  /\ \A n \in AllNodes(g) : branch[n] # NoNode => is_switch(g.elements[n[1]])

\* The nodes of the graph at hand.
NodesRight == HasNodes(graph, next_node, branch_node)

\* The stages before the nodes are connected.
GraphStages == {"sections", "borders", "nodes"}

(***************************************************************************)
(* The invariant of the graph: ids and types are those of the rail plan at *)
(* every time, and once the nodes are connected, only a switch has a       *)
(* branch.                                                                 *)
(***************************************************************************)
GraphInv ==
  /\ network \in Networks
  /\ GraphRight(graph)
  /\ stage \notin GraphStages => NodesRight

\* The nodes are connected.
LEMMA ConnectAllNodesRight ==
  ASSUME GraphInv, connect_all_nodes
  PROVE  GraphInv'
<1> DEFINE edges == UNION {connect_nodes(graph, id) : id \in DOMAIN graph.elements}
<1>1. /\ network' = network /\ graph' = graph
      /\ next_node' = [n \in AllNodes(graph) |-> Target(edges, n, "next")]
      /\ branch_node' = [n \in AllNodes(graph) |-> Target(edges, n, "branch")]
  BY DEF connect_all_nodes
<1>2. ASSUME NEW n \in AllNodes(graph), Target(edges, n, "branch") # NoNode
      PROVE  is_switch(graph.elements[n[1]])
  <2>1. PICK x \in edges : x.from = n /\ x.kind = "branch"
    BY <1>2 DEF Target
  <2>2. PICK id \in DOMAIN graph.elements : x \in connect_nodes(graph, id)
    BY <2>1
  <2>3. x.from[1] = id /\ is_switch(graph.elements[id])
    BY <2>1, <2>2, BranchesAtSwitches DEF GraphInv
  <2> QED BY <2>1, <2>3
<1> HIDE DEF edges
<1>3. \A n \in AllNodes(graph) :
        branch_node'[n] # NoNode => is_switch(graph.elements[n[1]])
  BY <1>1, <1>2
<1>4. NodesRight'
  BY <1>1, <1>3 DEF NodesRight, HasNodes
<1>5. GraphRight(graph)'
  BY <1>1 DEF GraphInv, GraphRight, HasShape, TypesRight
<1> QED BY <1>1, <1>4, <1>5 DEF GraphInv

\* The right graph stays right as long as the rail plan does.
LEMMA SameNetwork ==
  ASSUME network' = network, NEW g, GraphRight(g), graph' = g
  PROVE  GraphRight(graph)'
BY DEF GraphRight, HasShape, TypesRight

\* Every step that builds the graph.
LEMMA GraphNextRight ==
  ASSUME GraphInv, GraphNext
  PROVE  GraphInv'
<1>1. CASE parse_section
  <2> DEFINE i == Len(graph.sections) + 1
             s == network.sections[i]
  <2>1. /\ network' = network /\ i \in DOMAIN network.sections
        /\ graph' = parse_section_into_network(graph, i, s)
        /\ stage' \in GraphStages
    BY <1>1 DEF parse_section, GraphStages
  <2>2. s \in Range(network.sections)
    BY <2>1 DEF Range
  <2>3. /\ IsFiniteSet(s.track)
        /\ \A end \in {s.start, s.end} :
             end.rp \in DOMAIN network.type /\ end.port \in Ports(network.type[end.rp])
    BY <2>2, PlansAssumption DEF GraphInv
  <2> HIDE DEF s, i
  <2>4. GraphRight(parse_section_into_network(graph, i, s))
    BY <2>3, ParseSectionRight DEF GraphInv
  <2>5. GraphRight(graph)'
    BY <2>1, <2>4, SameNetwork
  <2> QED BY <2>1, <2>5 DEF GraphInv
<1>2. CASE complete_borders
  <2> DEFINE joined == joined_borders
  <2>1. /\ network' = network /\ graph' = add_border_sections(joined)
        /\ stage' \in GraphStages
    BY <1>2 DEF complete_borders, GraphStages
  <2>2. Len(joined) \in Nat /\ \E S : joined \in Seq(S)
    BY JoinedBorders DEF GraphInv
  <2> HIDE DEF joined
  <2>3. GraphRight(add_border_sections(joined))
    BY <2>2, AddBorderSectionsRight DEF GraphInv
  <2>4. GraphRight(graph)'
    BY <2>1, <2>3, SameNetwork
  <2> QED BY <2>1, <2>4 DEF GraphInv
<1> QED BY <1>1, <1>2, ConnectAllNodesRight DEF GraphNext

\* All later steps leave the graph as it is.
LEMMA GraphKept ==
  ASSUME GraphInv, UNCHANGED graph_vars, stage \in GraphStages => stage' \in GraphStages
  PROVE  GraphInv'
<1>1. /\ network' = network /\ graph' = graph /\ next_node' = next_node
      /\ branch_node' = branch_node
  BY DEF graph_vars
<1>2. GraphRight(graph)'
  BY <1>1, SameNetwork DEF GraphInv
<1>3. NodesRight => NodesRight'
  BY <1>1 DEF NodesRight, HasNodes, AllNodes, is_switch
<1> QED BY <1>1, <1>2, <1>3 DEF GraphInv

\* All steps: after the nodes are connected, none touches the graph.
LEMMA GraphStep ==
  ASSUME GraphInv, [TimetableNext \/ Parsed]_vars
  PROVE  GraphInv'
<1> USE DEF GraphStages
<1>1. CASE GraphNext
  BY <1>1, GraphNextRight
<1>2. CASE calculate_station_routes \/ get_station_route_graph
  BY <1>2, GraphKept DEF calculate_station_routes, get_station_route_graph
<1>3. CASE start_station_route \/ fill_paths \/ finish_station_route \/ get_interlocking
  <2>1. UNCHANGED graph_vars /\ stage \notin GraphStages
    BY <1>3 DEF start_station_route, fill_paths, finish_station_route, get_interlocking
  <2> QED BY <2>1, GraphKept
<1>4. CASE start_threads
  BY <1>4, GraphKept DEF start_threads
<1>5. ASSUME NEW t \in Threads, generate_used_by(t) PROVE GraphInv'
  BY <1>5, GraphKept DEF generate_used_by
<1>6. CASE combine_thread_results \/ get_exclusion_graph \/ read_exclusion_sets
  <2>1. UNCHANGED graph_vars /\ stage \notin GraphStages
    BY <1>6 DEF combine_thread_results, get_exclusion_graph, read_exclusion_sets
  <2> QED BY <2>1, GraphKept
<1>7. CASE Complete
  BY <1>7, GraphKept DEF Complete, infrastructure_vars
<1>8. CASE open_directory
  <2>1. UNCHANGED graph_vars /\ stage \notin GraphStages
    BY <1>8 DEF open_directory, reject
  <2> QED BY <2>1, GraphKept
<1>9. ASSUME NEW p \in Parsers,
             take_item(p) \/ parse_train(p) \/ crash(p) \/ finish_item(p)
      PROVE  GraphInv'
  <2>1. UNCHANGED graph_vars /\ stage \notin GraphStages
    BY <1>9 DEF take_item, parse_train, crash, finish_item, infra_vars
  <2> QED BY <2>1, GraphKept
<1>10. CASE finish_timetable
  BY <1>10, GraphKept DEF finish_timetable, infra_vars
<1>11. CASE UNCHANGED vars
  BY <1>11, GraphKept DEF vars, infrastructure_vars
<1>12. CASE InterlockingNext
  BY <1>1, <1>2, <1>3, <1>12 DEF InterlockingNext, RoutesNext
<1> QED BY <1>4, <1>5, <1>6, <1>7, <1>8, <1>9, <1>10, <1>11, <1>12
        DEF TimetableNext, ExclusionNext, Parsed

\* The empty graph.
LEMMA GraphInitRight ==
  ASSUME TimetableInit
  PROVE  GraphInv
<1>1. /\ network \in Networks /\ stage = "sections"
      /\ graph = [elements |-> <<>>, sections |-> <<>>, borders |-> <<>>,
                  id_of |-> [rp \in DOMAIN network.type |-> Null]]
  BY DEF TimetableInit, ExclusionInit, InterlockingInit, RoutesInit, GraphInit
<1>2. {"elements", "sections", "borders", "id_of"} \subseteq DOMAIN graph
  BY <1>1
<1>3. graph.elements = <<>> /\ graph.borders = <<>>
  BY <1>1
<1>4. graph.id_of = [rp \in DOMAIN network.type |-> Null]
  BY <1>1
<1>5. graph.elements \in Seq({}) /\ graph.borders \in Seq({}) /\ DOMAIN graph.elements = {}
  BY <1>3
<1>6. HasShape(graph)
  BY <1>2, <1>5 DEF HasShape
<1>7. TypesRight(graph)
  BY <1>4, <1>5 DEF TypesRight
<1> QED BY <1>1, <1>6, <1>7 DEF GraphInv, GraphRight, GraphStages

-----------------------------------------------------------------------------
(***************************************************************************)
(* The path of a station route: get_path walks along the graph.            *)
(***************************************************************************)
\* There are finitely many nodes.
LEMMA FinitelyManyNodes ==
  ASSUME GraphRight(graph), NodesRight
  PROVE  Cardinality(DOMAIN next_node) \in Nat
<1> DEFINE n == Len(graph.elements)
           names == {"top", "bot", "left", "right", "node"}
<1>1. n \in Nat /\ DOMAIN graph.elements = 1..n
  BY LenProperties DEF GraphRight, HasShape
<1>2. \A type : NodeNames(type) \subseteq names
  BY DEF NodeNames
<1>3. AllNodes(graph) \subseteq (1..n) \X names
  <2> HIDE DEF n, names
  <2> QED BY <1>1, <1>2 DEF AllNodes
<1>4. IsFiniteSet(1..n)
  <2> HIDE DEF n
  <2> QED BY <1>1, FS_Interval
<1>5. IsFiniteSet(names)
  <2>1. IsFiniteSet({"top"} \cup {"bot"} \cup {"left"} \cup {"right"} \cup {"node"})
    BY FS_Singleton, FS_Union
  <2>2. names = {"top"} \cup {"bot"} \cup {"left"} \cup {"right"} \cup {"node"}
    OBVIOUS
  <2> QED BY <2>1, <2>2
<1>6. IsFiniteSet((1..n) \X names)
  <2> HIDE DEF n, names
  <2> QED BY <1>4, <1>5, FS_Product
<1>7. IsFiniteSet(AllNodes(graph))
  <2> HIDE DEF n, names
  <2> QED BY <1>3, <1>6, FS_Subset
<1> QED BY <1>7, FS_CardinalityType DEF NodesRight, HasNodes

\* One step of get_path: where it is, and the number of the next decision.
WalkStep(r, at) ==
  IF at[1] = last_node_of(r) \/ at[1] \notin DOMAIN next_node THEN at
  ELSE <<ahead_on_course(at[1], r.course, at[2]),
         at[2] + IF is_switch(graph.elements[at[1][1]]) THEN 1 ELSE 0>>

\* f is the walk of r along the graph.
Walks(f, n, r) ==
  /\ f = [k \in 0..n |-> f[k]] /\ f[0] = <<get_border_node(r.start, TRUE), 1>>
  /\ \A k \in 1..n : f[k] = WalkStep(r, f[k - 1])

\* There is a walk of any length: the model names it by CHOOSE.
LEMMA WalkExists ==
  ASSUME NEW n \in Nat, NEW r
  PROVE  \E f : Walks(f, n, r)
<1> DEFINE T == {k \in Nat : \E f : Walks(f, k, r)}
<1>1. 0 \in T
  <2> DEFINE first == <<get_border_node(r.start, TRUE), 1>>
             f == [k \in 0..0 |-> first]
  <2> HIDE DEF first
  <2>1. f = [k \in 0..0 |-> f[k]] /\ f[0] = first
    OBVIOUS
  <2>2. 1..0 = {}
    OBVIOUS
  <2> HIDE DEF f
  <2>3. Walks(f, 0, r)
    BY <2>1, <2>2 DEF Walks, first
  <2> QED BY <2>3
<1>2. ASSUME NEW k \in Nat, k \in T PROVE k + 1 \in T
  <2>1. PICK f : Walks(f, k, r)
    BY <1>2
  <2> DEFINE g == [j \in 0..(k + 1) |-> IF j \in 0..k THEN f[j] ELSE WalkStep(r, f[k])]
  <2>2. g[0] = f[0]
    OBVIOUS
  <2>3. ASSUME NEW j \in 1..(k + 1) PROVE g[j] = WalkStep(r, g[j - 1])
    <3> DEFINE step(x) == WalkStep(r, x)
    <3> HIDE DEF step
    <3>1. CASE j \in 1..k
      <4>1. g[j] = f[j] /\ g[j - 1] = f[j - 1]
        BY <3>1
      <4> QED BY <2>1, <3>1, <4>1 DEF Walks
    <3>2. CASE j = k + 1
      <4>1. g[j - 1] = f[k]
        BY <3>2
      <4>2. g[j] = step(f[k])
        BY <3>2 DEF step
      <4> QED BY <4>1, <4>2 DEF step
    <3> QED BY <3>1, <3>2
  <2>4. g = [j \in 0..(k + 1) |-> g[j]]
    OBVIOUS
  <2> HIDE DEF g
  <2>5. Walks(g, k + 1, r)
    BY <2>1, <2>2, <2>3, <2>4 DEF Walks
  <2> QED BY <2>5
<1>3. n \in T
  <2> HIDE DEF T
  <2> QED BY <1>1, <1>2, AllNaturals
<1> QED BY <1>3

LEMMA WalkRight ==
  ASSUME NEW r, NEW n \in Nat, n = 2 * Cardinality(DOMAIN next_node)
  PROVE  Walks(walk(r), n, r)
<1> DEFINE R(f) == f = [k \in Steps |->
                          IF k = 0 THEN <<get_border_node(r.start, TRUE), 1>>
                          ELSE LET at == f[k - 1]
                               IN  IF at[1] = last_node_of(r) \/ at[1] \notin DOMAIN next_node
                                   THEN at
                                   ELSE <<ahead_on_course(at[1], r.course, at[2]),
                                          at[2] + IF is_switch(graph.elements[at[1][1]])
                                                  THEN 1 ELSE 0>>]
           w == CHOOSE f : R(f)
<1>1. walk(r) = w
  BY DEF walk
<1>2. Steps = 0..n
  BY DEF Steps
<1>3. PICK h : Walks(h, n, r)
  BY WalkExists
<1> DEFINE b(f) == [k \in 0..n |-> IF k = 0 THEN <<get_border_node(r.start, TRUE), 1>>
                                   ELSE WalkStep(r, f[k - 1])]
<1>4. ASSUME NEW f PROVE R(f) <=> f = b(f)
  BY <1>2 DEF WalkStep
<1>5. h = b(h)
  <2>1. ASSUME NEW k \in 0..n PROVE h[k] = b(h)[k]
    <3>1. k = 0 \/ k \in 1..n
      OBVIOUS
    <3>2. k \in 1..n => k # 0
      OBVIOUS
    <3>3. k \in 1..n => h[k] = WalkStep(r, h[k - 1])
      BY <1>3 DEF Walks
    <3>4. h[0] = <<get_border_node(r.start, TRUE), 1>>
      BY <1>3 DEF Walks
    <3> QED BY <3>1, <3>2, <3>3, <3>4
  <2>2. h = [k \in 0..n |-> h[k]]
    BY <1>3 DEF Walks
  <2> HIDE DEF b
  <2>3. b(h) = [k \in 0..n |-> b(h)[k]]
    BY DEF b
  <2>4. [k \in 0..n |-> h[k]] = [k \in 0..n |-> b(h)[k]]
    BY <2>1
  <2> QED BY ONLY <2>2, <2>3, <2>4
<1>6. R(w)
  <2>1. R(h)
    BY <1>4, <1>5
  <2> HIDE DEF R
  <2> QED BY <2>1
<1>7. w = b(w)
  BY <1>4, <1>6
<1> HIDE DEF w, R
<1>8. w = [k \in 0..n |-> w[k]]
  BY <1>7
<1>9. w[0] = <<get_border_node(r.start, TRUE), 1>>
  <2>1. 0 \in 0..n
    OBVIOUS
  <2> DEFINE first == <<get_border_node(r.start, TRUE), 1>>
  <2> HIDE DEF first
  <2>2. w[0] = b(w)[0]
    BY <1>7
  <2>3. b(w)[0] = first
    BY <2>1 DEF first
  <2> QED BY <2>2, <2>3 DEF first
<1>10. ASSUME NEW k \in 1..n PROVE w[k] = WalkStep(r, w[k - 1])
  <2>1. k \in 0..n /\ k # 0
    OBVIOUS
  <2> QED BY <1>7, <2>1
<1>11. Walks(w, n, r)
  BY <1>8, <1>9, <1>10 DEF Walks
<1> QED BY <1>1, <1>11

\* The switches among the first j nodes of a path.
Switches(n, j) == {i \in 1..j : is_switch(graph.elements[n[i][1]])}

\* Switches are counted one by one.
LEMMA OneMoreSwitch ==
  ASSUME NEW n, NEW j \in Nat
  PROVE  /\ Cardinality(Switches(n, 0)) = 0 /\ Cardinality(Switches(n, j)) \in Nat
         /\ Cardinality(Switches(n, j + 1)) =
              Cardinality(Switches(n, j))
              + IF is_switch(graph.elements[n[j + 1][1]]) THEN 1 ELSE 0
<1> DEFINE sw(i) == is_switch(graph.elements[n[i][1]])
           S == Switches(n, j)
<1>1. S = {i \in 1..j : sw(i)} /\ Switches(n, j + 1) = {i \in 1..(j + 1) : sw(i)}
  BY DEF Switches
<1>2. Switches(n, 0) = {}
  BY DEF Switches
<1> HIDE DEF sw, S
<1>3. IsFiniteSet(S)
  <2>1. IsFiniteSet(1..j)
    BY FS_Interval
  <2> QED BY <1>1, <2>1, FS_Subset
<1>4. Switches(n, j + 1) = IF sw(j + 1) THEN S \cup {j + 1} ELSE S
  <2>1. 1..(j + 1) = (1..j) \cup {j + 1}
    OBVIOUS
  <2> QED BY <1>1, <2>1
<1>5. j + 1 \notin S
  BY <1>1
<1>6. Cardinality(S \cup {j + 1}) = Cardinality(S) + 1 /\ Cardinality(S) \in Nat
  BY <1>3, <1>5, FS_AddElement, FS_CardinalityType
<1> QED BY <1>2, <1>4, <1>6, FS_EmptySet DEF sw, S

\* A path runs from the first to the last node, one step of the course after
\* the other, and the decisions it takes are numbered by the switches it passes.
LEMMA PathFollows ==
  ASSUME GraphRight(graph), NodesRight, NEW r, Arrivals(r) # {}, NEW n, n = get_path(r)
  PROVE  /\ Len(n) \in Nat \ {0} /\ DOMAIN n = 1..Len(n)
         /\ n[1] = get_border_node(r.start, TRUE) /\ n[Len(n)] = last_node_of(r)
         /\ \A j \in 1..(Len(n) - 1) :
              /\ n[j] \in DOMAIN next_node
              /\ n[j + 1] = ahead_on_course(n[j], r.course,
                                            1 + Cardinality(Switches(n, j - 1)))
<1> DEFINE N == 2 * Cardinality(DOMAIN next_node)
           w == walk(r)
           A == Arrivals(r)
           m == Min(A)
<1>1. N \in Nat
  BY FinitelyManyNodes
<1>2. Walks(w, N, r)
  BY <1>1, WalkRight
<1>3. A = {k \in 0..N : w[k][1] = last_node_of(r)}
  BY DEF Arrivals, Steps
<1>4. n = [k \in 1..(m + 1) |-> w[k - 1][1]]
  BY DEF get_path
<1>5. m \in A /\ \A y \in A : m <= y
  <2>1. A \subseteq Nat
    <3> HIDE DEF N
    <3> QED BY <1>1, <1>3
  <2>2. PICK x \in A : \A y \in A : x <= y
    BY <2>1, LeastNat
  <2>3. m = CHOOSE k \in A : \A y \in A : k =< y
    BY DEF Min
  <2> HIDE DEF A, m
  <2> QED BY <2>2, <2>3
<1> HIDE DEF N, w, A, m
<1>6. m \in 0..N /\ m \in Nat /\ w[m][1] = last_node_of(r)
  BY <1>1, <1>3, <1>5
<1>7. Len(n) = m + 1 /\ DOMAIN n = 1..(m + 1)
  <2>1. n = [k \in 1..(m + 1) |-> n[k]]
    BY <1>4
  <2> QED BY <1>6, <2>1, MappedIsSequence
<1>8. ASSUME NEW j \in 1..(m + 1) PROVE n[j] = w[j - 1][1]
  BY <1>4
<1>9. n[1] = get_border_node(r.start, TRUE)
  <2>1. w[0] = <<get_border_node(r.start, TRUE), 1>>
    BY <1>2 DEF Walks
  <2>2. n[1] = w[0][1]
    <3>1. 1 \in 1..(m + 1) /\ 1 - 1 = 0
      BY <1>6
    <3> QED BY <1>8, <3>1
  <2>3. w[0][1] = get_border_node(r.start, TRUE)
    BY <2>1
  <2> QED BY ONLY <2>2, <2>3
<1>10. n[m + 1] = last_node_of(r)
  BY <1>6, <1>8
<1>11. ASSUME NEW j \in 1..m PROVE n[j] # last_node_of(r)
  <2>1. j - 1 \in 0..N /\ j - 1 < m
    BY <1>1, <1>6
  <2>2. j - 1 \notin A
    BY <1>5, <1>6, <2>1
  <2>3. n[j] = w[j - 1][1]
    BY <1>6, <1>8
  <2> QED BY <1>3, <2>1, <2>2, <2>3
<1>12. ASSUME NEW j \in 1..m PROVE n[j] \in DOMAIN next_node
  <2> SUFFICES ASSUME n[j] \notin DOMAIN next_node PROVE FALSE
    OBVIOUS
  <2> DEFINE T == {k \in Nat : j - 1 + k <= N => w[j - 1 + k] = w[j - 1]}
  <2>1. n[j] = w[j - 1][1] /\ j - 1 \in Nat
    BY <1>6, <1>8
  <2>2. 0 \in T
    BY <2>1
  <2>3. ASSUME NEW k \in Nat, k \in T PROVE k + 1 \in T
    <3> SUFFICES ASSUME j - 1 + (k + 1) <= N PROVE w[j - 1 + (k + 1)] = w[j - 1]
      OBVIOUS
    <3> DEFINE l == j - 1 + (k + 1)
    <3>1. l \in 1..N /\ l - 1 = j - 1 + k /\ j - 1 + k <= N
      BY <1>1, <2>1
    <3>2. w[l - 1] = w[j - 1]
      BY <2>3, <3>1
    <3>3. w[l] = WalkStep(r, w[j - 1])
      <4> HIDE DEF l
      <4> QED BY <1>2, <3>1, <3>2 DEF Walks
    <3>4. WalkStep(r, w[j - 1]) = w[j - 1]
      BY <2>1 DEF WalkStep
    <3> QED BY <3>3, <3>4
  <2>4. m - (j - 1) \in Nat
    BY <1>6
  <2>5. m - (j - 1) \in T
    <3> HIDE DEF T
    <3> QED BY <2>2, <2>3, <2>4, AllNaturals
  <2>6. w[m] = w[j - 1]
    <3>1. j - 1 + (m - (j - 1)) = m /\ m <= N
      BY <1>1, <1>6
    <3> QED BY <2>5, <3>1
  <2> QED BY <1>6, <1>11, <2>1, <2>6
<1>13. ASSUME NEW j \in 1..m
       PROVE  w[j] = <<ahead_on_course(n[j], r.course, w[j - 1][2]),
                       w[j - 1][2] + IF is_switch(graph.elements[n[j][1]]) THEN 1 ELSE 0>>
  <2>1. w[j] = WalkStep(r, w[j - 1]) /\ n[j] = w[j - 1][1]
    <3>1. j \in 1..N /\ j \in 1..(m + 1)
      BY <1>1, <1>6
    <3> QED BY <1>2, <1>8, <3>1 DEF Walks
  <2>2. n[j] # last_node_of(r) /\ n[j] \in DOMAIN next_node
    BY <1>11, <1>12
  <2> QED BY <2>1, <2>2 DEF WalkStep
<1>14. ASSUME NEW j \in 0..m PROVE w[j][2] = 1 + Cardinality(Switches(n, j))
  <2> DEFINE T == {k \in Nat : k <= m => w[k][2] = 1 + Cardinality(Switches(n, k))}
  <2>1. 0 \in T
    <3>1. w[0] = <<get_border_node(r.start, TRUE), 1>>
      BY <1>2 DEF Walks
    <3>2. Cardinality(Switches(n, 0)) = 0
      BY OneMoreSwitch
    <3> QED BY <3>1, <3>2
  <2>2. ASSUME NEW k \in Nat, k \in T PROVE k + 1 \in T
    <3> SUFFICES ASSUME k + 1 <= m
                 PROVE  w[k + 1][2] = 1 + Cardinality(Switches(n, k + 1))
      OBVIOUS
    <3> DEFINE c == IF is_switch(graph.elements[n[k + 1][1]]) THEN 1 ELSE 0
               a == ahead_on_course(n[k + 1], r.course, w[k][2])
    <3>1. w[k][2] = 1 + Cardinality(Switches(n, k))
      BY <1>6, <2>2
    <3>2. k + 1 \in 1..m /\ (k + 1) - 1 = k
      BY <1>6
    <3>3. w[k + 1] = <<a, w[k][2] + c>>
      BY <1>13, <3>2
    <3>4. Cardinality(Switches(n, k + 1)) = Cardinality(Switches(n, k)) + c
          /\ Cardinality(Switches(n, k)) \in Nat
      BY OneMoreSwitch
    <3>5. c \in Nat
      OBVIOUS
    <3> HIDE DEF c, a
    <3> QED BY <3>1, <3>3, <3>4, <3>5
  <2>3. j \in T
    <3> HIDE DEF T
    <3> QED BY <1>6, <2>1, <2>2, AllNaturals
  <2> QED BY <2>3
<1>15. ASSUME NEW j \in 1..m
       PROVE  n[j + 1] = ahead_on_course(n[j], r.course,
                                         1 + Cardinality(Switches(n, j - 1)))
  <2>1. j + 1 \in 1..(m + 1) /\ (j + 1) - 1 = j /\ j - 1 \in 0..m
    BY <1>6
  <2>2. n[j + 1] = w[j][1]
    BY <1>8, <2>1
  <2>3. w[j - 1][2] = 1 + Cardinality(Switches(n, j - 1))
    BY <1>14, <2>1
  <2> QED BY <1>13, <2>2, <2>3
<1>16. (m + 1) - 1 = m /\ m + 1 \in Nat \ {0}
  BY <1>6
<1> QED BY <1>7, <1>9, <1>10, <1>12, <1>15, <1>16

\* A path that is made for o is one of r if o and r share their path.
LEMMA SharedPathFollows ==
  ASSUME GraphInv, NodesRight, NEW r, NEW o, IsPossible(r), IsPossible(o), same_path(o, r)
  PROVE  FollowsCourse(r, make_path(o))
<1> DEFINE p == make_path(o)
           n == p.nodes
<1>1. n = get_path(o) /\ p.main_signals = get_main_signals(o, n)
  BY DEF make_path
<1>2. /\ Len(n) \in Nat \ {0} /\ DOMAIN n = 1..Len(n)
      /\ n[1] = get_border_node(o.start, TRUE) /\ n[Len(n)] = last_node_of(o)
      /\ \A j \in 1..(Len(n) - 1) :
           /\ n[j] \in DOMAIN next_node
           /\ n[j + 1] = ahead_on_course(n[j], o.course,
                                         1 + Cardinality(Switches(n, j - 1)))
  <2>1. Arrivals(o) # {} /\ GraphRight(graph)
    BY DEF IsPossible, GraphInv
  <2> QED BY <1>1, <2>1, PathFollows
<1>3. /\ o.start = r.start /\ o.end = r.end /\ o.course = r.course
      /\ omitted_main_signals(o) = omitted_main_signals(r)
  BY DEF same_path
<1> HIDE DEF p
<1>4. \A rp, start : get_border_node(rp, start)[1] = graph.id_of[rp]
  BY DEF get_border_node
<1>5. n[1][1] = graph.id_of[r.start] /\ n[Len(n)][1] = graph.id_of[r.end]
  <2>1. n[1] = get_border_node(r.start, TRUE) /\ n[Len(n)] = get_border_node(r.end, FALSE)
    BY <1>2, <1>3 DEF last_node_of
  <2> QED BY ONLY <1>4, <2>1
<1>6. ASSUME NEW j \in 1..(Len(n) - 1)
      PROVE  n[j + 1] = IF branch_node[n[j]] # NoNode
                           /\ r.course[Cardinality(Switches(n, j))] # "STEM"
                        THEN branch_node[n[j]] ELSE next_node[n[j]]
  <2> DEFINE c == Cardinality(Switches(n, j - 1))
  <2>1. n[j] \in AllNodes(graph)
    BY <1>2 DEF NodesRight, HasNodes
  <2>2. branch_node[n[j]] # NoNode => is_switch(graph.elements[n[j][1]])
    BY <2>1 DEF NodesRight, HasNodes
  <2>3. j - 1 \in Nat /\ (j - 1) + 1 = j
    BY <1>2
  <2>4. is_switch(graph.elements[n[j][1]]) => Cardinality(Switches(n, j)) = c + 1 /\ c \in Nat
    BY <2>3, OneMoreSwitch
  <2>5. n[j + 1] = ahead_on_course(n[j], r.course, 1 + c)
    BY <1>2, <1>3
  <2> HIDE DEF c
  <2>6. branch_node[n[j]] # NoNode => Cardinality(Switches(n, j)) = 1 + c
    BY <2>2, <2>4
  <2> QED BY <2>5, <2>6 DEF ahead_on_course
<1>7. {n[j][1] : j \in Range(p.main_signals)}
        = {n[j][1] : j \in {i \in DOMAIN n : is_type(n[i], "MAIN_SIGNAL")}}
          \ {graph.id_of[rp] : rp \in r.omitted}
  <2> DEFINE S == {k \in DOMAIN n :
                     /\ is_type(n[k], "MAIN_SIGNAL")
                     /\ n[k][1] \notin {graph.id_of[rp] : rp \in omitted_main_signals(o)}}
  <2>1. p.main_signals = SetAsVector(S)
    BY <1>1 DEF get_main_signals, Indices
  <2>2. \A k : k \in Range(p.main_signals) <=> k \in S
    <3>1. S \in SUBSET (1..Len(n)) /\ Len(n) \in Nat
      BY <1>2
    <3> HIDE DEF S
    <3> QED BY <2>1, <3>1, VectorRises
  <2>3. ASSUME NEW rp \in r.omitted, NEW k \in DOMAIN n, is_type(n[k], "MAIN_SIGNAL"),
               n[k][1] = graph.id_of[rp]
        PROVE  rp \in omitted_main_signals(o)
    <3>1. rp \in DOMAIN graph.id_of /\ graph.id_of[rp] # Null
      BY DEF IsPossible, IsKnown
    <3>2. graph.elements[graph.id_of[rp]].type = network.type[rp]
      BY <3>1 DEF GraphInv, GraphRight, TypesRight
    <3>3. network.type[rp] = "MAIN_SIGNAL"
      BY <2>3, <3>2 DEF is_type
    <3> QED BY <1>3, <3>3 DEF omitted_main_signals
  <2>4. omitted_main_signals(o) \subseteq r.omitted
    BY <1>3 DEF omitted_main_signals
  <2>5. ASSUME NEW k
        PROVE  k \in S <=> /\ k \in DOMAIN n /\ is_type(n[k], "MAIN_SIGNAL")
                           /\ n[k][1] \notin {graph.id_of[rp] : rp \in r.omitted}
    BY <2>3, <2>4
  <2> HIDE DEF S
  <2> QED BY <2>2, <2>5
<1>9. ASSUME NEW j \in 1..(Len(n) - 1)
      PROVE  j \in {i \in 1..(Len(n) - 1) : branch_node[n[i]] # NoNode}
               <=> branch_node[n[j]] # NoNode
  OBVIOUS
<1>10. \A j \in 1..(Len(n) - 1) :
         n[j + 1] = IF /\ j \in {i \in 1..(Len(n) - 1) : branch_node[n[i]] # NoNode}
                       /\ r.course[Cardinality(Switches(n, j))] # "STEM"
                    THEN branch_node[n[j]] ELSE next_node[n[j]]
  BY <1>6, <1>9
<1>11. FollowsCourse(r, p)
  BY ONLY <1>5, <1>7, <1>10 DEF FollowsCourse, Switches
<1> QED BY <1>11 DEF p

\* The same of any graph.
CourseOn(g, next, branch, r, path) ==
  LET n     == path.nodes
      forks == {j \in 1..(Len(n) - 1) : branch[n[j]] # NoNode}
      passed(j) == Cardinality({i \in 1..j : is_switch(g.elements[n[i][1]])})
  IN  /\ n[1][1] = g.id_of[r.start]
      /\ n[Len(n)][1] = g.id_of[r.end]
      /\ \A j \in 1..(Len(n) - 1) :
           n[j + 1] = IF j \in forks /\ r.course[passed(j)] # "STEM"
                      THEN branch[n[j]] ELSE next[n[j]]
      /\ {n[j][1] : j \in Range(path.main_signals)}
           = {n[j][1] : j \in {i \in DOMAIN n : g.elements[n[i][1]].type = "MAIN_SIGNAL"}}
             \ {g.id_of[rp] : rp \in r.omitted}

\* Each route has the path of the first one that shares it.
LEMMA PathsOfOwners ==
  ASSUME network \in Networks, calculate_station_routes
  PROVE  /\ DOMAIN station_routes' = DOMAIN intermediate
         /\ \A k \in DOMAIN intermediate :
              /\ IsPossible(intermediate[k])
              /\ \E j \in DOMAIN intermediate :
                   /\ same_path(intermediate[j], intermediate[k])
                   /\ station_routes'[k].path = make_path(intermediate[j])
<1> DEFINE n == Len(intermediate)
<1>1. /\ \A r \in Range(intermediate) : IsPossible(r)
      /\ station_routes' = [k \in DOMAIN intermediate |->
                              make_station_route(intermediate[k], paths'[k])]
      /\ paths' = get_station_route_paths
      /\ UNCHANGED <<graph, network>>
  BY DEF calculate_station_routes, graph_vars
<1>2. n \in Nat /\ DOMAIN intermediate = 1..n
  BY IntermediateTyped
<1>3. ASSUME NEW k \in 1..n
      PROVE  /\ path_owner(k) \in 1..n
             /\ same_path(intermediate[path_owner(k)], intermediate[k])
             /\ paths'[k] = make_path(intermediate[path_owner(k)])
  <2>1. path_owner(k) \in 1..k /\ same_path(intermediate[path_owner(k)], intermediate[k])
    BY OwnerTyped, <1>2
  <2>2. path_owner(k) \in 1..n
    BY <1>2, <2>1
  <2>3. paths'[k] = make_path(intermediate[path_owner(k)])
    BY <1>1, <1>2, <2>2 DEF get_station_route_paths
  <2> QED BY <2>1, <2>2, <2>3
<1>4. ASSUME NEW k \in 1..n PROVE station_routes'[k].path = paths'[k]
  BY <1>1, <1>2 DEF make_station_route
<1>5. ASSUME NEW k \in 1..n PROVE IsPossible(intermediate[k])
  BY <1>1, <1>2 DEF Range
<1> HIDE DEF n
<1> QED BY <1>1, <1>2, <1>3, <1>4, <1>5

\* A path is one of a route as long as the graph is the same.
LEMMA SamePaths ==
  ASSUME UNCHANGED graph_vars, NEW r, NEW path, FollowsCourse(r, path)
  PROVE  FollowsCourse(r, path)'
<1>1. /\ graph' = graph /\ network' = network
      /\ next_node' = next_node /\ branch_node' = branch_node
  BY DEF graph_vars
<1>2. CourseOn(graph, next_node, branch_node, r, path)
  BY DEF FollowsCourse, CourseOn, is_type
<1>3. CourseOn(graph', next_node', branch_node', r, path)
  BY <1>1, <1>2
<1> QED BY <1>3 DEF FollowsCourse, CourseOn, is_type

\* The routes to be made are those of the rail plan.
LEMMA SamePlan ==
  ASSUME network' = network
  PROVE  intermediate' = intermediate
<1> DEFINE f(plan) == Selected(plan.routes, LAMBDA r : ~r.publish_only)
<1>1. intermediate = f(network) /\ intermediate' = f(network')
  BY DEF intermediate, Selected, Indices
<1> HIDE DEF f
<1> QED BY <1>1

\* No step makes a path that is not its route's, or changes one.
LEMMA PathsStep ==
  ASSUME GraphInv, PathsFollowCourses, [TimetableNext \/ Parsed]_vars
  PROVE  PathsFollowCourses'
<1>1. CASE calculate_station_routes
  <2>1. stage = "routes" /\ UNCHANGED graph_vars
    BY <1>1 DEF calculate_station_routes
  <2>2. network \in Networks /\ NodesRight
    BY <2>1 DEF GraphInv, GraphStages
  <2>3. intermediate' = intermediate
    BY <2>1, SamePlan DEF graph_vars
  <2>4. ASSUME NEW k \in DOMAIN intermediate, NEW r, r = intermediate[k],
               NEW path, path = station_routes'[k].path
        PROVE  FollowsCourse(r, path)'
    <3>1. PICK j \in DOMAIN intermediate :
            same_path(intermediate[j], r) /\ path = make_path(intermediate[j])
      BY <1>1, <2>2, <2>4, PathsOfOwners
    <3>2. IsPossible(r) /\ IsPossible(intermediate[j])
      BY <1>1, <2>2, <2>4, PathsOfOwners
    <3>3. FollowsCourse(r, path)
      BY <2>2, <3>1, <3>2, SharedPathFollows
    <3> QED BY <2>1, <3>3, SamePaths
  <2>5. DOMAIN station_routes' = DOMAIN intermediate
    BY <1>1, <2>2, PathsOfOwners
  <2>6. \A k \in DOMAIN station_routes' :
          FollowsCourse(intermediate[k], station_routes[k].path)'
    <3> SUFFICES ASSUME NEW k \in DOMAIN station_routes'
                 PROVE  FollowsCourse(intermediate[k], station_routes[k].path)'
      OBVIOUS
    <3>1. PICK r : r = intermediate'[k]
      OBVIOUS
    <3>2. PICK path : path = station_routes'[k].path
      OBVIOUS
    <3>3. FollowsCourse(r, path)'
      BY <2>3, <2>4, <2>5, <3>1, <3>2
    <3>4. CourseOn(graph', next_node', branch_node', r, path)
      BY <3>3 DEF FollowsCourse, CourseOn, is_type
    <3>5. CourseOn(graph', next_node', branch_node', intermediate'[k],
                   station_routes'[k].path)
      BY <3>1, <3>2, <3>4
    <3> QED BY <3>5 DEF FollowsCourse, CourseOn, is_type
  <2> QED BY <2>6 DEF PathsFollowCourses
<1> DEFINE Elsewhere == stage' # "station_route_graph"
<1>2. Elsewhere => PathsFollowCourses'
  BY DEF PathsFollowCourses
<1>3. CASE UNCHANGED infrastructure_vars
  <2>1. /\ UNCHANGED graph_vars /\ stage' = stage
        /\ station_routes' = station_routes /\ network' = network
    BY <1>3 DEF infrastructure_vars, graph_vars, route_vars
  <2>2. intermediate' = intermediate
    BY <2>1, SamePlan
  <2>3. ASSUME NEW k \in DOMAIN station_routes,
               FollowsCourse(intermediate[k], station_routes[k].path)
        PROVE  FollowsCourse(intermediate[k], station_routes[k].path)'
    <3>1. CourseOn(graph, next_node, branch_node, intermediate[k], station_routes[k].path)
      BY <2>3 DEF FollowsCourse, CourseOn, is_type
    <3>2. CourseOn(graph', next_node', branch_node', intermediate'[k],
                   station_routes'[k].path)
      BY <2>1, <2>2, <3>1 DEF graph_vars
    <3> QED BY <3>2 DEF FollowsCourse, CourseOn, is_type
  <2>4. stage = "station_route_graph" =>
          \A k \in DOMAIN station_routes :
            FollowsCourse(intermediate[k], station_routes[k].path)'
    BY <2>3 DEF PathsFollowCourses
  <2> QED BY <2>1, <2>4 DEF PathsFollowCourses
<1>4. CASE parse_section \/ complete_borders \/ connect_all_nodes \/ get_station_route_graph
  <2>1. Elsewhere
    BY <1>4 DEF parse_section, complete_borders, connect_all_nodes, get_station_route_graph
  <2> QED BY <1>2, <2>1
<1>5. CASE start_station_route \/ fill_paths \/ finish_station_route \/ get_interlocking
  <2>1. Elsewhere
    BY <1>5 DEF start_station_route, fill_paths, finish_station_route, get_interlocking
  <2> QED BY <1>2, <2>1
<1>6. ASSUME NEW t \in Threads, generate_used_by(t) PROVE PathsFollowCourses'
  <2>1. Elsewhere
    BY <1>6 DEF generate_used_by
  <2> QED BY <1>2, <2>1
<1>7. CASE open_directory \/ finish_timetable
  <2>1. Elsewhere
    BY <1>7 DEF open_directory, reject, finish_timetable
  <2> QED BY <1>2, <2>1
<1>8. ASSUME NEW p \in Parsers,
             take_item(p) \/ parse_train(p) \/ crash(p) \/ finish_item(p)
      PROVE  PathsFollowCourses'
  <2>1. Elsewhere
    BY <1>8 DEF take_item, parse_train, crash, finish_item
  <2> QED BY <1>2, <2>1
<1>9. CASE InterlockingNext
  BY <1>1, <1>4, <1>5, <1>9 DEF InterlockingNext, RoutesNext, GraphNext
<1>10. CASE start_threads \/ combine_thread_results
            \/ get_exclusion_graph \/ read_exclusion_sets
  <2>1. Elsewhere
    BY <1>10 DEF start_threads, combine_thread_results,
                 get_exclusion_graph, read_exclusion_sets
  <2> QED BY <1>2, <2>1
<1>11. CASE Complete \/ UNCHANGED vars
  BY <1>3, <1>11 DEF Complete, vars
<1> QED BY <1>6, <1>7, <1>8, <1>9, <1>10, <1>11 DEF TimetableNext, ExclusionNext, Parsed

(***************************************************************************)
(* The path of every station route follows its course, in any rail plan    *)
(* (parse_iss.cc:536).                                                     *)
(***************************************************************************)
THEOREM EveryPathFollowsItsCourse == TimetableSpec => []PathsFollowCourses
<1>1. TimetableInit => PathsFollowCourses
  BY DEF TimetableInit, ExclusionInit, InterlockingInit, RoutesInit, GraphInit,
         PathsFollowCourses
<1>2. TimetableInit => GraphInv
  BY GraphInitRight
<1> QED BY <1>1, <1>2, GraphStep, PathsStep, PTL DEF TimetableSpec

-----------------------------------------------------------------------------
(***************************************************************************)
(* multi_set_merge, of lists of users: the result has exactly the members  *)
(* of the lists.                                                           *)
(***************************************************************************)
\* The range at the top of the queue has the least head.
LEMMA TopRight ==
  ASSUME NEW N, NEW R, IsRanges(R, N), NEW at, queue(R, at) # {},
         \A k \in DOMAIN R : at[k] \in 1..(Len(R[k]) + 1)
  PROVE  LET t == top(R, at) IN
         /\ t \in DOMAIN R /\ at[t] \in 1..Len(R[t])
         /\ \A k \in DOMAIN R : \A p \in 1..Len(R[k]) :
              p >= at[k] => R[t][at[t]] <= R[k][p]
<1> DEFINE Q == queue(R, at)
           t == top(R, at)
           heads == {R[k][at[k]] : k \in Q}
           P(k) == \A j \in Q : R[k][at[k]] <= R[j][at[j]]
<1>1. ASSUME NEW k \in Q PROVE k \in DOMAIN R /\ at[k] \in 1..Len(R[k])
  BY RangeFacts DEF queue
<1>2. ASSUME NEW k \in Q PROVE R[k][at[k]] \in Nat
  BY <1>1, RangeFacts
<1>3. heads \in SUBSET Nat /\ heads # {}
  BY <1>2
<1>4. PICK x \in heads : \A y \in heads : x <= y
  <2> HIDE DEF heads
  <2> QED BY <1>3, LeastNat
<1>5. \E k \in Q : P(k)
  BY <1>4
<1>6. t = CHOOSE k \in Q : P(k)
  BY DEF top
<1>7. t \in Q /\ P(t)
  <2> HIDE DEF Q, P, t
  <2> QED BY <1>5, <1>6
<1>8. t \in DOMAIN R /\ at[t] \in 1..Len(R[t])
  BY <1>1, <1>7
<1>9. ASSUME NEW k \in DOMAIN R, NEW p \in 1..Len(R[k]), p >= at[k]
      PROVE  R[t][at[t]] <= R[k][p]
  <2>1. at[k] \in 1..Len(R[k])
    BY <1>9, RangeFacts
  <2>2. k \in Q
    BY <2>1, RangeFacts DEF queue
  <2>3. R[t][at[t]] <= R[k][at[k]]
    BY <1>7, <2>2
  <2>4. R[k][at[k]] <= R[k][p]
    <3>1. at[k] < p => R[k][at[k]] < R[k][p]
      BY <2>1, <1>9, RangeFacts
    <3>2. R[k][at[k]] \in Nat /\ R[k][p] \in Nat
      BY <2>1, RangeFacts
    <3>3. at[k] < p \/ at[k] = p
      BY <1>9, <2>1
    <3> QED BY <3>1, <3>2, <3>3
  <2>5. R[t][at[t]] \in Nat /\ R[k][at[k]] \in Nat /\ R[k][p] \in Nat
    BY <1>8, <2>1, RangeFacts
  <2> QED BY <2>3, <2>4, <2>5
<1> QED BY <1>8, <1>9 DEF t

\* A step keeps what holds of the merge, and comes further in one range.
LEMMA MergeStepRight ==
  ASSUME NEW N, NEW R, IsRanges(R, N), NEW m, MergeOK(R, m), queue(R, m.at) # {},
         NEW t, t = top(R, m.at), NEW m2, m2 = merge_step(R, m)
  PROVE  /\ MergeOK(R, m2) /\ t \in DOMAIN R /\ m.at[t] \in 1..Len(R[t])
         /\ m2.at[t] > m.at[t] /\ \A k \in DOMAIN R : k # t => m2.at[k] = m.at[k]
<1> DEFINE head   == R[t][m.at[t]]
           result == IF head > Last(m.result) THEN Append(m.result, head) ELSE m.result
           beyond == {p \in m.at[t]..Len(R[t]) : R[t][p] > Last(result)}
           next   == IF beyond = {} THEN Len(R[t]) + 1 ELSE Min(beyond)
<1>1. m2 = [result |-> result, at |-> [m.at EXCEPT ![t] = next]]
  BY DEF merge_step
<1>2. /\ t \in DOMAIN R /\ m.at[t] \in 1..Len(R[t])
      /\ \A k \in DOMAIN R : \A p \in 1..Len(R[k]) : p >= m.at[k] => head <= R[k][p]
  BY TopRight DEF MergeOK
<1>3. head \in Nat
  BY <1>2, RangeFacts
<1>4. /\ m.result \in Seq(Nat) /\ Len(m.result) \in Nat /\ Len(m.result) # 0
  BY DEF MergeOK
<1> HIDE DEF head
<1>14. /\ head > Last(m.result) => result = Append(m.result, head)
       /\ ~(head > Last(m.result)) => result = m.result
  OBVIOUS
<1> HIDE DEF result
<1>15. \A p : p \in beyond <=> p \in m.at[t]..Len(R[t]) /\ R[t][p] > Last(result)
  OBVIOUS
<1> HIDE DEF beyond
<1>16. /\ beyond = {} => next = Len(R[t]) + 1
       /\ beyond # {} => next = Min(beyond)
  OBVIOUS
<1> HIDE DEF next
<1>5. /\ result \in Seq(Nat) /\ Len(result) \in Nat /\ Len(result) # 0
      /\ \A v : IsIn(v, m.result) => IsIn(v, result)
      /\ \A v : IsIn(v, result) => v = head \/ IsIn(v, m.result)
      /\ Last(m.result) \in Nat /\ Last(result) \in Nat /\ head <= Last(result)
      /\ head > Last(m.result) => Last(result) = head /\ IsIn(head, result)
      /\ ~(head > Last(m.result)) => result = m.result
  BY <1>3, <1>4, <1>14, ResultGrows
<1>6. /\ Len(R[t]) \in Nat /\ \A p \in 1..Len(R[t]) : R[t][p] \in Nat
  BY <1>2, RangeFacts
<1>7. /\ next \in 1..(Len(R[t]) + 1) /\ next > m.at[t]
      /\ \A p \in m.at[t]..Len(R[t]) : p < next => R[t][p] <= Last(result)
  <2>1. R[t][m.at[t]] <= Last(result)
    BY <1>5 DEF head
  <2> DEFINE s == R[t]
             a == m.at[t]
             n == Len(s)
             bound == Last(result)
  <2>2. n \in Nat /\ a \in 1..n /\ bound \in Nat /\ s[a] <= bound
    BY <1>2, <1>5, <1>6, <2>1
  <2>3. \A p \in 1..n : s[p] \in Nat
    BY <1>6
  <2>4. \A p : p \in beyond <=> p \in a..n /\ s[p] > bound
    BY <1>15
  <2>5. (beyond = {} => next = n + 1) /\ (beyond # {} => next = Min(beyond))
    BY <1>16
  <2> HIDE DEF s, a, n, bound
  <2>6. /\ next \in 1..(n + 1) /\ next > a
        /\ \A p \in a..n : p < next => s[p] <= bound
    BY <2>2, <2>3, <2>4, <2>5, BeyondRight
  <2> QED BY <2>6 DEF s, a, n, bound
<1>8. /\ m2.result = result /\ m2.at[t] = next /\ m2.at = [k \in DOMAIN R |-> m2.at[k]]
      /\ \A k \in DOMAIN R : k # t => m2.at[k] = m.at[k]
  <2>1. m.at = [k \in DOMAIN R |-> m.at[k]]
    BY DEF MergeOK
  <2>2. m2.result = result /\ m2.at = [m.at EXCEPT ![t] = next]
    BY <1>1 DEF result, next, beyond, head
  <2> QED BY <1>2, <2>1, <2>2
<1>9. \A k \in DOMAIN R : m2.at[k] \in 1..(Len(R[k]) + 1)
  BY <1>7, <1>8 DEF MergeOK
<1>10. ASSUME NEW j \in 1..Len(result)
       PROVE  \E k \in DOMAIN R : \E p \in 1..Len(R[k]) : result[j] = R[k][p]
  <2>1. IsIn(result[j], result)
    BY DEF IsIn
  <2>2. CASE result[j] = head
    BY <1>2, <2>2 DEF head
  <2>3. CASE IsIn(result[j], m.result)
    <3>1. PICK i \in 1..Len(m.result) : m.result[i] = result[j]
      BY <2>3 DEF IsIn
    <3>2. \E k \in DOMAIN R : \E p \in 1..Len(R[k]) : m.result[i] = R[k][p]
      BY DEF MergeOK
    <3> QED BY <3>1, <3>2
  <2> QED BY <1>5, <2>1, <2>2, <2>3
<1>11. ASSUME NEW k \in DOMAIN R, NEW p \in 1..Len(R[k]), R[k][p] <= Last(result)
       PROVE  IsIn(R[k][p], result)
  <2>1. R[k][p] \in Nat
    BY RangeFacts
  <2>2. CASE R[k][p] <= Last(m.result) \/ p < m.at[k]
    BY <1>5, <2>2 DEF MergeOK
  <2>3. CASE ~(R[k][p] <= Last(m.result)) /\ ~(p < m.at[k])
    <3>1. p >= m.at[k]
      BY <2>3 DEF MergeOK
    <3>2. head <= R[k][p]
      BY <1>2, <3>1
    <3>3. head > Last(m.result)
      BY <1>3, <1>5, <2>1, <2>3, <1>11
    <3>4. R[k][p] = head
      BY <1>3, <1>5, <2>1, <3>2, <3>3, <1>11
    <3> QED BY <1>5, <3>3, <3>4
  <2> QED BY <2>2, <2>3
<1>12. ASSUME NEW k \in DOMAIN R, NEW p \in 1..Len(R[k]), p < m2.at[k]
       PROVE  IsIn(R[k][p], result)
  <2>1. CASE p < m.at[k]
    BY <1>5, <2>1 DEF MergeOK
  <2>2. CASE ~(p < m.at[k])
    <3>1. m.at[k] \in Nat
      BY DEF MergeOK
    <3>2. k = t /\ p \in m.at[t]..Len(R[t])
      BY <1>8, <1>12, <2>2, <3>1, <1>6
    <3>3. R[k][p] <= Last(result)
      BY <1>7, <1>8, <1>12, <3>2
    <3> QED BY <1>11, <3>3
  <2> QED BY <2>1, <2>2
<1>13. MergeOK(R, m2)
  BY <1>5, <1>8, <1>9, <1>10, <1>11, <1>12 DEF MergeOK
<1> QED BY <1>2, <1>7, <1>8, <1>13

\* f is the merge, step by step.
Merges(f, n, R) ==
  /\ f = [i \in 0..n |-> f[i]] /\ f[0] = first_merge(R)
  /\ \A i \in 1..n : f[i] = merge_step(R, f[i - 1])

\* There is a merge of any length: the model names it by CHOOSE.
LEMMA MergeExists ==
  ASSUME NEW n \in Nat, NEW R
  PROVE  \E f : Merges(f, n, R)
<1> DEFINE T == {k \in Nat : \E f : Merges(f, k, R)}
<1>1. 0 \in T
  <2> DEFINE first == first_merge(R)
             f == [k \in 0..0 |-> first]
  <2>1. f = [k \in 0..0 |-> f[k]] /\ f[0] = first
    OBVIOUS
  <2>2. 1..0 = {}
    OBVIOUS
  <2> HIDE DEF f
  <2>3. Merges(f, 0, R)
    BY <2>1, <2>2 DEF Merges
  <2> QED BY <2>3
<1>2. ASSUME NEW k \in Nat, k \in T PROVE k + 1 \in T
  <2>1. PICK f : Merges(f, k, R)
    BY <1>2
  <2> DEFINE step(x) == merge_step(R, x)
             g == [j \in 0..(k + 1) |-> IF j \in 0..k THEN f[j] ELSE step(f[k])]
  <2> HIDE DEF step
  <2>2. g[0] = f[0]
    OBVIOUS
  <2>3. ASSUME NEW j \in 1..(k + 1) PROVE g[j] = step(g[j - 1])
    <3>1. CASE j \in 1..k
      <4>1. g[j] = f[j] /\ g[j - 1] = f[j - 1]
        BY <3>1
      <4> QED BY <2>1, <3>1, <4>1 DEF Merges, step
    <3>2. CASE j = k + 1
      <4>1. g[j - 1] = f[k]
        BY <3>2
      <4>2. g[j] = step(f[k])
        BY <3>2
      <4> QED BY <4>1, <4>2
    <3> QED BY <3>1, <3>2
  <2>4. g = [j \in 0..(k + 1) |-> g[j]]
    OBVIOUS
  <2> HIDE DEF g
  <2>5. Merges(g, k + 1, R)
    BY <2>1, <2>2, <2>3, <2>4 DEF Merges, step
  <2> QED BY <2>5
<1>3. n \in T
  <2> HIDE DEF T
  <2> QED BY <1>1, <1>2, AllNaturals
<1> QED BY <1>3

\* The first result is the least member.
LEMMA FirstMergeOK ==
  ASSUME NEW N, NEW R, IsRanges(R, N), DOMAIN R # {}
  PROVE  MergeOK(R, first_merge(R))
<1> DEFINE first == [k \in DOMAIN R |-> 1]
           t == top(R, first)
           m == first_merge(R)
<1>1. m = [result |-> <<R[t][1]>>, at |-> first]
  BY DEF first_merge
<1>2. \A k \in DOMAIN R : first[k] \in 1..Len(R[k])
  BY RangeFacts
<1>3. queue(R, first) # {}
  BY <1>2, RangeFacts DEF queue
<1>4. \A k \in DOMAIN R : first[k] \in 1..(Len(R[k]) + 1)
  BY RangeFacts
<1>5. /\ t \in DOMAIN R
      /\ \A k \in DOMAIN R : \A p \in 1..Len(R[k]) :
           p >= first[k] => R[t][first[t]] <= R[k][p]
  BY <1>3, <1>4, TopRight
<1>6. 1 \in 1..Len(R[t]) /\ R[t][1] \in Nat
  BY <1>5, RangeFacts
<1>7. \A k \in DOMAIN R : \A p \in 1..Len(R[k]) : R[t][1] <= R[k][p]
  BY <1>5, RangeFacts
<1> DEFINE v == R[t][1]
           s == <<v>>
<1>8. s \in Seq(Nat) /\ Len(s) = 1 /\ s[1] = v /\ Last(s) = v
  BY <1>6 DEF Last
<1>9. m.at = first /\ m.result = s
  BY <1>1
<1> HIDE DEF t, m
<1>10. ASSUME NEW k \in DOMAIN R, NEW p \in 1..Len(R[k]), R[k][p] <= v
       PROVE  IsIn(R[k][p], s)
  <2>1. R[k][p] \in Nat /\ v <= R[k][p]
    BY <1>7, RangeFacts
  <2>2. R[k][p] = v
    BY <2>1, <1>6, <1>10
  <2>3. 1 \in 1..Len(s) /\ s[1] = v
    BY <1>8
  <2> HIDE DEF s, v
  <2> QED BY <2>2, <2>3 DEF IsIn
<1>11. ASSUME NEW j \in 1..Len(s)
       PROVE  \E k \in DOMAIN R : \E p \in 1..Len(R[k]) : s[j] = R[k][p]
  <2>1. j = 1
    BY <1>8
  <2> QED BY <1>5, <1>6, <1>8, <2>1
<1>12. \A k \in DOMAIN R : \A p \in 1..Len(R[k]) : ~(p < first[k])
  OBVIOUS
<1> HIDE DEF s, v
<1>13. first = [k \in DOMAIN R |-> first[k]]
  OBVIOUS
<1> HIDE DEF first
<1>14. Len(s) \in Nat /\ Len(s) # 0
  BY <1>8
<1>15. \A k \in DOMAIN R : \A p \in 1..Len(R[k]) :
         p < first[k] \/ R[k][p] <= Last(s) => IsIn(R[k][p], s)
  BY <1>8, <1>10, <1>12
<1>16. \A j \in 1..Len(s) : \E k \in DOMAIN R : \E p \in 1..Len(R[k]) : s[j] = R[k][p]
  BY <1>11
<1>17. MergeOK(R, m)
  BY <1>4, <1>8, <1>9, <1>13, <1>14, <1>15, <1>16 DEF MergeOK
<1> QED BY <1>17 DEF m

\* The places the merge has not passed.
Left(R, m) == {x \in places(R) : x[2] >= m.at[x[1]]}

\* There are finitely many places.
LEMMA PlacesFinite ==
  ASSUME NEW N, NEW R, IsRanges(R, N)
  PROVE  /\ IsFiniteSet(places(R)) /\ Cardinality(places(R)) \in Nat
         /\ \A x \in places(R) : x[1] \in DOMAIN R /\ x[2] \in 1..Len(R[x[1]])
                                 /\ x = <<x[1], x[2]>>
         /\ \A k \in DOMAIN R : \A p \in 1..Len(R[k]) : <<k, p>> \in places(R)
<1> DEFINE m == [k \in DOMAIN R |-> Len(R[k])]
<1>1. \A k \in DOMAIN R : DOMAIN R[k] = 1..Len(R[k]) /\ Len(R[k]) \in Nat
  BY RangeFacts
<1>2. ASSUME NEW x
      PROVE  x \in places(R) <=> \E k \in DOMAIN R : \E p \in 1..Len(R[k]) : x = <<k, p>>
  BY <1>1 DEF places
<1>3. IsFiniteSet(DOMAIN R)
  BY FS_Interval DEF IsRanges
<1>4. IsFiniteSet(Pairs(DOMAIN R, m))
  BY <1>1, <1>3, PairsFinite
<1>5. \A x \in places(R) : x \in Pairs(DOMAIN R, m)
  BY <1>2, PairsHas
<1>6. IsFiniteSet(places(R))
  <2>1. places(R) \subseteq Pairs(DOMAIN R, m)
    BY <1>5
  <2> QED BY <1>4, <2>1, FS_Subset
<1>7. \A x \in places(R) : x[1] \in DOMAIN R /\ x[2] \in 1..Len(R[x[1]]) /\ x = <<x[1], x[2]>>
  BY <1>2
<1> QED BY <1>2, <1>6, <1>7, FS_CardinalityType

\* A step passes a place.
LEMMA LeftShrinks ==
  ASSUME NEW N, NEW R, IsRanges(R, N), NEW m, MergeOK(R, m), queue(R, m.at) # {},
         NEW m2, m2 = merge_step(R, m)
  PROVE  /\ Cardinality(Left(R, m)) \in Nat /\ Cardinality(Left(R, m2)) \in Nat
         /\ Cardinality(Left(R, m2)) < Cardinality(Left(R, m))
<1>1. PICK t : t = top(R, m.at)
  OBVIOUS
<1>2. /\ MergeOK(R, m2) /\ t \in DOMAIN R /\ m.at[t] \in 1..Len(R[t])
      /\ m2.at[t] > m.at[t] /\ \A k \in DOMAIN R : k # t => m2.at[k] = m.at[k]
  BY <1>1, MergeStepRight
<1> DEFINE x == <<t, m.at[t]>>
           L == Left(R, m)
           L2 == Left(R, m2)
<1>3. x \in L
  <2>1. x \in places(R) /\ m.at[t] \in Nat
    BY <1>2, PlacesFinite
  <2> QED BY <2>1 DEF Left
<1>4. IsFiniteSet(L) /\ IsFiniteSet(L2)
  <2>1. L \subseteq places(R) /\ L2 \subseteq places(R)
    BY DEF Left
  <2> QED BY <2>1, PlacesFinite, FS_Subset
<1>5. ASSUME NEW y \in L2 PROVE y \in L \ {x}
  <2>1. /\ y \in places(R) /\ y[1] \in DOMAIN R /\ y[2] \in Nat /\ y[2] >= m2.at[y[1]]
    BY PlacesFinite DEF Left
  <2>2. m.at[y[1]] \in Nat /\ m2.at[y[1]] \in Nat
    BY <1>2, <2>1 DEF MergeOK
  <2>3. CASE y[1] = t
    <3>1. y[2] > m.at[y[1]]
      BY <1>2, <2>1, <2>2, <2>3
    <3>2. y[2] # m.at[t]
      BY <2>2, <2>1, <2>3, <3>1
    <3>3. y # x
      BY <3>2
    <3> QED BY <2>1, <2>2, <3>1, <3>3 DEF Left
  <2>4. CASE y[1] # t
    <3>1. y # x
      BY <2>4
    <3> QED BY <1>2, <2>1, <2>4, <3>1 DEF Left
  <2> QED BY <2>3, <2>4
<1> HIDE DEF x, L, L2
<1>6. /\ IsFiniteSet(L \ {x}) /\ Cardinality(L \ {x}) = Cardinality(L) - 1
  BY <1>3, <1>4, FS_RemoveElement
<1>7. Cardinality(L2) <= Cardinality(L \ {x})
  <2>1. L2 \subseteq L \ {x}
    BY <1>5
  <2> QED BY <1>6, <2>1, FS_Subset
<1>8. Cardinality(L) \in Nat /\ Cardinality(L2) \in Nat
  BY <1>4, FS_CardinalityType
<1> QED BY <1>6, <1>7, <1>8 DEF L, L2

\* As many steps as there are places are enough.
LEMMA MergesRight ==
  ASSUME NEW N, NEW R, IsRanges(R, N), DOMAIN R # {},
         NEW n, n = Cardinality(places(R)), NEW f, Merges(f, n, R)
  PROVE  MergeOK(R, f[n]) /\ queue(R, f[n].at) = {}
<1> DEFINE card(m) == Cardinality(Left(R, m))
           Done(m) == queue(R, m.at) = {}
           P(i) == MergeOK(R, f[i]) /\ (Done(f[i]) \/ card(f[i]) + i <= n)
           T == {i \in Nat : i <= n => P(i)}
<1>1. n \in Nat
  BY PlacesFinite
<1>2. ASSUME NEW m PROVE card(m) \in Nat /\ card(m) <= n
  <2>1. Left(R, m) \subseteq places(R)
    BY DEF Left
  <2>2. IsFiniteSet(Left(R, m)) /\ Cardinality(Left(R, m)) <= Cardinality(places(R))
    BY <2>1, PlacesFinite, FS_Subset
  <2> QED BY <2>2, FS_CardinalityType
<1>3. 0 \in T
  <2>1. f[0] = first_merge(R)
    BY DEF Merges
  <2>2. MergeOK(R, f[0])
    BY <2>1, FirstMergeOK
  <2>3. card(f[0]) + 0 <= n
    BY <1>1, <1>2
  <2> HIDE DEF card, Done
  <2> QED BY <2>2, <2>3
<1>4. ASSUME NEW i \in Nat, i \in T PROVE i + 1 \in T
  <2> SUFFICES ASSUME i + 1 <= n PROVE P(i + 1)
    OBVIOUS
  <2>1. P(i)
    BY <1>1, <1>4
  <2>2. f[i + 1] = merge_step(R, f[i])
    <3>1. i + 1 \in 1..n /\ (i + 1) - 1 = i
      BY <1>1
    <3> QED BY <3>1 DEF Merges
  <2>3. CASE Done(f[i])
    <3>1. f[i + 1] = f[i]
      BY <2>2, <2>3 DEF merge_step
    <3> QED BY <2>1, <2>3, <3>1
  <2>4. CASE ~Done(f[i])
    <3>1. MergeOK(R, f[i]) /\ card(f[i]) + i <= n
      BY <2>1, <2>4
    <3>2. MergeOK(R, f[i + 1])
      BY <2>2, <2>4, <3>1, MergeStepRight
    <3>3. card(f[i + 1]) < card(f[i])
      BY <2>2, <2>4, <3>1, LeftShrinks
    <3>4. card(f[i + 1]) \in Nat /\ card(f[i]) \in Nat
      BY <1>2
    <3> HIDE DEF card, Done
    <3> QED BY <1>1, <3>1, <3>2, <3>3, <3>4
  <2> QED BY <2>3, <2>4
<1>5. P(n)
  <2>1. n \in T
    <3> HIDE DEF T
    <3> QED BY <1>1, <1>3, <1>4, AllNaturals
  <2> HIDE DEF P
  <2> QED BY <1>1, <2>1
<1>6. CASE card(f[n]) + n <= n
  <2>1. card(f[n]) = 0
    BY <1>1, <1>2, <1>6
  <2>2. Left(R, f[n]) = {}
    <3>1. IsFiniteSet(Left(R, f[n]))
      <4>1. Left(R, f[n]) \subseteq places(R)
        BY DEF Left
      <4> QED BY <4>1, PlacesFinite, FS_Subset
    <3> QED BY <2>1, <3>1, FS_EmptySet
  <2>3. ASSUME NEW k \in queue(R, f[n].at) PROVE FALSE
    <3>1. k \in DOMAIN R /\ f[n].at[k] \in 1..Len(R[k])
      BY RangeFacts DEF queue
    <3>2. <<k, f[n].at[k]>> \in places(R) /\ f[n].at[k] \in Nat
      BY <3>1, PlacesFinite
    <3>3. <<k, f[n].at[k]>> \in Left(R, f[n])
      BY <3>2 DEF Left
    <3> QED BY <2>2, <3>3
  <2> QED BY <1>5, <2>3
<1> QED BY <1>5, <1>6

\* The merge of ranges has the members of all of them.
LEMMA MergedRanges ==
  ASSUME NEW N, NEW R, IsRanges(R, N), DOMAIN R # {},
         NEW n, n = Cardinality(places(R)), NEW f, Merges(f, n, R), NEW v
  PROVE  v \in Range(f[n].result) <=> \E k \in DOMAIN R : v \in Range(R[k])
<1>1. MergeOK(R, f[n]) /\ queue(R, f[n].at) = {}
  BY MergesRight
<1> DEFINE m == f[n]
           s == m.result
<1>2. s \in Seq(Nat) /\ DOMAIN s = 1..Len(s)
  BY <1>1, LenProperties DEF MergeOK
<1>3. v \in Range(s) <=> IsIn(v, s)
  BY <1>2 DEF Range, IsIn
<1> HIDE DEF m
<1>4. ASSUME IsIn(v, s) PROVE \E k \in DOMAIN R : v \in Range(R[k])
  <2>1. PICK j \in 1..Len(s) : s[j] = v
    BY <1>4 DEF IsIn
  <2>2. PICK k \in DOMAIN R : \E p \in 1..Len(R[k]) : s[j] = R[k][p]
    BY <1>1 DEF MergeOK, m
  <2>3. PICK p \in 1..Len(R[k]) : s[j] = R[k][p]
    BY <2>2
  <2>4. p \in DOMAIN R[k]
    BY RangeFacts
  <2> QED BY <2>1, <2>3, <2>4 DEF Range
<1>5. ASSUME NEW k \in DOMAIN R, v \in Range(R[k]) PROVE IsIn(v, s)
  <2>1. PICK p \in 1..Len(R[k]) : R[k][p] = v
    BY <1>5, RangeFacts DEF Range
  <2>2. m.at[k] \in 1..(Len(R[k]) + 1) /\ Len(R[k]) \in Nat
    BY <1>1, RangeFacts DEF MergeOK, m
  <2>3. m.at[k] \notin 1..Len(R[k])
    BY <1>1, RangeFacts DEF queue, m
  <2>4. p < m.at[k]
    BY <2>2, <2>3
  <2> QED BY <1>1, <2>1, <2>4 DEF MergeOK, m
<1> QED BY <1>3, <1>4, <1>5 DEF m

(***************************************************************************)
(* multi_set_merge returns the union of sorted lists (multi_set_merge.h).  *)
(***************************************************************************)
LEMMA MultiSetMergeRight ==
  ASSUME NEW N \in Nat, NEW all, Len(all) \in Nat, DOMAIN all = 1..Len(all),
         \A k \in DOMAIN all : IsRising(all[k], N), NEW v
  PROVE  v \in Range(multi_set_merge(all)) <=> \E k \in DOMAIN all : v \in Range(all[k])
<1> DEFINE S == {k \in DOMAIN all : all[k] # <<>>}
           at == SetAsVector(S)
           R == [k \in DOMAIN at |-> all[at[k]]]
<1>1. Selected(all, LAMBDA r : r # <<>>) = R
  BY DEF Selected, Indices
<1>2. IsRising(at, Len(all)) /\ \A k : k \in Range(at) <=> k \in S
  <2>1. S \in SUBSET (1..Len(all))
    OBVIOUS
  <2> HIDE DEF S
  <2> QED BY <2>1, VectorRises
<1> HIDE DEF at, S
<1>3. /\ Len(at) \in Nat /\ DOMAIN at = 1..Len(at)
      /\ \A k \in DOMAIN at : at[k] \in S
  BY <1>2 DEF IsRising, IsList, Range
<1>4. R = [k \in 1..Len(at) |-> R[k]]
  BY <1>3
<1>5. DOMAIN R = DOMAIN at /\ Len(R) = Len(at) /\ \A k \in DOMAIN R : R[k] = all[at[k]]
  <2>1. Len(R) = Len(at) /\ DOMAIN R = 1..Len(at)
    <3> HIDE DEF R
    <3> QED BY <1>3, <1>4, MappedIsSequence
  <2> QED BY <1>3, <2>1
<1> HIDE DEF R
<1>6. IsRanges(R, N)
  <2>1. ASSUME NEW k \in DOMAIN R PROVE IsRising(R[k], N) /\ Len(R[k]) # 0
    <3>1. at[k] \in DOMAIN all /\ all[at[k]] # <<>>
      BY <1>3, <1>5 DEF S
    <3>2. IsRising(R[k], N) /\ R[k] # <<>>
      BY <1>5, <3>1
    <3>3. R[k] \in Seq(1..N)
      BY <3>2 DEF IsRising, IsList
    <3> QED BY <3>2, <3>3, EmptySeq
  <2> QED BY <1>3, <1>5, <2>1 DEF IsRanges
<1>7. (\E k \in DOMAIN all : v \in Range(all[k])) <=> \E k \in DOMAIN R : v \in Range(R[k])
  <2>1. ASSUME NEW k \in DOMAIN all, v \in Range(all[k])
        PROVE  \E j \in DOMAIN R : v \in Range(R[j])
    <3>1. all[k] # <<>>
      BY <2>1 DEF Range
    <3>2. PICK j \in DOMAIN at : at[j] = k
      <4>1. k \in Range(at)
        BY <1>2, <3>1 DEF S
      <4> QED BY <4>1 DEF Range
    <3> QED BY <1>5, <2>1, <3>2
  <2>2. ASSUME NEW j \in DOMAIN R, v \in Range(R[j])
        PROVE  \E k \in DOMAIN all : v \in Range(all[k])
    <3>1. at[j] \in DOMAIN all
      BY <1>3, <1>5 DEF S
    <3> QED BY <1>5, <2>2, <3>1
  <2> QED BY <2>1, <2>2
<1> DEFINE steps == Cardinality(places(R))
           P(f) == f = [i \in 0..steps |-> IF i = 0 THEN first_merge(R)
                                            ELSE merge_step(R, f[i - 1])]
           merge == CHOOSE f : P(f)
<1>8. multi_set_merge(all) = IF R = <<>> THEN <<>>
                             ELSE IF Len(R) = 1 THEN R[1] ELSE merge_all(R)
  <2> DEFINE body(r) == IF r = <<>> THEN <<>>
                        ELSE IF Len(r) = 1 THEN r[1] ELSE merge_all(r)
  <2>1. multi_set_merge(all) = body(Selected(all, LAMBDA r : r # <<>>))
    BY DEF multi_set_merge
  <2> HIDE DEF body
  <2>2. multi_set_merge(all) = body(R)
    BY ONLY <1>1, <2>1
  <2> QED BY <2>2 DEF body
<1>19. merge_all(R) = merge[steps].result
  BY DEF merge_all
<1>9. steps = Cardinality(places(R)) /\ steps \in Nat
  BY <1>6, PlacesFinite
<1> DEFINE b(f) == [i \in 0..steps |->
                      IF i = 0 THEN first_merge(R) ELSE merge_step(R, f[i - 1])]
<1>10. ASSUME NEW f PROVE P(f) <=> f = b(f)
  OBVIOUS
<1> HIDE DEF steps, P
<1>11. PICK h : Merges(h, steps, R)
  BY <1>9, MergeExists
<1>12. h = b(h)
  <2>1. ASSUME NEW i \in 0..steps PROVE h[i] = b(h)[i]
    <3>1. i = 0 \/ i \in 1..steps
      BY <1>9
    <3>2. i \in 1..steps => i # 0
      BY <1>9
    <3>3. i \in 1..steps => h[i] = merge_step(R, h[i - 1])
      BY <1>11 DEF Merges
    <3>4. h[0] = first_merge(R)
      BY <1>11 DEF Merges
    <3> QED BY <3>1, <3>2, <3>3, <3>4
  <2>2. h = [i \in 0..steps |-> h[i]]
    BY <1>11 DEF Merges
  <2> HIDE DEF b
  <2>3. b(h) = [i \in 0..steps |-> b(h)[i]]
    BY DEF b
  <2>4. [i \in 0..steps |-> h[i]] = [i \in 0..steps |-> b(h)[i]]
    BY <2>1
  <2> QED BY ONLY <2>2, <2>3, <2>4
<1>13. P(merge)
  <2>1. P(h)
    BY <1>10, <1>12
  <2> QED BY <2>1
<1>14. merge = b(merge)
  BY <1>10, <1>13
<1> HIDE DEF merge
<1>15. Merges(merge, steps, R)
  <2>1. merge = [i \in 0..steps |-> merge[i]]
    BY <1>14
  <2>2. merge[0] = first_merge(R)
    <3>1. 0 \in 0..steps
      BY <1>9
    <3> QED BY <1>14, <3>1
  <2>3. ASSUME NEW i \in 1..steps PROVE merge[i] = merge_step(R, merge[i - 1])
    <3>1. i \in 0..steps /\ i # 0
      BY <1>9
    <3> QED BY <1>14, <3>1
  <2> HIDE DEF b
  <2> QED BY <2>1, <2>2, <2>3 DEF Merges
<1>16. CASE R = <<>>
  <2>1. multi_set_merge(all) = <<>>
    BY <1>8, <1>16
  <2>2. Range(multi_set_merge(all)) = {}
    BY <2>1 DEF Range
  <2>3. DOMAIN R = {}
    BY <1>16
  <2> QED BY <1>7, <2>2, <2>3
<1>17. CASE R # <<>> /\ Len(R) = 1
  <2>1. multi_set_merge(all) = R[1]
    BY <1>8, <1>17
  <2>2. DOMAIN R = {1}
    BY <1>17, <1>6 DEF IsRanges
  <2> QED BY <1>7, <2>1, <2>2
<1>18. CASE R # <<>> /\ Len(R) # 1
  <2>1. multi_set_merge(all) = merge[steps].result
    BY <1>8, <1>18, <1>19
  <2>2. DOMAIN R # {}
    <3>1. Len(R) # 0
      <4>1. \E T : R \in Seq(T)
        <5>1. R = [k \in 1..Len(R) |-> R[k]]
          BY <1>4, <1>5
        <5> QED BY <1>3, <1>5, <5>1, MappedIsSequence
      <4> QED BY <1>18, <4>1, EmptySeq
    <3> QED BY <1>3, <1>5, <3>1
  <2> QED BY <1>6, <1>7, <1>9, <1>15, <2>1, <2>2, MergedRanges
<1> QED BY <1>16, <1>17, <1>18

-----------------------------------------------------------------------------
(***************************************************************************)
(* From the node at either end of a route the mappings lead back to it.    *)
(***************************************************************************)
\* The paths of station routes lead over nodes of the graph.
NodesKnown(srs, next) ==
  \A k \in DOMAIN srs : \A j \in 1..Len(srs[k].path.nodes) :
    srs[k].path.nodes[j] \in DOMAIN next

\* The last node of a route is one of the graph.
LEMMA LastNodeKnown ==
  ASSUME GraphRight(graph), NodesRight, NEW r, IsPossible(r)
  PROVE  last_node_of(r) \in DOMAIN next_node
<1> DEFINE id == graph.id_of[r.end]
           e == graph.elements[id]
           name == IF is_track_element(e) THEN "node"
                   ELSE Choice(FALSE = rising(e), "bot", "top")
<1>1. /\ r.end \in DOMAIN graph.id_of /\ id # Null
      /\ e.type \in EndTypes \cup {"BORDER"} \/ is_directed(e)
  BY DEF IsPossible, IsKnown, element_of
<1>2. id \in DOMAIN graph.elements
  BY <1>1 DEF GraphRight, TypesRight
<1>3. last_node_of(r) = <<id, name>>
  BY DEF last_node_of, get_border_node
<1>4. name \in NodeNames(e.type)
  <2> HIDE DEF e
  <2>1. CASE e.type \in EndTypes \cup {"BORDER"}
    <3>1. e.type \in SectionTypes /\ e.type # "CROSS"
      BY <2>1 DEF EndTypes, SimpleTypes, SectionTypes
    <3>2. NodeNames(e.type) = {"top", "bot"}
      BY <3>1 DEF NodeNames
    <3>3. name \in {"top", "bot"}
      BY <3>1 DEF is_track_element, Choice
    <3> QED BY <3>2, <3>3
  <2>2. CASE is_directed(e)
    <3>1. e.type \notin SectionTypes /\ e.type \notin UndirectedTypes
      BY <2>2 DEF is_directed, is_track_element, is_undirected
    <3>2. e.type # "CROSS"
      BY <3>1 DEF SectionTypes
    <3>3. NodeNames(e.type) = {"node"}
      BY <3>1, <3>2 DEF NodeNames
    <3>4. name = "node"
      BY <3>1 DEF is_track_element
    <3> QED BY <3>3, <3>4
  <2> QED BY <1>1, <2>1, <2>2
<1> HIDE DEF name
<1>5. <<id, name>> \in AllNodes(graph)
  BY <1>2, <1>4 DEF AllNodes
<1> QED BY <1>3, <1>5 DEF NodesRight, HasNodes

\* The station routes are made with known nodes.
LEMMA CalculatedNodesKnown ==
  ASSUME GraphInv, calculate_station_routes
  PROVE  NodesKnown(station_routes', next_node')
<1>1. network \in Networks /\ NodesRight /\ GraphRight(graph) /\ next_node' = next_node
  BY DEF GraphInv, GraphStages, calculate_station_routes, graph_vars
<1>2. ASSUME NEW k \in DOMAIN station_routes', NEW n, n = station_routes'[k].path.nodes,
             NEW j \in 1..Len(n)
      PROVE  n[j] \in DOMAIN next_node
  <2>1. PICK i \in DOMAIN intermediate : station_routes'[k].path = make_path(intermediate[i])
    BY <1>1, <1>2, PathsOfOwners
  <2>2. IsPossible(intermediate[i])
    BY <1>1, PathsOfOwners
  <2>3. n = get_path(intermediate[i])
    BY <1>2, <2>1 DEF make_path
  <2>4. Arrivals(intermediate[i]) # {}
    BY <2>2 DEF IsPossible
  <2>5. /\ Len(n) \in Nat \ {0} /\ n[Len(n)] = last_node_of(intermediate[i])
        /\ \A h \in 1..(Len(n) - 1) : n[h] \in DOMAIN next_node
    BY <1>1, <2>3, <2>4, PathFollows
  <2>6. n[Len(n)] \in DOMAIN next_node
    BY <1>1, <2>2, <2>5, LastNodeKnown
  <2>7. j = Len(n) \/ j \in 1..(Len(n) - 1)
    BY <2>5
  <2> QED BY <2>5, <2>6, <2>7
<1> QED BY <1>1, <1>2 DEF NodesKnown

\* The ends of a route by the station routes given.
FirstIn(srs, ir) == srs[ir.station_routes[1]].path.nodes[ir.start]
LastIn(srs, ir)  == srs[Last(ir.station_routes)].path.nodes[ir.end]

\* The ends of routes are nodes, and the mappings lead from them to the routes.
Mapped(il, srs, next) ==
  /\ Len(il.routes) \in Nat /\ DOMAIN il.routes = 1..Len(il.routes)
  /\ \A id \in DOMAIN il.routes :
       /\ FirstIn(srs, il.routes[id]) \in DOMAIN next
       /\ LastIn(srs, il.routes[id]) \in DOMAIN next
  /\ \A n \in DOMAIN next : \A id :
       /\ id \in Range(il.starting_at[n])
            <=> id \in DOMAIN il.routes /\ FirstIn(srs, il.routes[id]) = n
       /\ id \in Range(il.ending_at[n])
            <=> id \in DOMAIN il.routes /\ LastIn(srs, il.routes[id]) = n

\* Both ends of an interlocking route are nodes.
LEMMA EndsKnown ==
  ASSUME Typed, NodesKnown(station_routes, next_node), NEW ir, IsInterlockingRoute(ir)
  PROVE  first_node(ir) \in DOMAIN next_node /\ last_node(ir) \in DOMAIN next_node
<1> DEFINE c == ir.station_routes
<1>1. c \in Seq(DOMAIN station_routes) /\ c # <<>>
  BY DEF IsInterlockingRoute, IsChain
<1>2. c[1] \in DOMAIN station_routes /\ Last(c) \in DOMAIN station_routes
  <2>1. Len(c) \in Nat /\ Len(c) # 0 /\ \A j \in 1..Len(c) : c[j] \in DOMAIN station_routes
    BY <1>1, LenProperties, EmptySeq
  <2> QED BY <2>1 DEF Last
<1>3. ir.start \in 1..size(first_sr(ir)) /\ ir.end \in 1..size(last_sr(ir))
  BY DEF IsInterlockingRoute
<1> QED BY <1>2, <1>3 DEF NodesKnown, first_node, last_node, first_sr, last_sr, size

\* The mappings are filled.
LEMMA GetInterlocking ==
  ASSUME RouteInv, NodesKnown(station_routes, next_node), get_interlocking,
         {"routes", "starting_at", "ending_at"} \subseteq DOMAIN interlocking
  PROVE  Mapped(interlocking', station_routes', next_node')
<1> DEFINE irs == interlocking.routes
<1>1. /\ stage = "mappings" /\ station_routes' = station_routes /\ next_node' = next_node
      /\ interlocking'.routes = irs
      /\ interlocking'.starting_at = [n \in DOMAIN next_node |-> get_starting_at(n)]
      /\ interlocking'.ending_at = [n \in DOMAIN next_node |-> get_ending_at(n)]
  BY DEF get_interlocking, graph_vars, route_vars
<1>2. /\ AllRight(irs) /\ DOMAIN irs = 1..Len(irs)
      /\ \A id \in DOMAIN irs : IsInterlockingRoute(irs[id])
  BY <1>1, AllAreFound DEF Range
<1>3. Typed
  BY <1>1 DEF RouteInv, SearchStages
<1>4. Len(irs) \in Nat
  BY <1>2, LenProperties DEF AllRight
<1>5. \A id \in DOMAIN irs :
        first_node(irs[id]) \in DOMAIN next_node /\ last_node(irs[id]) \in DOMAIN next_node
  BY <1>2, <1>3, EndsKnown
<1>6. ASSUME NEW n, NEW id
      PROVE  /\ id \in Range(get_starting_at(n))
                  <=> id \in DOMAIN irs /\ first_node(irs[id]) = n
             /\ id \in Range(get_ending_at(n))
                  <=> id \in DOMAIN irs /\ last_node(irs[id]) = n
  <2> DEFINE S == {k \in DOMAIN irs : first_node(irs[k]) = n}
             E == {k \in DOMAIN irs : last_node(irs[k]) = n}
  <2>1. get_starting_at(n) = SetAsVector(S) /\ get_ending_at(n) = SetAsVector(E)
    BY DEF get_starting_at, get_ending_at, Indices
  <2>2. S \in SUBSET (1..Len(irs)) /\ E \in SUBSET (1..Len(irs))
    BY <1>2
  <2> HIDE DEF S, E
  <2>3. /\ \A k : k \in Range(SetAsVector(S)) <=> k \in S
        /\ \A k : k \in Range(SetAsVector(E)) <=> k \in E
    BY <1>4, <2>2, VectorRises
  <2> QED BY <2>1, <2>3 DEF S, E
<1> HIDE DEF irs
<1>7. \A ir : /\ first_node(ir) = FirstIn(station_routes, ir)
             /\ last_node(ir) = LastIn(station_routes, ir)
  BY DEF first_node, last_node, first_sr, last_sr, FirstIn, LastIn
<1> QED BY <1>1, <1>2, <1>4, <1>5, <1>6, <1>7 DEF Mapped

-----------------------------------------------------------------------------
(***************************************************************************)
(* What a route claims, and the routes it excludes.                        *)
(***************************************************************************)
\* Each route claims elements.
Claims(cl, irs, elements) ==
  /\ DOMAIN cl = DOMAIN irs /\ Len(cl) = Len(irs)
  /\ \A id \in DOMAIN cl : cl[id] \subseteq DOMAIN elements

\* Claims are claims of elements.
LEMMA ClaimsAreElements ==
  ASSUME NEW ir
  PROVE  get_exclusion_elements(ir) \subseteq DOMAIN graph.elements
<1>1. \A order : ExclusionElements(order) \subseteq DOMAIN graph.elements
  BY DEF ExclusionElements
<1> SUFFICES ASSUME NEW x \in get_exclusion_elements(ir) PROVE x \in DOMAIN graph.elements
  OBVIOUS
<1> DEFINE used  == get_used_sections(ir)
           first == first_node(ir)[1]
           last  == last_node(ir)[1]
           sec(j) == graph.sections[used[j]]
           Whole(j) == ExclusionElements(sec(j).rising_order)
           e == graph.elements[first]
           f == graph.elements[last]
           A == IF is_track_element(e)
                THEN ExclusionElements(elements_from(sec(1), first, rising(e)))
                ELSE Whole(1)
           B == UNION {Whole(j) : j \in 2..(Len(used) - 1)}
           C == IF is_track_element(f)
                THEN ExclusionElements(elements_to(sec(Len(used)), last, rising(f)))
                ELSE Whole(Len(used))
           D == get_exclusion_elements_one_section(sec(1), first, last)
<1>2. get_exclusion_elements(ir) = IF Len(used) = 1 THEN D ELSE A \cup B \cup C
  BY DEF get_exclusion_elements
<1>3. x \in D => x \in DOMAIN graph.elements
  BY <1>1 DEF get_exclusion_elements_one_section
<1>4. x \in B => x \in DOMAIN graph.elements
  BY <1>1
<1>5. (x \in A => x \in DOMAIN graph.elements) /\ (x \in C => x \in DOMAIN graph.elements)
  BY <1>1
<1> HIDE DEF A, B, C, D, used
<1> QED BY <1>2, <1>3, <1>4, <1>5

\* The threads start with the claims of all routes.
LEMMA StartClaims ==
  ASSUME Mapped(interlocking, station_routes, next_node), start_threads
  PROVE  Claims(closed', interlocking.routes, graph.elements)
<1> DEFINE irs == interlocking.routes
<1>1. closed' = [id \in DOMAIN irs |-> get_exclusion_elements(irs[id])]
  BY DEF start_threads, get_closed_exclusion_elements
<1>2. Len(irs) \in Nat /\ DOMAIN irs = 1..Len(irs)
  BY DEF Mapped
<1> HIDE DEF irs
<1>3. closed' = [id \in 1..Len(irs) |-> closed'[id]]
  BY <1>1, <1>2
<1>4. DOMAIN closed' = DOMAIN irs /\ Len(closed') = Len(irs)
  BY <1>2, <1>3, MappedIsSequence
<1>5. \A id \in DOMAIN closed' : closed'[id] \subseteq DOMAIN graph.elements
  BY <1>1, <1>4, ClaimsAreElements
<1> QED BY <1>4, <1>5 DEF Claims, irs

\* Two routes exclude each other: they claim a common element, and neither
\* follows the other.
Excludes(cl, il, srs, a, b) ==
  /\ cl[a] \cap cl[b] # {}
  /\ FirstIn(srs, il.routes[a]) # LastIn(srs, il.routes[b])
  /\ FirstIn(srs, il.routes[b]) # LastIn(srs, il.routes[a])

\* What a route excludes is found by merging the users of its claims.
LEMMA ExcludedByClaims ==
  ASSUME Mapped(interlocking, station_routes, next_node), GraphRight(graph),
         Claims(closed, interlocking.routes, graph.elements),
         \A e \in Elements : used_by[e] = Claimers(e),
         NEW a \in 1..IrCount, NEW b \in 1..IrCount
  PROVE  b \in excluded_by(a) <=> Excludes(closed, interlocking, station_routes, a, b)
<1> DEFINE irs == interlocking.routes
           claims == SetAsVector(closed[a])
           ranges == [k \in DOMAIN claims |-> SetAsVector(used_by[claims[k]])]
           n == Len(graph.elements)
           N == IrCount
<1>8. excluded_by(a) = Range(multi_set_merge(ranges)) \ followers(irs[a])
  BY DEF excluded_by
<1>1. /\ N \in Nat /\ DOMAIN irs = 1..N /\ DOMAIN closed = 1..N
      /\ \A id \in 1..N : closed[id] \subseteq DOMAIN graph.elements
  BY DEF Mapped, Claims, IrCount
<1>2. n \in Nat /\ DOMAIN graph.elements = 1..n
  BY LenProperties DEF GraphRight, HasShape
<1>3. \A e \in 1..n : used_by[e] = Claimers(e) /\ Claimers(e) \in SUBSET (1..N)
  BY <1>2 DEF Elements, Claimers
<1>4. IsRising(claims, n) /\ \A e : e \in Range(claims) <=> e \in closed[a]
  <2>1. closed[a] \in SUBSET (1..n)
    BY <1>1, <1>2
  <2> QED BY <1>2, <2>1, VectorRises
<1> HIDE DEF claims, n, N
<1>5. /\ Len(claims) \in Nat /\ DOMAIN claims = 1..Len(claims)
      /\ \A k \in DOMAIN claims : claims[k] \in 1..n
  BY <1>4 DEF IsRising, IsList
<1>6. /\ Len(ranges) \in Nat /\ DOMAIN ranges = 1..Len(ranges) /\ DOMAIN ranges = DOMAIN claims
      /\ \A k \in DOMAIN claims : ranges[k] = SetAsVector(used_by[claims[k]])
  <2>1. ranges = [k \in 1..Len(claims) |-> ranges[k]]
    BY <1>5
  <2>2. Len(ranges) = Len(claims) /\ DOMAIN ranges = 1..Len(claims)
    <3> HIDE DEF ranges
    <3> QED BY <1>5, <2>1, MappedIsSequence
  <2> QED BY <1>5, <2>2
<1>7. ASSUME NEW k \in DOMAIN claims
      PROVE  /\ IsRising(ranges[k], N)
             /\ \A x : x \in Range(ranges[k]) <=> x \in Claimers(claims[k])
  <2>1. used_by[claims[k]] = Claimers(claims[k]) /\ Claimers(claims[k]) \in SUBSET (1..N)
    BY <1>3, <1>5
  <2>2. ranges[k] = SetAsVector(Claimers(claims[k]))
    BY <1>6, <2>1
  <2> HIDE DEF ranges
  <2> QED BY <1>1, <2>1, <2>2, VectorRises
<1> HIDE DEF ranges
<1>9. b \in Range(multi_set_merge(ranges)) <=> \E k \in DOMAIN ranges : b \in Range(ranges[k])
  BY <1>1, <1>6, <1>7, MultiSetMergeRight
<1>10. (\E k \in DOMAIN ranges : b \in Range(ranges[k])) <=> closed[a] \cap closed[b] # {}
  <2>1. ASSUME NEW k \in DOMAIN ranges, b \in Range(ranges[k])
        PROVE  closed[a] \cap closed[b] # {}
    <3>1. b \in Claimers(claims[k]) /\ claims[k] \in closed[a]
      BY <1>4, <1>6, <1>7, <2>1 DEF Range
    <3> QED BY <3>1 DEF Claimers
  <2>2. ASSUME NEW e \in closed[a] \cap closed[b]
        PROVE  \E k \in DOMAIN ranges : b \in Range(ranges[k])
    <3>1. PICK k \in DOMAIN claims : claims[k] = e
      <4>1. e \in Range(claims)
        BY <1>4
      <4> QED BY <4>1 DEF Range
    <3>2. b \in Claimers(claims[k])
      BY <3>1 DEF Claimers
    <3> QED BY <1>6, <1>7, <3>2
  <2> QED BY <2>1, <2>2
<1>11. \A ir : /\ first_node(ir) = FirstIn(station_routes, ir)
              /\ last_node(ir) = LastIn(station_routes, ir)
  BY DEF first_node, last_node, first_sr, last_sr, FirstIn, LastIn
<1>12. b \in followers(irs[a]) <=>
         \/ FirstIn(station_routes, irs[a]) = LastIn(station_routes, irs[b])
         \/ FirstIn(station_routes, irs[b]) = LastIn(station_routes, irs[a])
  <2>1. a \in DOMAIN irs /\ b \in DOMAIN irs
    BY <1>1 DEF N
  <2>2. /\ FirstIn(station_routes, irs[a]) \in DOMAIN next_node
        /\ LastIn(station_routes, irs[a]) \in DOMAIN next_node
    BY <2>1 DEF Mapped
  <2>3. /\ b \in Range(interlocking.starting_at[LastIn(station_routes, irs[a])])
             <=> FirstIn(station_routes, irs[b]) = LastIn(station_routes, irs[a])
        /\ b \in Range(interlocking.ending_at[FirstIn(station_routes, irs[a])])
             <=> LastIn(station_routes, irs[b]) = FirstIn(station_routes, irs[a])
    BY <2>1, <2>2 DEF Mapped
  <2> HIDE DEF irs
  <2> QED BY <1>11, <2>3 DEF followers
<1> QED BY <1>8, <1>9, <1>10, <1>12 DEF Excludes

-----------------------------------------------------------------------------
(***************************************************************************)
(* The exclusion graph.                                                    *)
(***************************************************************************)
\* Every route excludes those with which it excludes itself.
ByClaims(cl, il, srs, eg) ==
  \A a, b \in 1..Len(cl) : b \in eg[a] <=> Excludes(cl, il, srs, a, b)

\* The mappings that the invariant speaks of.
Views == {"routes", "starting_at", "ending_at"}

\* What is known of mappings, claims and exclusions at a stage.
LinkOn(st, g, next, srs, il, cl, eg) ==
  /\ st \in EarlyStages \cup SearchStages => Views \subseteq DOMAIN il
  /\ st \in {"station_route_graph"} \cup SearchStages => NodesKnown(srs, next)
  /\ st \in {"exclusion", "threads", "exclusion_graph"} => Mapped(il, srs, next)
  /\ st \in {"threads", "exclusion_graph"} => Claims(cl, il.routes, g.elements)
  /\ st \in {"cliques", "done"} => ByClaims(cl, il, srs, eg)

(***************************************************************************)
(* The invariant of the exclusion graph: the paths lead over nodes, the    *)
(* mappings lead back to the routes, the claims are claims of elements.    *)
(***************************************************************************)
LinkInv ==
  LinkOn(stage, graph, next_node, station_routes, interlocking, closed, exclusion_graph)

\* Nothing is claimed in a stage outside of the infrastructure.
LEMMA LinkElsewhere ==
  ASSUME NEW st \in {"work", "parsed", "crashed"},
         NEW g, NEW next, NEW srs, NEW il, NEW cl, NEW eg
  PROVE  LinkOn(st, g, next, srs, il, cl, eg)
  BY DEF LinkOn, EarlyStages, SearchStages

\* The steps up to the mappings.
LEMMA LinkEarly ==
  ASSUME LinkInv, GraphInv, RouteInv, InterlockingNext
  PROVE  LinkInv'
<1> USE DEF LinkInv, LinkOn, EarlyStages, SearchStages
<1>1. CASE GraphNext /\ UNCHANGED <<route_vars, ir_vars>>
  <2>1. /\ stage \in {"sections", "borders", "nodes"}
        /\ stage' \in {"sections", "borders", "nodes", "routes"}
        /\ interlocking' = interlocking
    BY <1>1 DEF GraphNext, parse_section, complete_borders, connect_all_nodes, ir_vars
  <2> QED BY <2>1
<1>2. CASE calculate_station_routes /\ UNCHANGED ir_vars
  <2>1. /\ stage = "routes" /\ stage' = "station_route_graph"
        /\ interlocking' = interlocking
    BY <1>2 DEF calculate_station_routes, ir_vars
  <2>2. NodesKnown(station_routes', next_node')
    BY <1>2, CalculatedNodesKnown
  <2> QED BY <2>1, <2>2
<1>3. CASE get_station_route_graph /\ UNCHANGED ir_vars
  <2>1. /\ stage = "station_route_graph" /\ stage' = "interlocking"
        /\ interlocking' = interlocking /\ station_routes' = station_routes
        /\ next_node' = next_node
    BY <1>3 DEF get_station_route_graph, graph_vars, ir_vars
  <2> QED BY <2>1
<1>4. CASE start_station_route \/ fill_paths \/ finish_station_route
  <2>1. /\ stage \in SearchStages /\ stage' \in SearchStages
        /\ station_routes' = station_routes /\ next_node' = next_node
    BY <1>4 DEF start_station_route, fill_paths, finish_station_route,
                graph_vars, route_vars
  <2>2. DOMAIN interlocking' = DOMAIN interlocking
    <3>1. CASE start_station_route
      BY <3>1 DEF start_station_route
    <3>2. CASE fill_paths
      BY <3>2 DEF fill_paths
    <3>3. CASE finish_station_route
      BY <3>3 DEF finish_station_route
    <3> QED BY <1>4, <3>1, <3>2, <3>3
  <2> QED BY <2>1, <2>2
<1>5. CASE get_interlocking
  <2>1. stage = "mappings" /\ stage' = "exclusion"
    BY <1>5 DEF get_interlocking
  <2>2. Mapped(interlocking', station_routes', next_node')
    BY <1>5, <2>1, GetInterlocking DEF Views
  <2> QED BY <2>1, <2>2
<1> QED BY <1>1, <1>2, <1>3, <1>4, <1>5 DEF InterlockingNext, RoutesNext

\* The exclusion graph.
LEMMA LinkExclusionGraph ==
  ASSUME LinkInv, GraphInv, Inv, get_exclusion_graph
  PROVE  LinkInv'
<1>1. /\ stage = "exclusion_graph" /\ stage' = "cliques"
      /\ exclusion_graph' = [id \in 1..IrCount |-> excluded_by(id)]
      /\ closed' = closed /\ interlocking' = interlocking
      /\ station_routes' = station_routes
  BY DEF get_exclusion_graph, used_by_vars, ir_vars, route_vars
<1>2. /\ Mapped(interlocking, station_routes, next_node)
      /\ Claims(closed, interlocking.routes, graph.elements)
  BY <1>1 DEF LinkInv, LinkOn
<1>3. GraphRight(graph)
  BY DEF GraphInv
<1>4. \A e \in Elements : used_by[e] = Claimers(e)
  BY <1>1 DEF Inv, UsedByExact, HasUsers, Claimers
<1>5. \A a, b \in 1..IrCount :
        b \in excluded_by(a) <=> Excludes(closed, interlocking, station_routes, a, b)
  BY <1>2, <1>3, <1>4, ExcludedByClaims
<1>6. ByClaims(closed, interlocking, station_routes, exclusion_graph')
  BY <1>1, <1>5 DEF ByClaims, IrCount
<1> QED BY <1>1, <1>6 DEF LinkInv, LinkOn, EarlyStages, SearchStages

\* The steps behind the mappings.
LEMMA LinkLate ==
  ASSUME LinkInv, GraphInv, Inv,
         \/ start_threads
         \/ \E t \in Threads : generate_used_by(t)
         \/ combine_thread_results
         \/ get_exclusion_graph
         \/ read_exclusion_sets
  PROVE  LinkInv'
<1> USE DEF LinkInv, LinkOn, EarlyStages, SearchStages
<1>1. CASE start_threads
  <2>1. /\ stage = "exclusion" /\ stage' = "threads"
        /\ graph' = graph /\ next_node' = next_node
        /\ station_routes' = station_routes /\ interlocking' = interlocking
    BY <1>1 DEF start_threads, graph_vars, route_vars, ir_vars
  <2>2. Claims(closed', interlocking.routes, graph.elements)
    BY <1>1, <2>1, StartClaims
  <2> QED BY <2>1, <2>2
<1>2. CASE (\E t \in Threads : generate_used_by(t)) \/ combine_thread_results
  <2>1. /\ stage = "threads" /\ stage' \in {"threads", "exclusion_graph"}
        /\ graph' = graph /\ next_node' = next_node /\ closed' = closed
        /\ station_routes' = station_routes /\ interlocking' = interlocking
    BY <1>2 DEF generate_used_by, combine_thread_results, graph_vars, route_vars, ir_vars
  <2> QED BY <2>1
<1>3. CASE get_exclusion_graph
  BY <1>3, LinkExclusionGraph
<1>4. CASE read_exclusion_sets
  <2>1. /\ stage = "cliques" /\ stage' = "done" /\ closed' = closed
        /\ exclusion_graph' = exclusion_graph
        /\ station_routes' = station_routes /\ interlocking' = interlocking
    BY <1>4 DEF read_exclusion_sets, used_by_vars, route_vars, ir_vars
  <2> QED BY <2>1
<1> QED BY <1>1, <1>2, <1>3, <1>4

\* Steps that change nothing of the infrastructure.
LEMMA LinkUnchanged ==
  ASSUME LinkInv, UNCHANGED infrastructure_vars
  PROVE  LinkInv'
<1>1. /\ stage' = stage /\ graph' = graph /\ next_node' = next_node
      /\ station_routes' = station_routes /\ interlocking' = interlocking
      /\ closed' = closed /\ exclusion_graph' = exclusion_graph
  BY DEF infrastructure_vars, graph_vars, route_vars, ir_vars,
         exclusion_vars, used_by_vars, graph_of_exclusion_vars
<1> QED BY <1>1 DEF LinkInv

\* No step breaks the invariant.
LEMMA LinkStep ==
  ASSUME LinkInv, GraphInv, RouteInv, Inv, [TimetableNext \/ Parsed]_vars
  PROVE  LinkInv'
<1> DEFINE Elsewhere == stage' \in {"work", "parsed", "crashed"}
<1>1. Elsewhere => LinkInv'
  BY LinkElsewhere DEF LinkInv
<1>2. CASE ExclusionNext
  BY <1>2, LinkEarly, LinkLate DEF ExclusionNext
<1>3. CASE Complete
  BY <1>3, LinkUnchanged DEF Complete
<1>4. CASE open_directory
  <2>1. Elsewhere
    BY <1>4 DEF open_directory, reject
  <2> QED BY <1>1, <2>1
<1>5. ASSUME NEW p \in Parsers,
             take_item(p) \/ parse_train(p) \/ crash(p) \/ finish_item(p)
      PROVE  LinkInv'
  <2>1. Elsewhere
    BY <1>5 DEF take_item, parse_train, crash, finish_item
  <2> QED BY <1>1, <2>1
<1>6. CASE finish_timetable
  <2>1. Elsewhere
    BY <1>6 DEF finish_timetable
  <2> QED BY <1>1, <2>1
<1>7. CASE Parsed
  BY <1>7, LinkUnchanged DEF Parsed, vars
<1>8. CASE UNCHANGED vars
  BY <1>8, LinkUnchanged DEF vars
<1> QED BY <1>2, <1>3, <1>4, <1>5, <1>6, <1>7, <1>8 DEF TimetableNext

\* At first there is nothing to map, to claim or to exclude.
LEMMA LinkInit ==
  ASSUME TimetableInit
  PROVE  LinkInv
<1>1. stage = "sections" /\ Views \subseteq DOMAIN interlocking
  BY DEF TimetableInit, ExclusionInit, InterlockingInit, RoutesInit, GraphInit, Views
<1> QED BY <1>1 DEF LinkInv, LinkOn, EarlyStages, SearchStages

\* What the invariant says of the exclusion graph.
LEMMA LinkedByClaims ==
  ASSUME LinkInv, CountsOK
  PROVE  ExclusionByClaims /\ ExclusionSymmetric
<1> SUFFICES ASSUME HasExclusionGraph, NEW a \in 1..IrCount, NEW b \in 1..IrCount
             PROVE  /\ b \in exclusion_graph[a] <=>
                         /\ closed[a] \cap closed[b] # {}
                         /\ ~follows(interlocking.routes[a], interlocking.routes[b])
                         /\ ~follows(interlocking.routes[b], interlocking.routes[a])
                    /\ a \in exclusion_graph[b] <=> b \in exclusion_graph[a]
  BY DEF ExclusionByClaims, ExclusionSymmetric
<1>1. ByClaims(closed, interlocking, station_routes, exclusion_graph)
  BY DEF LinkInv, LinkOn, HasExclusionGraph
<1>2. /\ b \in exclusion_graph[a] <=> Excludes(closed, interlocking, station_routes, a, b)
      /\ a \in exclusion_graph[b] <=> Excludes(closed, interlocking, station_routes, b, a)
  BY <1>1 DEF ByClaims, IrCount
<1>3. \A ir : /\ first_node(ir) = FirstIn(station_routes, ir)
             /\ last_node(ir) = LastIn(station_routes, ir)
  BY DEF first_node, last_node, first_sr, last_sr, FirstIn, LastIn
<1>4. closed[a] \cap closed[b] = closed[b] \cap closed[a]
  OBVIOUS
<1> QED BY <1>2, <1>3, <1>4 DEF Excludes, follows

(***************************************************************************)
(* Routes exclude each other exactly if they claim a common element and    *)
(* neither follows the other, and they do so mutually, in any rail plan,   *)
(* with any number of routes and of threads (get_exclusion_graph.cc:45,    *)
(* exclusion_graph_test.cc:11).                                            *)
(***************************************************************************)
THEOREM ExclusionGraphByClaims ==
  TimetableSpec => []ExclusionGraphRight
<1>1. TimetableInit => Inv /\ RouteInv /\ GraphInv /\ LinkInv
  BY InitInv, RouteInit, GraphInitRight, LinkInit DEF TimetableInit
<1>2. Inv /\ [TimetableNext \/ Parsed]_vars => Inv'
  <2> SUFFICES ASSUME Inv, [TimetableNext \/ Parsed]_vars
               PROVE  Inv'
    OBVIOUS
  <2>1. CASE TimetableNext \/ Parsed
    BY <2>1, TimetableStep
  <2>2. CASE UNCHANGED vars
    BY <2>2, InfrastructureUnchanged DEF vars
  <2> QED BY <2>1, <2>2
<1>3. Inv /\ LinkInv => ExclusionGraphRight
  BY LinkedByClaims DEF Inv, ExclusionGraphRight
<1> QED BY <1>1, <1>2, <1>3, RouteStep, GraphStep, LinkStep, PTL DEF TimetableSpec

-----------------------------------------------------------------------------
(***************************************************************************)
(* The nodes of a station route from one index to another.                 *)
(***************************************************************************)
\* The entry of the node idx, after acc.
EntryOf(sr, acc, idx) ==
  LET omitted == At(sr.omitted_nodes, acc.omit) = idx
      limit   == ~omitted /\ At(sr.speed_limits, acc.spl) = sr.path.nodes[idx][1]
  IN  [node |-> sr.path.nodes[idx], omitted |-> omitted,
       extra_spl |-> IF limit THEN sr.speed_limits[acc.spl] ELSE acc.last]

\* f goes over n nodes of sr from the index begin.
Seen(f, n, sr, begin, first) ==
  /\ f = [k \in 0..n |-> f[k]] /\ f[0] = first
  /\ \A k \in 1..n : f[k] = route_node(sr, f[k - 1], begin + k - 1)

\* There is such an f of any length: the model names it by CHOOSE.
LEMMA SeenExists ==
  ASSUME NEW n \in Nat, NEW sr, NEW begin, NEW first
  PROVE  \E f : Seen(f, n, sr, begin, first)
<1> DEFINE T == {k \in Nat : \E f : Seen(f, k, sr, begin, first)}
           step(x, k) == route_node(sr, x, begin + k - 1)
<1>1. 0 \in T
  <2> DEFINE f == [k \in 0..0 |-> first]
  <2>1. Seen(f, 0, sr, begin, first)
    BY DEF Seen
  <2> QED BY <2>1
<1>2. ASSUME NEW k \in T PROVE k + 1 \in T
  <2>1. PICK f : Seen(f, k, sr, begin, first)
    OBVIOUS
  <2> DEFINE g == [j \in 0..(k + 1) |-> IF j = k + 1 THEN step(f[k], k + 1) ELSE f[j]]
  <2>2. k \in Nat
    OBVIOUS
  <2> HIDE DEF step
  <2>3. g = [j \in 0..(k + 1) |-> g[j]] /\ g[0] = first
    BY <2>1, <2>2 DEF Seen
  <2>4. ASSUME NEW j \in 1..(k + 1) PROVE g[j] = step(g[j - 1], j)
    <3>1. CASE j = k + 1
      <4>1. g[k + 1] = step(f[k], k + 1) /\ g[k] = f[k]
        BY <2>2
      <4> QED BY <3>1, <4>1, <2>2
    <3>2. CASE j # k + 1
      <4>1. j \in 1..k /\ g[j] = f[j] /\ g[j - 1] = f[j - 1]
        BY <2>2, <3>2
      <4> QED BY <4>1, <2>1 DEF Seen, step
    <3> QED BY <3>1, <3>2
  <2>5. Seen(g, k + 1, sr, begin, first)
    <3> HIDE DEF g
    <3> QED BY <2>3, <2>4 DEF Seen, step
  <2> QED BY <2>2, <2>5
<1>3. T = Nat
  <2> HIDE DEF T
  <2>1. T \subseteq Nat
    BY DEF T
  <2> QED BY <1>1, <1>2, <2>1, AllNaturals
<1> QED BY <1>3

\* Entry j of out is that of the node begin + j - 1.
EntriesRight(sr, begin, out, m) ==
  \A j \in 1..m :
    /\ out[j].node = sr.path.nodes[begin + j - 1]
    /\ out[j].omitted <=> begin + j - 1 \in Range(sr.omitted_nodes)

\* One node more.
LEMMA SeenOneMore ==
  ASSUME NEW sr, size(sr) \in Nat, IsRising(sr.omitted_nodes, size(sr)),
         NEW S, NEW acc, NEW begin \in Nat, NEW m \in Nat,
         begin >= 1, begin + m <= size(sr),
         EntryOf(sr, acc, begin + m) \in S, acc.out \in Seq(S), Len(acc.out) = m,
         EntriesRight(sr, begin, acc.out, m),
         acc.omit \in 1..(Len(sr.omitted_nodes) + 1),
         \A i \in 1..Len(sr.omitted_nodes) :
           sr.omitted_nodes[i] < begin + m <=> i < acc.omit
  PROVE  LET next == route_node(sr, acc, begin + m)
         IN  /\ next.out \in Seq(S) /\ Len(next.out) = m + 1
             /\ EntriesRight(sr, begin, next.out, m + 1)
             /\ next.omit \in 1..(Len(sr.omitted_nodes) + 1)
             /\ \A i \in 1..Len(sr.omitted_nodes) :
                  sr.omitted_nodes[i] < begin + m + 1 <=> i < next.omit
<1> DEFINE om == sr.omitted_nodes
           L == Len(om)
           idx == begin + m
           next == route_node(sr, acc, idx)
           entry == EntryOf(sr, acc, idx)
           omitted == At(om, acc.omit) = idx
<1>1. /\ L \in Nat /\ DOMAIN om = 1..L /\ \A i \in 1..L : om[i] \in Nat
      /\ \A i, j \in 1..L : i < j => om[i] < om[j]
      /\ \A i \in 1..L : om[i] >= 1
  BY DEF IsRising, IsList
<1>2. next.out = Append(acc.out, entry)
  BY DEF route_node, EntryOf
<1>3. next.omit = acc.omit + IF omitted THEN 1 ELSE 0
  BY DEF route_node
<1>4. entry.node = sr.path.nodes[idx] /\ entry.omitted = omitted
  BY DEF EntryOf
<1>5. idx \in Nat /\ idx >= 1
  OBVIOUS
<1>6. acc.omit \in 1..(L + 1) /\ \A i \in 1..L : om[i] < idx <=> i < acc.omit
  OBVIOUS
<1>7. omitted <=> acc.omit \in 1..L /\ om[acc.omit] = idx
  <2> HIDE DEF om, L, idx
  <2> QED BY <1>1, <1>5 DEF At, NoIdx, omitted
<1> HIDE DEF omitted
<1>8. omitted <=> idx \in Range(om)
  <2> HIDE DEF om, L, idx
  <2>1. ASSUME NEW i \in 1..L, om[i] = idx PROVE i = acc.omit
    <3>1. om[i] \in Nat /\ ~(om[i] < idx)
      BY <1>1, <1>5, <2>1
    <3>2. ~(i < acc.omit)
      BY <1>6, <3>1
    <3>3. CASE acc.omit < i
      <4>1. acc.omit \in 1..L
        BY <1>1, <1>6, <3>3
      <4>2. om[acc.omit] < om[i] /\ om[acc.omit] \in Nat
        BY <1>1, <3>3, <4>1
      <4>3. acc.omit < acc.omit
        BY <1>6, <2>1, <4>1, <4>2
      <4> QED BY <1>6, <1>1, <4>3
    <3> QED BY <1>1, <1>6, <3>2, <3>3
  <2> QED BY <1>1, <1>7, <2>1 DEF Range
<1>9. next.omit \in 1..(L + 1)
  <2> HIDE DEF om, L, idx, next
  <2> QED BY <1>1, <1>3, <1>6, <1>7
<1>10. ASSUME NEW i \in 1..L PROVE om[i] < idx + 1 <=> i < next.omit
  <2> HIDE DEF om, L, idx, next
  <2>1. om[i] \in Nat /\ idx \in Nat /\ (om[i] < idx + 1 <=> om[i] < idx \/ om[i] = idx)
    BY <1>1, <1>5
  <2>2. om[i] = idx => omitted /\ i = acc.omit
    <3> SUFFICES ASSUME om[i] = idx PROVE omitted /\ i = acc.omit
      OBVIOUS
    <3>1. omitted
      BY <1>1, <1>8 DEF Range
    <3>2. acc.omit \in 1..L /\ om[acc.omit] = om[i]
      BY <1>7, <3>1
    <3>3. ~(i < acc.omit) /\ ~(acc.omit < i)
      BY <1>1, <3>2, <2>1
    <3> QED BY <1>1, <3>1, <3>2, <3>3
  <2>3. omitted => om[acc.omit] = idx
    BY <1>7
  <2>4. CASE omitted
    <3>1. next.omit = acc.omit + 1
      BY <1>3, <2>4
    <3>2. i < acc.omit + 1 <=> i < acc.omit \/ i = acc.omit
      BY <1>1, <1>6
    <3> QED BY <1>6, <2>1, <2>2, <2>3, <2>4, <3>1, <3>2
  <2>5. CASE ~omitted
    <3>1. next.omit = acc.omit
      BY <1>1, <1>3, <1>6, <2>5
    <3> QED BY <1>6, <2>1, <2>2, <2>5, <3>1
  <2> QED BY <2>4, <2>5
<1>11. /\ next.out \in Seq(S) /\ Len(next.out) = m + 1
       /\ \A j \in 1..m : next.out[j] = acc.out[j]
       /\ next.out[m + 1] = entry
  <2> HIDE DEF next, entry
  <2>1. entry \in S
    BY DEF entry
  <2> QED BY <1>2, <2>1, AppendProperties
<1>12. EntriesRight(sr, begin, next.out, m + 1)
  <2> SUFFICES ASSUME NEW j \in 1..(m + 1)
               PROVE  /\ next.out[j].node = sr.path.nodes[begin + j - 1]
                      /\ next.out[j].omitted <=> begin + j - 1 \in Range(om)
    BY DEF EntriesRight
  <2> HIDE DEF next, entry
  <2>1. CASE j \in 1..m
    BY <1>11, <2>1 DEF EntriesRight
  <2>2. CASE j = m + 1
    <3>1. begin + j - 1 = idx
      BY <2>2
    <3> HIDE DEF idx
    <3>2. next.out[j] = entry
      BY <1>11, <2>2
    <3> QED BY <1>4, <1>8, <3>1, <3>2
  <2> QED BY <2>1, <2>2
<1> HIDE DEF next
<1> QED BY <1>9, <1>10, <1>11, <1>12 DEF next

\* So are they all, if the index into the omitted nodes is right at first.
LEMMA SeenRight ==
  ASSUME NEW sr, size(sr) \in Nat, IsRising(sr.omitted_nodes, size(sr)),
         NEW begin \in Nat, begin >= 1, NEW n \in Nat, begin + n <= size(sr) + 1,
         NEW first, first.out = <<>>,
         first.omit = fast_forward_indices(sr, begin)[1],
         NEW f, Seen(f, n, sr, begin, first)
  PROVE  /\ \E S : f[n].out \in Seq(S)
         /\ Len(f[n].out) = n /\ EntriesRight(sr, begin, f[n].out, n)
<1> DEFINE om == sr.omitted_nodes
           S == {EntryOf(sr, f[k - 1], begin + k - 1) : k \in 1..n}
           OmitRight(m) == /\ f[m].omit \in 1..(Len(om) + 1)
                           /\ \A i \in 1..Len(om) : om[i] < begin + m <=> i < f[m].omit
           OutRight(m) == /\ f[m].out \in Seq(S) /\ Len(f[m].out) = m
                          /\ EntriesRight(sr, begin, f[m].out, m)
           T == {m \in Nat : m \in 0..n => OmitRight(m) /\ OutRight(m)}
<1>1. 0 \in T
  <2>1. f[0] = first
    BY DEF Seen
  <2>2. OutRight(0)
    <3>1. EntriesRight(sr, begin, f[0].out, 0)
      BY DEF EntriesRight
    <3>2. f[0].out = <<>>
      BY <2>1
    <3> HIDE DEF S
    <3>3. <<>> \in Seq(S) /\ Len(<<>>) = 0
      OBVIOUS
    <3> QED BY <3>1, <3>2, <3>3
  <2>3. LET c == Cardinality({k \in DOMAIN om : om[k] < begin})
        IN  /\ c \in 0..Len(om) /\ first.omit = 1 + c
            /\ \A i \in 1..Len(om) : om[i] < begin <=> i <= c
    BY BelowAreFirst DEF fast_forward_indices
  <2>4. Len(om) \in Nat
    BY DEF IsRising, IsList
  <2>5. OmitRight(0)
    <3> DEFINE c == Cardinality({k \in DOMAIN om : om[k] < begin})
    <3>1. /\ c \in 0..Len(om) /\ first.omit = 1 + c
          /\ \A i \in 1..Len(om) : om[i] < begin <=> i <= c
      BY <2>3
    <3> HIDE DEF c, om
    <3>2. begin + 0 = begin
      OBVIOUS
    <3>3. \A i \in 1..Len(om) : i <= c <=> i < 1 + c
      BY <2>4, <3>1
    <3> QED BY <2>1, <2>4, <3>1, <3>2, <3>3
  <2> QED BY <2>2, <2>5
<1>2. ASSUME NEW m \in Nat, m \in T PROVE m + 1 \in T
  <2> SUFFICES ASSUME m + 1 \in 0..n PROVE OmitRight(m + 1) /\ OutRight(m + 1)
    OBVIOUS
  <2>1. m + 1 \in 1..n /\ (m + 1) - 1 = m /\ begin + (m + 1) - 1 = begin + m /\ m \in 0..n
    OBVIOUS
  <2>2. f[m + 1] = route_node(sr, f[m], begin + m)
    BY <2>1 DEF Seen
  <2>3. EntryOf(sr, f[m], begin + m) \in S
    BY <2>1
  <2>4. OmitRight(m) /\ OutRight(m) /\ begin + m <= size(sr)
    BY <1>2, <2>1
  <2> HIDE DEF S
  <2>5. LET next == route_node(sr, f[m], begin + m)
        IN  /\ next.out \in Seq(S) /\ Len(next.out) = m + 1
            /\ EntriesRight(sr, begin, next.out, m + 1)
            /\ next.omit \in 1..(Len(om) + 1)
            /\ \A i \in 1..Len(om) : om[i] < begin + m + 1 <=> i < next.omit
    BY <2>3, <2>4, SeenOneMore
  <2>6. begin + (m + 1) = begin + m + 1
    OBVIOUS
  <2> QED BY <2>2, <2>5, <2>6
<1>3. n \in T
  <2> HIDE DEF T
  <2> QED BY <1>1, <1>2, AllNaturals
<1>4. OutRight(n)
  <2> HIDE DEF OutRight, OmitRight
  <2> QED BY <1>3
<1> HIDE DEF S
<1> QED BY <1>4

\* from_to goes over the nodes from an index to the one before to, and marks
\* those that the station route omits (station_route.cc:106, 148).
LEMMA FromToRight ==
  ASSUME NEW sr, size(sr) \in Nat, IsRising(sr.omitted_nodes, size(sr)),
         NEW begin \in 1..size(sr), NEW n \in Nat, begin + n <= size(sr) + 1
  PROVE  LET out == from_to(sr, begin, begin + n)
         IN  /\ \E S : out \in Seq(S)
             /\ Len(out) = n /\ EntriesRight(sr, begin, out, n)
<1> DEFINE ff == fast_forward_indices(sr, begin)
           to == begin + n
           R(f) == f = [k \in 0..(to - begin) |->
                     IF k = 0
                     THEN [omit |-> ff[1], spl |-> ff[2], last |-> Null, out |-> <<>>]
                     ELSE route_node(sr, f[k - 1], begin + k - 1)]
           w == CHOOSE f : R(f)
           first == [omit |-> ff[1], spl |-> ff[2], last |-> Null, out |-> <<>>]
<1>1. /\ begin \in Nat /\ begin >= 1 /\ ~(begin > size(sr))
      /\ ~(begin > to) /\ to - begin = n
  OBVIOUS
<1>2. from_to(sr, begin, to) = w[n].out
  <2>1. from_to(sr, begin, to) = w[to - begin].out
    <3> HIDE DEF to
    <3> QED BY <1>1, Zenon DEF from_to
  <2> HIDE DEF w
  <2> QED BY <1>1, <2>1
<1>3. first.out = <<>> /\ first.omit = ff[1]
  OBVIOUS
<1>4. PICK h : Seen(h, n, sr, begin, first)
  BY SeenExists
<1>5. R(h)
  <2> HIDE DEF ff, to
  <2> DEFINE b == [k \in 0..n |-> IF k = 0 THEN first
                                  ELSE route_node(sr, h[k - 1], begin + k - 1)]
  <2>1. ASSUME NEW k \in 0..n PROVE h[k] = b[k]
    <3>1. k = 0 \/ k \in 1..n
      OBVIOUS
    <3>2. k \in 1..n => k # 0
      OBVIOUS
    <3>4. k \in 1..n => h[k] = route_node(sr, h[k - 1], begin + k - 1)
      BY <1>4 DEF Seen
    <3>3. h[0] = first
      BY <1>4 DEF Seen
    <3> HIDE DEF first
    <3> QED BY <3>1, <3>2, <3>3, <3>4
  <2>2. h = [k \in 0..n |-> h[k]]
    BY <1>4 DEF Seen
  <2>3. h = b
    <3> HIDE DEF b, first
    <3>1. b = [k \in 0..n |-> b[k]]
      BY DEF b
    <3>2. [k \in 0..n |-> h[k]] = [k \in 0..n |-> b[k]]
      BY <2>1
    <3> QED BY ONLY <2>2, <3>1, <3>2
  <2> QED BY <1>1, <2>3
<1>6. R(w)
  <2> HIDE DEF R
  <2> QED BY <1>5
<1>7. Seen(w, n, sr, begin, first)
  <2> HIDE DEF w, ff, to
  <2>0. w = [k \in 0..n |-> IF k = 0 THEN first
                            ELSE route_node(sr, w[k - 1], begin + k - 1)]
    BY <1>1, <1>6
  <2>1. w = [k \in 0..n |-> w[k]]
    BY <2>0
  <2>2. w[0] = first
    BY <2>0
  <2>3. ASSUME NEW k \in 1..n PROVE w[k] = route_node(sr, w[k - 1], begin + k - 1)
    BY <2>0
  <2> HIDE DEF first
  <2> QED BY <2>1, <2>2, <2>3 DEF Seen
<1> HIDE DEF w, R, first, ff
<1>8. begin + n <= size(sr) + 1
  OBVIOUS
<1>9. /\ \E S : w[n].out \in Seq(S)
      /\ Len(w[n].out) = n /\ EntriesRight(sr, begin, w[n].out, n)
  BY <1>1, <1>3, <1>7, <1>8, SeenRight DEF ff
<1> HIDE DEF w
<1> QED BY <1>2, <1>9 DEF to

-----------------------------------------------------------------------------
(***************************************************************************)
(* The views of an interlocking route.                                     *)
(***************************************************************************)
\* The station routes have nodes; those omitted are listed in order, and the
\* halts are among them.
RoutesMade(srs) ==
  \A k \in DOMAIN srs :
    /\ Len(srs[k].path.nodes) \in Nat \ {0}
    /\ IsRising(srs[k].omitted_nodes, Len(srs[k].path.nodes))
    /\ srs[k].passenger_halt \in 0..Len(srs[k].path.nodes)
    /\ srs[k].freight_halt \in 0..Len(srs[k].path.nodes)

\* A route leads over station routes, from an index to one.
RouteShape(srs, ir) ==
  LET c == ir.station_routes
  IN  /\ Len(c) \in Nat \ {0} /\ DOMAIN c = 1..Len(c)
      /\ \A j \in 1..Len(c) : c[j] \in DOMAIN srs
      /\ ir.start \in 1..Len(srs[c[1]].path.nodes)
      /\ ir.end \in 1..Len(srs[c[Len(c)]].path.nodes)
      /\ Len(c) = 1 => ir.start <= ir.end

\* The indices of the station route j of ir that the route leads over.
OnPart(ir, j, idx) ==
  /\ j = 1 => ir.start <= idx
  /\ j = Len(ir.station_routes) => idx <= ir.end

\* The nodes of ir on its station route j.
PartOf(ir, j) ==
  LET part == iterate_station_routes(ir)[j]
  IN  from_to(station_routes[part.sr], part.from, part.to + 1)

\* The first and the last of these indices.
FirstOn(ir, j) == IF j = 1 THEN ir.start ELSE 1
LastOn(ir, j) ==
  IF j = Len(ir.station_routes) THEN ir.end
  ELSE size(station_routes[ir.station_routes[j]])

\* A part is the nodes from its first to its last index.
LEMMA PartRight ==
  ASSUME RoutesMade(station_routes), NEW ir, RouteShape(station_routes, ir),
         NEW j \in 1..Len(ir.station_routes)
  PROVE  LET k    == ir.station_routes[j]
             sr   == station_routes[k]
             begin == FirstOn(ir, j)
             to   == LastOn(ir, j)
         IN  /\ iterate_station_routes(ir)[j] = [sr |-> k, from |-> begin, to |-> to]
             /\ k \in DOMAIN station_routes /\ size(sr) \in Nat \ {0}
             /\ begin \in 1..size(sr) /\ to \in begin..size(sr)
             /\ \A idx \in 1..size(sr) :
                  OnPart(ir, j, idx) <=> begin <= idx /\ idx <= to
             /\ \E S : PartOf(ir, j) \in Seq(S)
             /\ Len(PartOf(ir, j)) = to + 1 - begin
             /\ EntriesRight(sr, begin, PartOf(ir, j), to + 1 - begin)
<1> DEFINE c == ir.station_routes
           k == c[j]
           sr == station_routes[k]
           begin == FirstOn(ir, j)
           to == LastOn(ir, j)
<1>1. /\ Len(c) \in Nat \ {0} /\ DOMAIN c = 1..Len(c)
      /\ \A i \in 1..Len(c) : c[i] \in DOMAIN station_routes
      /\ ir.start \in 1..size(station_routes[c[1]])
      /\ ir.end \in 1..size(station_routes[c[Len(c)]])
      /\ Len(c) = 1 => ir.start <= ir.end
  BY DEF RouteShape, size
<1>2. k \in DOMAIN station_routes
  BY <1>1
<1>3. size(sr) \in Nat \ {0} /\ IsRising(sr.omitted_nodes, size(sr))
  BY <1>2 DEF RoutesMade, size
<1>4. iterate_station_routes(ir)[j] = [sr |-> k, from |-> begin, to |-> to]
  BY <1>1 DEF iterate_station_routes, FirstOn, LastOn
<1>13. /\ (j = 1 => begin = ir.start) /\ (j # 1 => begin = 1)
       /\ (j = Len(c) => to = ir.end) /\ (j # Len(c) => to = size(sr))
  BY DEF FirstOn, LastOn
<1> HIDE DEF begin, to
<1>5. begin \in 1..size(sr)
  <2>1. CASE j = 1
    BY <1>1, <1>13, <2>1
  <2>2. CASE j # 1
    BY <1>3, <1>13, <2>2
  <2> QED BY <2>1, <2>2
<1>6. to \in 1..size(sr)
  <2>1. CASE j = Len(c)
    BY <1>1, <1>13, <2>1
  <2>2. CASE j # Len(c)
    BY <1>3, <1>13, <2>2
  <2> QED BY <2>1, <2>2
<1>7. begin <= to
  <2> HIDE DEF sr
  <2>1. CASE j = 1 /\ j = Len(c)
    BY <1>1, <1>13, <2>1
  <2>2. CASE j # 1
    BY <1>6, <1>13, <2>2
  <2>3. CASE j # Len(c)
    <3>1. to = size(sr)
      BY <1>13, <2>3 DEF sr
    <3> QED BY <1>5, <1>3, <3>1
  <2> QED BY <2>1, <2>2, <2>3
<1>8. \A idx \in 1..size(sr) : OnPart(ir, j, idx) <=> begin <= idx /\ idx <= to
  <2> SUFFICES ASSUME NEW idx \in 1..size(sr)
               PROVE  OnPart(ir, j, idx) <=> begin <= idx /\ idx <= to
    OBVIOUS
  <2>1. (j = 1 => ir.start <= idx) <=> begin <= idx
    BY <1>3, <1>13
  <2>2. (j = Len(c) => idx <= ir.end) <=> idx <= to
    BY <1>3, <1>13
  <2> QED BY <2>1, <2>2 DEF OnPart
<1>9. PartOf(ir, j) = from_to(sr, begin, to + 1)
  BY <1>4 DEF PartOf
<1> HIDE DEF sr
<1> DEFINE n == to + 1 - begin
<1>10. n \in Nat /\ begin + n = to + 1 /\ begin + n <= size(sr) + 1 /\ size(sr) \in Nat
       /\ to \in begin..size(sr)
  BY <1>3, <1>5, <1>6, <1>7
<1> HIDE DEF n
<1>11. LET out == from_to(sr, begin, begin + n)
       IN  /\ \E S : out \in Seq(S)
           /\ Len(out) = n /\ EntriesRight(sr, begin, out, n)
  BY <1>3, <1>5, <1>10, FromToRight
<1>12. /\ \E S : PartOf(ir, j) \in Seq(S)
       /\ Len(PartOf(ir, j)) = n /\ EntriesRight(sr, begin, PartOf(ir, j), n)
  BY <1>9, <1>10, <1>11
<1> QED BY <1>2, <1>3, <1>4, <1>5, <1>8, <1>10, <1>12 DEF sr, n, begin, to

\* The nodes on a part, and those of them that are omitted.
NodeOn(ir, j, idx, x) ==
  LET sr == station_routes[ir.station_routes[j]]
  IN  idx \in 1..size(sr) /\ OnPart(ir, j, idx) /\ x = sr.path.nodes[idx]

OmittedOn(ir, j, idx) ==
  idx \in Range(station_routes[ir.station_routes[j]].omitted_nodes)

\* The nodes on a part, and those of them that are omitted.
LEMMA PartMembers ==
  ASSUME RoutesMade(station_routes), NEW ir, RouteShape(station_routes, ir),
         NEW j \in 1..Len(ir.station_routes), NEW x
  PROVE  /\ (\E e \in Range(PartOf(ir, j)) : e.node = x)
              <=> \E idx : NodeOn(ir, j, idx, x)
         /\ (\E e \in Range(PartOf(ir, j)) : e.node = x /\ e.omitted)
              <=> \E idx : NodeOn(ir, j, idx, x) /\ OmittedOn(ir, j, idx)
<1> DEFINE k == ir.station_routes[j]
           sr == station_routes[k]
           begin == FirstOn(ir, j)
           to == LastOn(ir, j)
           out == PartOf(ir, j)
           n == to + 1 - begin
<1>1. /\ size(sr) \in Nat \ {0} /\ begin \in 1..size(sr) /\ to \in begin..size(sr)
      /\ \A idx \in 1..size(sr) : OnPart(ir, j, idx) <=> begin <= idx /\ idx <= to
      /\ \E S : out \in Seq(S)
      /\ Len(out) = n /\ EntriesRight(sr, begin, out, n)
  BY PartRight
<1>7. /\ \A idx : NodeOn(ir, j, idx, x)
           <=> idx \in 1..size(sr) /\ OnPart(ir, j, idx) /\ x = sr.path.nodes[idx]
      /\ \A idx : OmittedOn(ir, j, idx) <=> idx \in Range(sr.omitted_nodes)
  BY DEF NodeOn, OmittedOn
<1> HIDE DEF begin, to, out, k, sr
<1>2. \A e : e \in Range(out) <=> \E i \in 1..n : out[i] = e
  BY <1>1, MembersOf
<1>3. /\ begin \in Nat /\ begin >= 1 /\ to \in Nat /\ n \in Nat /\ size(sr) \in Nat
      /\ to <= size(sr) /\ begin <= to
  BY <1>1
<1>4. \A i \in 1..n : /\ out[i].node = sr.path.nodes[begin + i - 1]
                      /\ out[i].omitted <=> begin + i - 1 \in Range(sr.omitted_nodes)
  BY <1>1 DEF EntriesRight
<1>5. ASSUME NEW e \in Range(out), e.node = x
      PROVE  \E idx \in 1..size(sr) :
               /\ OnPart(ir, j, idx) /\ x = sr.path.nodes[idx]
               /\ e.omitted <=> idx \in Range(sr.omitted_nodes)
  <2>1. PICK i \in 1..n : out[i] = e
    BY <1>2
  <2> DEFINE idx == begin + i - 1
  <2>2. idx \in 1..size(sr) /\ begin <= idx /\ idx <= to
    BY <1>3
  <2>3. x = sr.path.nodes[idx] /\ (e.omitted <=> idx \in Range(sr.omitted_nodes))
    BY <1>4, <1>5, <2>1
  <2> HIDE DEF idx
  <2>4. OnPart(ir, j, idx)
    BY <1>1, <2>2
  <2> QED BY <2>2, <2>3, <2>4
<1>6. ASSUME NEW idx \in 1..size(sr), OnPart(ir, j, idx), x = sr.path.nodes[idx]
      PROVE  \E e \in Range(out) :
               e.node = x /\ (e.omitted <=> idx \in Range(sr.omitted_nodes))
  <2> DEFINE i == idx + 1 - begin
  <2>1. begin <= idx /\ idx <= to
    BY <1>1, <1>6
  <2>2. i \in 1..n /\ begin + i - 1 = idx
    BY <1>3, <2>1
  <2> HIDE DEF i
  <2>3. out[i].node = x /\ (out[i].omitted <=> idx \in Range(sr.omitted_nodes))
    BY <1>4, <1>6, <2>2
  <2>4. out[i] \in Range(out)
    BY <1>2, <2>2
  <2> QED BY <2>3, <2>4
<1> QED BY <1>5, <1>6, <1>7 DEF out

\* The numbers of nodes of the station routes of a route, up to one of them.
LEMMA SizesSummed ==
  ASSUME NEW ir, NEW n \in Nat \ {0}, Len(ir.station_routes) = n,
         \A j \in 1..n : size(station_routes[ir.station_routes[j]]) \in Nat
  PROVE  LET srs == ir.station_routes
         IN  \E sum : /\ sum[0] = 0
                      /\ \A j \in 1..n :
                           /\ sum[j - 1] \in Nat /\ sum[j] \in Nat
                           /\ sum[j] = sum[j - 1] + size(station_routes[srs[j]])
                      /\ n # 1 => ir_size(ir) = sum[n] - (ir.start - 1)
                                                - (size(last_sr(ir)) - ir.end)
<1> DEFINE srs == ir.station_routes
           g == [j \in 1..n |-> size(station_routes[srs[j]])]
           R(f) == f = [j \in 0..Len(srs) |->
                          IF j = 0 THEN 0 ELSE f[j - 1] + size(station_routes[srs[j]])]
           w == CHOOSE f : R(f)
<1>1. PICK h : Sums(h, n, g)
  BY SumExists
<1>2. R(h)
  <2>1. h = [j \in 0..n |-> IF j = 0 THEN 0 ELSE h[j - 1] + g[j]]
    BY <1>1 DEF Sums
  <2>2. \A j \in 0..n : j = 0 \/ g[j] = size(station_routes[srs[j]])
    OBVIOUS
  <2> HIDE DEF g
  <2> QED BY <2>1, <2>2
<1>3. R(w)
  <2> HIDE DEF R
  <2> QED BY <1>2
<1>4. n # 1 => ir_size(ir) = w[n] - (ir.start - 1) - (size(last_sr(ir)) - ir.end)
  <2> SUFFICES ASSUME n # 1
               PROVE  ir_size(ir) = w[n] - (ir.start - 1) - (size(last_sr(ir)) - ir.end)
    OBVIOUS
  <2>1. ir_size(ir) = w[Len(srs)] - (ir.start - 1) - (size(last_sr(ir)) - ir.end)
    <3>1. ~(Len(srs) = 1)
      OBVIOUS
    <3> QED BY <3>1, Zenon DEF ir_size
  <2> HIDE DEF w
  <2> QED BY <2>1
<1> HIDE DEF w
<1>5. w[0] = 0 /\ \A j \in 1..n : w[j] = w[j - 1] + size(station_routes[srs[j]])
  BY <1>3
<1> HIDE DEF R
<1> DEFINE T == {k \in Nat : k \in 0..n => w[k] \in Nat}
<1>6. 0 \in T
  BY <1>5
<1>7. ASSUME NEW k \in Nat, k \in T PROVE k + 1 \in T
  <2> SUFFICES ASSUME k + 1 \in 0..n PROVE w[k + 1] \in Nat
    OBVIOUS
  <2>1. k + 1 \in 1..n /\ (k + 1) - 1 = k /\ w[k] \in Nat
    BY <1>7
  <2>2. w[k + 1] = w[k] + size(station_routes[srs[k + 1]])
    BY <1>5, <2>1
  <2>3. size(station_routes[srs[k + 1]]) \in Nat
    BY <2>1
  <2> QED BY <2>1, <2>2, <2>3
<1>8. Nat \subseteq T
  <2> HIDE DEF T
  <2> QED BY <1>6, <1>7, AllNaturals
<1>9. ASSUME NEW j \in 1..n PROVE w[j - 1] \in Nat /\ w[j] \in Nat
  <2>1. j - 1 \in Nat /\ j - 1 \in 0..n /\ j \in Nat /\ j \in 0..n
    OBVIOUS
  <2> QED BY <1>8, <2>1
<1> QED BY <1>4, <1>5, <1>9

-----------------------------------------------------------------------------
(***************************************************************************)
(* The nodes of a route, its size and its places.                          *)
(***************************************************************************)
\* A route is iterated over part by part.
LEMMA IterateParts ==
  ASSUME RoutesMade(station_routes), NEW ir, RouteShape(station_routes, ir),
         NEW n, n = Len(ir.station_routes)
  PROVE  \E f, S : /\ iterate_route(ir) = FlattenSeq([j \in 1..n |-> f[j]])
                   /\ \A j \in 1..n : f[j] = PartOf(ir, j) /\ f[j] \in Seq(S)
<1> DEFINE f == [j \in 1..n |-> PartOf(ir, j)]
           S == UNION {Range(f[j]) : j \in 1..n}
<1>1. n \in Nat \ {0} /\ DOMAIN ir.station_routes = 1..n
  BY DEF RouteShape
<1>2. iterate_route(ir) = FlattenSeq([j \in 1..n |-> f[j]])
  <2>1. iterate_route(ir) = FlattenSeq(f)
    BY <1>1 DEF iterate_route, PartOf
  <2>2. f = [j \in 1..n |-> f[j]]
    OBVIOUS
  <2> HIDE DEF f
  <2> QED BY <2>1, <2>2
<1>3. ASSUME NEW j \in 1..n PROVE f[j] \in Seq(S)
  <2>1. f[j] = PartOf(ir, j)
    OBVIOUS
  <2>2. PICK V : PartOf(ir, j) \in Seq(V)
    BY PartRight
  <2> HIDE DEF f
  <2>3. f[j] \in Seq(V)
    BY <2>1, <2>2
  <2>4. Len(f[j]) \in Nat /\ f[j] \in [1..Len(f[j]) -> V]
    BY <2>3, LenProperties
  <2>5. \A i \in 1..Len(f[j]) : f[j][i] \in Range(f[j])
    BY <2>4 DEF Range
  <2>6. f[j] \in [1..Len(f[j]) -> S]
    BY <2>4, <2>5
  <2> HIDE DEF S
  <2> QED BY <2>4, <2>6, SeqDef
<1>4. \A j \in 1..n : f[j] = PartOf(ir, j)
  OBVIOUS
<1> HIDE DEF f, S
<1> QED BY <1>2, <1>3, <1>4

\* Its nodes are those on its parts.
LEMMA IterateMembers ==
  ASSUME RoutesMade(station_routes), NEW ir, RouteShape(station_routes, ir), NEW e
  PROVE  e \in Range(iterate_route(ir))
           <=> \E j \in 1..Len(ir.station_routes) : e \in Range(PartOf(ir, j))
<1> DEFINE n == Len(ir.station_routes)
<1>1. n \in Nat
  BY DEF RouteShape
<1>2. PICK f, S : /\ iterate_route(ir) = FlattenSeq([j \in 1..n |-> f[j]])
                  /\ \A j \in 1..n : f[j] = PartOf(ir, j) /\ f[j] \in Seq(S)
  BY IterateParts
<1> HIDE DEF n
<1>3. e \in Range(iterate_route(ir)) <=> \E j \in 1..n : e \in Range(f[j])
  <2>1. e \in Range(FlattenSeq([j \in 1..n |-> f[j]])) <=> \E j \in 1..n : e \in Range(f[j])
    BY <1>1, <1>2, FlattenMembers
  <2> QED BY <1>2, <2>1
<1> QED BY <1>2, <1>3 DEF n

\* It begins with its first node and ends with its last one.
LEMMA IterateEnds ==
  ASSUME RoutesMade(station_routes), NEW ir, RouteShape(station_routes, ir)
  PROVE  LET nodes == iterate_route(ir)
         IN  /\ \E S : nodes \in Seq(S)
             /\ Len(nodes) \in Nat \ {0}
             /\ nodes[1].node = first_node(ir)
             /\ nodes[Len(nodes)].node = last_node(ir)
<1> DEFINE n == Len(ir.station_routes)
           nodes == iterate_route(ir)
           c == ir.station_routes
<1>1. n \in Nat \ {0} /\ DOMAIN c = 1..n
  BY DEF RouteShape
<1>2. PICK f, S : /\ nodes = FlattenSeq([j \in 1..n |-> f[j]])
                  /\ \A j \in 1..n : f[j] = PartOf(ir, j) /\ f[j] \in Seq(S)
  BY IterateParts
<1>3. ASSUME NEW j \in 1..n
      PROVE  /\ Len(f[j]) \in Nat /\ Len(f[j]) >= 1
             /\ f[j][1].node = station_routes[c[j]].path.nodes[FirstOn(ir, j)]
             /\ f[j][Len(f[j])].node = station_routes[c[j]].path.nodes[LastOn(ir, j)]
  <2> DEFINE sr == station_routes[c[j]]
             begin == FirstOn(ir, j)
             to == LastOn(ir, j)
             len == to + 1 - begin
  <2>1. /\ size(sr) \in Nat \ {0} /\ begin \in 1..size(sr) /\ to \in begin..size(sr)
        /\ Len(PartOf(ir, j)) = len /\ EntriesRight(sr, begin, PartOf(ir, j), len)
    BY PartRight
  <2> HIDE DEF sr, begin, to
  <2>2. len \in Nat /\ len >= 1 /\ 1 \in 1..len /\ len \in 1..len
        /\ begin + 1 - 1 = begin /\ begin + len - 1 = to
    BY <2>1
  <2>3. Len(f[j]) = len /\ EntriesRight(sr, begin, f[j], len)
    BY <1>2, <2>1
  <2> HIDE DEF len
  <2>4. f[j][1].node = sr.path.nodes[begin] /\ f[j][len].node = sr.path.nodes[to]
    BY <2>2, <2>3 DEF EntriesRight
  <2> QED BY <2>2, <2>3, <2>4 DEF sr, begin, to
<1>4. 1 \in 1..n /\ n \in 1..n /\ n \in Nat /\ n >= 1
  BY <1>1
<1> HIDE DEF n, nodes
<1>5. nodes \in Seq(S) /\ Len(nodes) >= 1 /\ nodes[1] = f[1][1]
      /\ nodes[Len(nodes)] = f[n][Len(f[n])]
  <2> DEFINE s == FlattenSeq([j \in 1..n |-> f[j]])
  <2>1. Len(f[1]) >= 1 /\ Len(f[n]) >= 1
    BY <1>3, <1>4
  <2>2. s \in Seq(S) /\ Len(s) >= 1 /\ s[1] = f[1][1] /\ s[Len(s)] = f[n][Len(f[n])]
    BY <1>2, <1>4, <2>1, FlattenEnds
  <2> HIDE DEF s
  <2>3. nodes = s
    BY <1>2 DEF s
  <2> QED BY <2>2, <2>3
<1>6. FirstOn(ir, 1) = ir.start /\ LastOn(ir, n) = ir.end
  BY DEF FirstOn, LastOn, n
<1>7. first_node(ir) = station_routes[c[1]].path.nodes[ir.start]
      /\ last_node(ir) = station_routes[c[n]].path.nodes[ir.end]
  BY DEF first_node, last_node, first_sr, last_sr, Last, n
<1>8. Len(nodes) \in Nat
  BY <1>5, LenProperties
<1> QED BY <1>3, <1>4, <1>5, <1>6, <1>7, <1>8 DEF nodes

\* The number of its nodes (interlocking_route.cc:28).
LEMMA IterateSize ==
  ASSUME RoutesMade(station_routes), NEW ir, RouteShape(station_routes, ir)
  PROVE  Len(iterate_route(ir)) = ir_size(ir)
<1> DEFINE n == Len(ir.station_routes)
           c == ir.station_routes
           nodes == iterate_route(ir)
           len(j) == size(station_routes[c[j]])
<1>1. /\ n \in Nat \ {0} /\ DOMAIN c = 1..n
      /\ ir.start \in 1..len(1) /\ ir.end \in 1..len(n)
      /\ \A j \in 1..n : len(j) \in Nat
      /\ ir.start \in Nat /\ ir.end \in Nat /\ len(n) \in Nat
  <2>1. n \in Nat \ {0} /\ DOMAIN c = 1..n /\ \A j \in 1..n : c[j] \in DOMAIN station_routes
    BY DEF RouteShape
  <2>2. ir.start \in 1..len(1) /\ ir.end \in 1..len(n)
    BY DEF RouteShape, size
  <2>3. \A k \in DOMAIN station_routes : size(station_routes[k]) \in Nat
    BY DEF RoutesMade, size
  <2>4. \A j \in 1..n : len(j) \in Nat
    BY <2>1, <2>3
  <2>5. 1 \in 1..n /\ n \in 1..n
    BY <2>1
  <2>6. len(1) \in Nat /\ len(n) \in Nat
    BY <2>4, <2>5
  <2> HIDE DEF len, n, c
  <2> QED BY <2>1, <2>2, <2>4, <2>6
<1>2. PICK f, S : /\ nodes = FlattenSeq([j \in 1..n |-> f[j]])
                  /\ \A j \in 1..n : f[j] = PartOf(ir, j) /\ f[j] \in Seq(S)
  BY IterateParts
<1>3. ASSUME NEW j \in 1..n PROVE Len(f[j]) = LastOn(ir, j) + 1 - FirstOn(ir, j)
  BY <1>2, PartRight
<1>4. PICK sum : /\ sum[0] = 0
                 /\ \A j \in 1..n : /\ sum[j - 1] \in Nat /\ sum[j] \in Nat
                                    /\ sum[j] = sum[j - 1] + len(j)
                 /\ n # 1 =>
                      ir_size(ir)
                        = sum[n] - (ir.start - 1) - (size(last_sr(ir)) - ir.end)
  <2>1. Len(c) = n
    OBVIOUS
  <2> HIDE DEF n
  <2> QED BY <1>1, <2>1, SizesSummed
<1>5. size(last_sr(ir)) = len(n)
  BY DEF last_sr, Last
<1>6. ASSUME NEW j \in 1..n
      PROVE  /\ j = 1 => FirstOn(ir, j) = ir.start
             /\ j # 1 => FirstOn(ir, j) = 1
             /\ j = n => LastOn(ir, j) = ir.end
             /\ j # n => LastOn(ir, j) = len(j)
  BY DEF FirstOn, LastOn
<1>7. n = 1 => ir_size(ir) = ir.end - ir.start + 1
  BY DEF ir_size
\* the sum of the lengths of the parts
<1> DEFINE total == [j \in 0..n |-> IF j = 0 THEN 0
                                    ELSE IF j = n
                                    THEN sum[j] - (ir.start - 1) - (len(n) - ir.end)
                                    ELSE sum[j] - (ir.start - 1)]
<1>8. total[0] = 0
  BY <1>1
<1>9. ASSUME NEW j \in 1..n PROVE total[j] = total[j - 1] + Len(f[j])
  <2>1. /\ sum[j - 1] \in Nat /\ sum[j] \in Nat /\ sum[j] = sum[j - 1] + len(j)
        /\ len(j) \in Nat /\ len(n) \in Nat
        /\ ir.start \in Nat /\ ir.end \in Nat /\ n \in Nat
    <3> HIDE DEF len, n
    <3> QED BY <1>1, <1>4
  <2>7. Len(f[j]) = LastOn(ir, j) + 1 - FirstOn(ir, j)
    BY <1>3
  <2>2. /\ j = n => total[j] = sum[j] - (ir.start - 1) - (len(j) - ir.end)
        /\ j # n => total[j] = sum[j] - (ir.start - 1)
        /\ j = 1 => total[j - 1] = 0 /\ sum[j - 1] = 0
        /\ j # 1 => total[j - 1] = sum[j - 1] - (ir.start - 1)
    <3>1. j \in 0..n /\ j # 0 /\ j - 1 \in 0..n /\ j - 1 # n /\ (j # 1 => j - 1 # 0)
          /\ (j = 1 => j - 1 = 0)
      BY <2>1
    <3> HIDE DEF len
    <3> QED BY <3>1, <1>4, <1>8
  <2>8. /\ j = 1 => FirstOn(ir, j) = ir.start
        /\ j # 1 => FirstOn(ir, j) = 1
        /\ j = n => LastOn(ir, j) = ir.end
        /\ j # n => LastOn(ir, j) = len(j)
    BY <1>6
  <2> HIDE DEF total, len, n
  <2>3. CASE j = 1 /\ j = n
    <3>1. /\ total[j] = sum[j] - (ir.start - 1) - (len(j) - ir.end)
          /\ total[j - 1] = 0 /\ sum[j - 1] = 0
          /\ Len(f[j]) = ir.end + 1 - ir.start
      BY <2>2, <2>3, <2>7, <2>8
    <3>2. /\ sum[j - 1] \in Int /\ len(j) \in Int /\ ir.start \in Int /\ ir.end \in Int
          /\ sum[j] = sum[j - 1] + len(j)
      BY <2>1
    <3> QED BY <3>1, <3>2
  <2>4. CASE j = 1 /\ j # n
    BY <2>1, <2>2, <2>4, <2>7, <2>8
  <2>5. CASE j # 1 /\ j = n
    <3>1. /\ total[j] = sum[j] - (ir.start - 1) - (len(j) - ir.end)
          /\ total[j - 1] = sum[j - 1] - (ir.start - 1)
          /\ Len(f[j]) = ir.end + 1 - 1
      BY <2>2, <2>5, <2>7, <2>8
    <3>2. /\ sum[j - 1] \in Int /\ len(j) \in Int /\ ir.start \in Int /\ ir.end \in Int
          /\ sum[j] = sum[j - 1] + len(j)
      BY <2>1
    <3> QED BY <3>1, <3>2
  <2>6. CASE j # 1 /\ j # n
    BY <2>1, <2>2, <2>6, <2>7, <2>8
  <2> QED BY <2>3, <2>4, <2>5, <2>6
<1>10. total[n] = ir_size(ir)
  <2>1. n \in 0..n /\ n # 0 /\ n \in 1..n
    BY <1>1
  <2>2. total[n] = sum[n] - (ir.start - 1) - (len(n) - ir.end)
    BY <2>1
  <2> HIDE DEF total, len, n
  <2>3. CASE n = 1
    <3>1. sum[1] = 0 + len(1) /\ ir.start \in Nat /\ ir.end \in Nat /\ len(1) \in Nat
      <4>1. 1 \in 1..n /\ 1 - 1 = 0
        BY <2>3
      <4> QED BY <1>1, <1>4, <4>1
    <3> QED BY <1>7, <2>2, <2>3, <3>1
  <2>4. CASE n # 1
    BY <1>4, <1>5, <2>2, <2>4
  <2> QED BY <2>3, <2>4
<1> HIDE DEF total, len, n, nodes
<1>11. Len(FlattenSeq([j \in 1..n |-> f[j]])) = total[n]
  <2>1. n \in Nat /\ \A j \in 1..n : f[j] \in Seq(S)
    BY <1>1, <1>2
  <2> QED BY <1>8, <1>9, <2>1, FlattenLength
<1> QED BY <1>2, <1>10, <1>11 DEF nodes

\* contains() looks at the same nodes (interlocking_route.cc:45).
LEMMA ContainsRight ==
  ASSUME RoutesMade(station_routes), NEW ir, RouteShape(station_routes, ir),
         NEW k, NEW idx \in 1..size(station_routes[k])
  PROVE  contains(ir, k, idx)
           <=> \E j \in 1..Len(ir.station_routes) :
                 ir.station_routes[j] = k /\ OnPart(ir, j, idx)
<1> DEFINE c == ir.station_routes
           n == Len(c)
<1>1. /\ n \in Nat \ {0} /\ DOMAIN c = 1..n
      /\ \A j \in 1..n : c[j] \in DOMAIN station_routes
  BY DEF RouteShape
<1>2. CASE n = 1
  <2>1. contains(ir, k, idx) <=> c[1] = k /\ ir.start <= idx /\ idx <= ir.end
    BY <1>2 DEF contains
  <2>2. \A j \in 1..n : j = 1 /\ j = n
    BY <1>2
  <2>3. 1 \in 1..n
    BY <1>2
  <2> QED BY <2>1, <2>2, <2>3 DEF OnPart
<1>3. CASE n # 1
  <2> DEFINE mid == SubSeq(c, 2, n - 1)
  <2>1. contains(ir, k, idx) <=> \/ c[1] = k /\ ir.start <= idx
                                 \/ c[n] = k /\ idx <= ir.end
                                 \/ k \in Range(mid)
    BY <1>3 DEF contains, Last
  <2>2. k \in Range(mid) <=> \E j \in 2..(n - 1) : c[j] = k
    <3>1. /\ mid \in Seq(DOMAIN station_routes)
          /\ Len(mid) = IF 2 <= n - 1 THEN (n - 1) - 2 + 1 ELSE 0
          /\ \A i \in 1..((n - 1) - 2 + 1) : mid[i] = c[2 + i - 1]
      <4> HIDE DEF n, mid
      <4>1. n - 1 \in Int /\ 2 \in Int
        BY <1>1
      <4>2. \A j \in 2..(n - 1) : c[j] \in DOMAIN station_routes
        BY <1>1
      <4> HIDE DEF c
      <4>3. /\ SubSeq(c, 2, n - 1) \in Seq(DOMAIN station_routes)
            /\ Len(SubSeq(c, 2, n - 1)) = IF 2 <= n - 1 THEN (n - 1) - 2 + 1 ELSE 0
            /\ \A i \in 1..((n - 1) - 2 + 1) : SubSeq(c, 2, n - 1)[i] = c[2 + i - 1]
        BY <4>1, <4>2, SubSeqProperties
      <4> QED BY <4>3 DEF mid
    <3> HIDE DEF mid, n, c
    <3>2. k \in Range(mid) <=> \E i \in 1..Len(mid) : mid[i] = k
      BY <3>1, MembersOf
    <3>3. ASSUME NEW i \in 1..Len(mid) PROVE i + 1 \in 2..(n - 1) /\ c[i + 1] = mid[i]
      <4>1. i \in 1..((n - 1) - 2 + 1) /\ 2 + i - 1 = i + 1
        BY <1>1, <3>1
      <4> QED BY <1>1, <3>1, <4>1
    <3>4. ASSUME NEW j \in 2..(n - 1) PROVE j - 1 \in 1..Len(mid) /\ mid[j - 1] = c[j]
      <4>1. j - 1 \in 1..((n - 1) - 2 + 1) /\ 2 + (j - 1) - 1 = j /\ 2 <= n - 1
        BY <1>1
      <4> QED BY <1>1, <3>1, <4>1
    <3> QED BY <3>2, <3>3, <3>4
  <2> HIDE DEF mid
  <2>3. 1 \in 1..n /\ n \in 1..n /\ 2..(n - 1) \subseteq 1..n
    BY <1>1
  <2>4. ASSUME contains(ir, k, idx)
        PROVE  \E j \in 1..n : c[j] = k /\ OnPart(ir, j, idx)
    <3>1. CASE c[1] = k /\ ir.start <= idx
      BY <1>3, <2>3, <3>1 DEF OnPart
    <3>2. CASE c[n] = k /\ idx <= ir.end
      BY <1>3, <2>3, <3>2 DEF OnPart
    <3>3. CASE k \in Range(mid)
      <4>1. PICK j \in 2..(n - 1) : c[j] = k
        BY <2>2, <3>3
      <4>2. j \in 1..n /\ j # 1 /\ j # n
        BY <1>1
      <4> QED BY <4>1, <4>2 DEF OnPart
    <3> QED BY <2>1, <2>4, <3>1, <3>2, <3>3
  <2>5. ASSUME NEW j \in 1..n, c[j] = k, OnPart(ir, j, idx)
        PROVE  contains(ir, k, idx)
    <3>1. j = 1 \/ j = n \/ j \in 2..(n - 1)
      BY <1>1
    <3>2. CASE j = 1
      BY <2>1, <2>5, <3>2 DEF OnPart
    <3>3. CASE j = n
      BY <2>1, <2>5, <3>3 DEF OnPart
    <3>4. CASE j \in 2..(n - 1)
      BY <2>1, <2>2, <2>5, <3>4
    <3> QED BY <3>1, <3>2, <3>3, <3>4
  <2> QED BY <2>4, <2>5
<1> QED BY <1>2, <1>3

-----------------------------------------------------------------------------
(***************************************************************************)
(* The mappings lead to the nodes, station routes and stations of a route. *)
(***************************************************************************)
\* The nodes at which trains can halt on the station route j of ir.
HaltsOn(ir, j) ==
  LET part  == iterate_station_routes(ir)[j]
      sr    == station_routes[part.sr]
      halts == Selected(<<sr.passenger_halt, sr.freight_halt>>,
                        LAMBDA h : h # NoIdx /\ part_contains(part, h))
  IN  [h \in DOMAIN halts |-> sr.path.nodes[halts[h]]]

\* They are the halts of the station route, if the route leads over them.
LEMMA HaltsOnPart ==
  ASSUME RoutesMade(station_routes), NEW ir, RouteShape(station_routes, ir),
         NEW j \in 1..Len(ir.station_routes), NEW sr,
         sr = station_routes[ir.station_routes[j]]
  PROVE  /\ \E S : HaltsOn(ir, j) \in Seq(S)
         /\ \A x : x \in Range(HaltsOn(ir, j))
              <=> \E h \in {sr.passenger_halt, sr.freight_halt} :
                    h # NoIdx /\ OnPart(ir, j, h) /\ x = sr.path.nodes[h]
<1> DEFINE k == ir.station_routes[j]
           part == iterate_station_routes(ir)[j]
           sr2 == station_routes[part.sr]
           s == <<sr2.passenger_halt, sr2.freight_halt>>
           T == {i \in DOMAIN s : s[i] # NoIdx /\ part_contains(part, s[i])}
           at == SetAsVector(T)
           halts == [i \in DOMAIN at |-> s[at[i]]]
           out == [h \in DOMAIN halts |-> sr2.path.nodes[halts[h]]]
<1>1. /\ part = [sr |-> k, from |-> FirstOn(ir, j), to |-> LastOn(ir, j)]
      /\ k \in DOMAIN station_routes
      /\ \A idx \in 1..size(sr) :
           OnPart(ir, j, idx) <=> FirstOn(ir, j) <= idx /\ idx <= LastOn(ir, j)
  BY PartRight
<1>2. /\ size(sr) \in Nat \ {0}
      /\ sr.passenger_halt \in 0..size(sr) /\ sr.freight_halt \in 0..size(sr)
  BY <1>1 DEF RoutesMade, size
<1>3. HaltsOn(ir, j) = out
  BY DEF HaltsOn, Selected, Indices
<1>12. sr2 = sr
  BY <1>1
<1> HIDE DEF sr2
<1>4. DOMAIN s = 1..2 /\ s[1] = sr.passenger_halt /\ s[2] = sr.freight_halt
  BY <1>12
<1>5. \A i \in 1..2 : i \in T <=> s[i] # NoIdx /\ OnPart(ir, j, s[i])
  <2> SUFFICES ASSUME NEW i \in 1..2
               PROVE  i \in T <=> s[i] # NoIdx /\ OnPart(ir, j, s[i])
    OBVIOUS
  <2>1. s[i] \in 0..size(sr)
    BY <1>2, <1>4
  <2>2. i \in T <=> s[i] # NoIdx /\ FirstOn(ir, j) <= s[i] /\ s[i] <= LastOn(ir, j)
    <3>1. part_contains(part, s[i]) <=> FirstOn(ir, j) <= s[i] /\ s[i] <= LastOn(ir, j)
      BY <1>1 DEF part_contains
    <3> HIDE DEF part, s
    <3> QED BY <3>1, <1>4
  <2> HIDE DEF s, T, part
  <2>3. s[i] # NoIdx => s[i] \in 1..size(sr)
    BY <1>2, <2>1 DEF NoIdx
  <2> QED BY <1>1, <2>2, <2>3
<1>6. T \in SUBSET (1..2)
  BY <1>4
<1> HIDE DEF T, s, part
<1>7. /\ IsRising(at, 2) /\ \A i : i \in Range(at) <=> i \in T
  <2>1. 2 \in Nat
    OBVIOUS
  <2> QED BY <1>6, <2>1, VectorRises
<1> HIDE DEF at
<1>8. Len(at) \in Nat /\ DOMAIN at = 1..Len(at)
  BY <1>7 DEF IsRising, IsList
<1>9. out = [i \in 1..Len(at) |-> sr.path.nodes[s[at[i]]]]
  BY <1>8, <1>12
<1> HIDE DEF out
<1>10. out \in Seq(Range(out)) /\ DOMAIN out = 1..Len(at)
  <2>1. DOMAIN out = 1..Len(at) /\ out \in [1..Len(at) -> Range(out)]
    BY <1>9 DEF Range
  <2> QED BY <1>8, <2>1, SeqDef
<1>11. ASSUME NEW x
       PROVE  x \in Range(out) <=> \E h \in {sr.passenger_halt, sr.freight_halt} :
                h # NoIdx /\ OnPart(ir, j, h) /\ x = sr.path.nodes[h]
  <2>1. x \in Range(out) <=> \E i \in 1..Len(at) : x = sr.path.nodes[s[at[i]]]
    BY <1>9, <1>10 DEF Range
  <2>2. \A i : i \in T <=> \E p \in 1..Len(at) : at[p] = i
    BY <1>7, <1>8 DEF Range
  <2>3. x \in Range(out) <=> \E i \in T : x = sr.path.nodes[s[i]]
    BY <2>1, <2>2
  <2>4. \A i \in T : i \in 1..2
    BY <1>6
  <2>5. 1 \in 1..2 /\ 2 \in 1..2 /\ \A i \in 1..2 : i = 1 \/ i = 2
    OBVIOUS
  <2>6. ASSUME NEW i \in T, x = sr.path.nodes[s[i]]
        PROVE  \E h \in {sr.passenger_halt, sr.freight_halt} :
                 h # NoIdx /\ OnPart(ir, j, h) /\ x = sr.path.nodes[h]
    <3>1. s[i] \in {sr.passenger_halt, sr.freight_halt}
      BY <1>4, <2>4, <2>5
    <3> QED BY <1>5, <2>4, <2>6, <3>1
  <2>7. ASSUME NEW h \in {sr.passenger_halt, sr.freight_halt},
               h # NoIdx, OnPart(ir, j, h), x = sr.path.nodes[h]
        PROVE  \E i \in T : x = sr.path.nodes[s[i]]
    <3>1. PICK i \in 1..2 : s[i] = h
      BY <1>4, <2>5
    <3>2. i \in T
      BY <1>5, <2>7, <3>1
    <3> QED BY <2>7, <3>1, <3>2
  <2> QED BY <2>3, <2>6, <2>7
<1> QED BY <1>3, <1>10, <1>11

\* halts_of lists the halts of all station routes (get_interlocking.cc:29).
LEMMA HaltsRight ==
  ASSUME RoutesMade(station_routes), NEW ir, RouteShape(station_routes, ir)
  PROVE  /\ \E S : halts_of(ir) \in Seq(S)
         /\ \A x : x \in Range(halts_of(ir))
              <=> \E j \in 1..Len(ir.station_routes) : x \in Range(HaltsOn(ir, j))
<1> DEFINE n == Len(ir.station_routes)
           f == [j \in 1..n |-> HaltsOn(ir, j)]
           S == UNION {Range(f[j]) : j \in 1..n}
<1>1. n \in Nat \ {0} /\ DOMAIN ir.station_routes = 1..n
  BY DEF RouteShape
<1>2. halts_of(ir) = FlattenSeq([j \in 1..n |-> f[j]])
  <2>1. halts_of(ir) = FlattenSeq(f)
    BY <1>1 DEF halts_of, HaltsOn
  <2>2. f = [j \in 1..n |-> f[j]]
    OBVIOUS
  <2> HIDE DEF f
  <2> QED BY <2>1, <2>2
<1>3. ASSUME NEW j \in 1..n PROVE f[j] \in Seq(S)
  <2>1. f[j] = HaltsOn(ir, j)
    OBVIOUS
  <2>2. PICK V : HaltsOn(ir, j) \in Seq(V)
    BY HaltsOnPart
  <2> HIDE DEF f
  <2>3. f[j] \in Seq(V)
    BY <2>1, <2>2
  <2>4. Len(f[j]) \in Nat /\ f[j] \in [1..Len(f[j]) -> V]
    BY <2>3, LenProperties
  <2>5. \A i \in 1..Len(f[j]) : f[j][i] \in Range(f[j])
    BY <2>4 DEF Range
  <2>6. f[j] \in [1..Len(f[j]) -> S]
    BY <2>4, <2>5
  <2> HIDE DEF S
  <2> QED BY <2>4, <2>6, SeqDef
<1>4. \A j \in 1..n : f[j] = HaltsOn(ir, j)
  OBVIOUS
<1> HIDE DEF f, S, n
<1>5. halts_of(ir) \in Seq(S)
  BY <1>1, <1>2, <1>3, FlattenTyped
<1>6. ASSUME NEW x PROVE x \in Range(halts_of(ir)) <=> \E j \in 1..n : x \in Range(f[j])
  <2>1. x \in Range(FlattenSeq([j \in 1..n |-> f[j]])) <=> \E j \in 1..n : x \in Range(f[j])
    BY <1>1, <1>3, FlattenMembers
  <2> QED BY <1>2, <2>1
<1> QED BY <1>4, <1>5, <1>6 DEF n

\* Something is repeated if it is a member.
LEMMA OccurrencesOfMember ==
  ASSUME NEW S, NEW s \in Seq(S), NEW x
  PROVE  Occurrences(s, x) \in Nat /\ (Occurrences(s, x) # 0 <=> x \in Range(s))
<1> DEFINE T == {k \in DOMAIN s : s[k] = x}
<1>1. DOMAIN s = 1..Len(s) /\ Len(s) \in Nat
  BY LenProperties
<1>2. IsFiniteSet(T)
  <2>1. IsFiniteSet(1..Len(s))
    BY <1>1, FS_Interval
  <2>2. T \in SUBSET (1..Len(s))
    BY <1>1
  <2> HIDE DEF T
  <2> QED BY <2>1, <2>2, FS_Subset
<1>3. Cardinality(T) \in Nat /\ (Cardinality(T) = 0 <=> T = {})
  <2> HIDE DEF T
  <2> QED BY <1>2, FS_CardinalityType, FS_EmptySet
<1>4. T # {} <=> x \in Range(s)
  BY DEF Range
<1>5. Occurrences(s, x) = Cardinality(T)
  BY DEF Occurrences
<1> HIDE DEF T
<1> QED BY <1>3, <1>4, <1>5

\* The lists of ids that repeat each as often as it occurs.
LEMMA RepeatedIds ==
  ASSUME NEW n \in Nat, NEW g, \A i \in 1..n : \E S : g[i] \in Seq(S), NEW x, NEW id
  PROVE  id \in Range(FlattenSeq([i \in 1..n |-> Repeated(i, Occurrences(g[i], x))]))
           <=> id \in 1..n /\ x \in Range(g[id])
<1> DEFINE f == [i \in 1..n |-> Repeated(i, Occurrences(g[i], x))]
<1>1. ASSUME NEW i \in 1..n
      PROVE  /\ f[i] \in Seq(1..n)
             /\ \A k : k \in Range(f[i]) <=> k = i /\ x \in Range(g[i])
  <2> DEFINE m == Occurrences(g[i], x)
  <2>1. f[i] = [j \in 1..m |-> i]
    BY DEF Repeated
  <2>2. m \in Nat /\ (m # 0 <=> x \in Range(g[i]))
    <3>1. PICK S : g[i] \in Seq(S)
      OBVIOUS
    <3> QED BY <3>1, OccurrencesOfMember
  <2> HIDE DEF m, f
  <2>3. f[i] \in [1..m -> 1..n] /\ DOMAIN f[i] = 1..m
    BY <2>1
  <2>4. f[i] \in Seq(1..n)
    BY <2>2, <2>3, SeqDef
  <2>5. m # 0 <=> 1 \in 1..m
    BY <2>2
  <2>6. \A k : k \in Range(f[i]) <=> k = i /\ m # 0
    <3>1. \A k : k \in Range(f[i]) <=> \E j \in 1..m : k = i
      BY <2>1, <2>3 DEF Range
    <3>2. (\E j \in 1..m : TRUE) <=> m # 0
      BY <2>2
    <3> QED BY <3>1, <3>2
  <2> QED BY <2>2, <2>4, <2>6
<1>2. f = [i \in 1..n |-> f[i]]
  OBVIOUS
<1>3. FlattenSeq([i \in 1..n |-> Repeated(i, Occurrences(g[i], x))])
        = FlattenSeq([i \in 1..n |-> f[i]])
  <2>1. FlattenSeq([i \in 1..n |-> Repeated(i, Occurrences(g[i], x))]) = FlattenSeq(f)
    OBVIOUS
  <2> HIDE DEF f
  <2> QED BY <1>2, <2>1
<1> HIDE DEF f
<1>4. id \in Range(FlattenSeq([i \in 1..n |-> f[i]])) <=> \E i \in 1..n : id \in Range(f[i])
  <2>1. \A i \in 1..n : f[i] \in Seq(1..n)
    BY <1>1
  <2> QED BY <2>1, FlattenMembers
<1>5. (\E i \in 1..n : id \in Range(f[i])) <=> id \in 1..n /\ x \in Range(g[id])
  BY <1>1
<1> QED BY <1>3, <1>4, <1>5

\* A mapping leads from x to the route id.
Leads(map, x, id) == x \in DOMAIN map /\ id \in Range(map[x])

\* Trains can halt at the node x of the station route j of ir.
HaltsAt(srs, ir, j, x) ==
  LET sr == srs[ir.station_routes[j]]
  IN  \E h \in {sr.passenger_halt, sr.freight_halt} :
        h # NoIdx /\ OnPart(ir, j, h) /\ x = sr.path.nodes[h]

\* The mappings lead from x to the route id exactly if x is on it.
MapsFrom(il, srs, id, x) ==
  LET ir == il.routes[id]
      c  == ir.station_routes
  IN  /\ Leads(il.starting_at, x, id) <=> x = FirstIn(srs, ir)
      /\ Leads(il.ending_at, x, id) <=> x = LastIn(srs, ir)
      /\ Leads(il.halting_at, x, id)
           <=> \E j \in 1..Len(c) : HaltsAt(srs, ir, j, x)
      /\ Leads(il.sr_to_participating_irs, x, id) <=> \E j \in 1..Len(c) : c[j] = x
      /\ Leads(il.station_to_irs, x, id)
           <=> \E j \in 1..Len(c) : srs[c[j]].station = x

\* The routes have their shape, and the mappings lead to them.
MapsRight(il, srs) ==
  \A id \in DOMAIN il.routes :
    RouteShape(srs, il.routes[id]) /\ \A x : MapsFrom(il, srs, id, x)

\* The routes have their shape when the mappings are filled.
LEMMA RoutesShaped ==
  ASSUME Typed, NEW ir, IsInterlockingRoute(ir)
  PROVE  RouteShape(station_routes, ir)
<1> DEFINE c == ir.station_routes
<1>1. /\ c \in Seq(DOMAIN station_routes) /\ c # <<>>
      /\ ir.start \in 1..size(first_sr(ir)) /\ ir.end \in 1..size(last_sr(ir))
      /\ ~(Len(c) > 1) => ir.start <= ir.end
  BY DEF IsInterlockingRoute, IsChain
<1>2. /\ Len(c) \in Nat \ {0} /\ DOMAIN c = 1..Len(c)
      /\ \A j \in 1..Len(c) : c[j] \in DOMAIN station_routes
  <2> HIDE DEF c
  <2> QED BY <1>1, LenProperties, EmptySeq
<1>3. Len(c) = 1 => ~(Len(c) > 1)
  BY <1>2
<1> QED BY <1>1, <1>2, <1>3 DEF RouteShape, size, first_sr, last_sr, Last

\* The fields of the interlocking.
IlFields == {"routes", "halting_at", "starting_at", "ending_at",
             "sr_to_participating_irs", "station_to_irs"}

\* The stations of the station routes are stations of the rail plan.
StationsKnown(net, srs) ==
  \A k \in DOMAIN srs :
    srs[k].station \in {x.station : x \in Range(net.sections) \cup Range(net.routes)}

\* The mappings are filled (get_interlocking.cc:306).
LEMMA GetInterlockingMaps ==
  ASSUME RouteInv, RoutesMade(station_routes), NodesKnown(station_routes, next_node),
         StationsKnown(network, station_routes), get_interlocking,
         IlFields \subseteq DOMAIN interlocking
  PROVE  MapsRight(interlocking', station_routes')
<1> DEFINE irs == interlocking.routes
           n == Len(irs)
           il == interlocking'
<1>1. /\ stage = "mappings" /\ station_routes' = station_routes /\ next_node' = next_node
      /\ il.routes = irs
      /\ il.starting_at = [x \in DOMAIN next_node |-> get_starting_at(x)]
      /\ il.ending_at = [x \in DOMAIN next_node |-> get_ending_at(x)]
      /\ il.halting_at = [x \in DOMAIN next_node |-> get_halting_at(x)]
      /\ il.sr_to_participating_irs
           = [k \in DOMAIN station_routes |-> get_sr_to_participating_irs(k)]
      /\ il.station_to_irs
           = [s \in stations |-> get_station_to_interlocking_routes(s)]
  BY DEF get_interlocking, graph_vars, route_vars, IlFields
<1>2. /\ AllRight(irs) /\ DOMAIN irs = 1..n
      /\ \A id \in DOMAIN irs : IsInterlockingRoute(irs[id])
  BY <1>1, AllAreFound DEF Range
<1>3. Typed
  BY <1>1 DEF RouteInv, SearchStages
<1>4. n \in Nat
  BY <1>2, LenProperties DEF AllRight
<1>5. \A id \in 1..n : RouteShape(station_routes, irs[id])
  BY <1>2, <1>3, RoutesShaped
<1>6. Mapped(il, station_routes, next_node)
  <2>1. {"routes", "starting_at", "ending_at"} \subseteq DOMAIN interlocking
    BY DEF IlFields
  <2> QED BY <1>1, <2>1, GetInterlocking
<1> HIDE DEF il, irs, n
<1>12. (\A id \in 1..n : \A x : MapsFrom(il, station_routes, id, x))
         => MapsRight(il, station_routes)
  BY <1>1, <1>2, <1>5 DEF MapsRight
<1> SUFFICES ASSUME NEW id \in 1..n, NEW x
             PROVE  MapsFrom(il, station_routes, id, x)
  BY <1>1, <1>12 DEF il
<1> DEFINE ir == irs[id]
           c  == ir.station_routes
<1>7. /\ Len(c) \in Nat \ {0} /\ DOMAIN c = 1..Len(c)
      /\ \A j \in 1..Len(c) : c[j] \in DOMAIN station_routes
      /\ RouteShape(station_routes, ir)
  BY <1>5 DEF RouteShape
<1>8. /\ Leads(il.starting_at, x, id) <=> x = FirstIn(station_routes, ir)
      /\ Leads(il.ending_at, x, id) <=> x = LastIn(station_routes, ir)
  <2>1. /\ FirstIn(station_routes, ir) \in DOMAIN next_node
        /\ LastIn(station_routes, ir) \in DOMAIN next_node
        /\ \A y \in DOMAIN next_node :
             /\ id \in Range(il.starting_at[y]) <=> FirstIn(station_routes, ir) = y
             /\ id \in Range(il.ending_at[y]) <=> LastIn(station_routes, ir) = y
    BY <1>1, <1>2, <1>6 DEF Mapped
  <2> QED BY <1>1, <2>1 DEF Leads
<1>9. Leads(il.halting_at, x, id)
        <=> \E j \in 1..Len(c) : HaltsAt(station_routes, ir, j, x)
  <2> DEFINE g == [i \in 1..n |-> halts_of(irs[i])]
  <2>1. Leads(il.halting_at, x, id)
          <=> x \in DOMAIN next_node /\ id \in Range(get_halting_at(x))
    BY <1>1 DEF Leads
  <2>2. get_halting_at(x)
          = FlattenSeq([i \in 1..n |-> Repeated(i, Occurrences(g[i], x))])
    BY <1>2 DEF get_halting_at, irs
  <2>3. \A i \in 1..n : \E S : g[i] \in Seq(S)
    BY <1>5, HaltsRight
  <2>4. g[id] = halts_of(ir)
    OBVIOUS
  <2> HIDE DEF g
  <2>5. id \in Range(get_halting_at(x)) <=> x \in Range(halts_of(ir))
    BY <1>4, <2>2, <2>3, <2>4, RepeatedIds
  <2> HIDE DEF ir
  <2>6. x \in Range(halts_of(ir))
          <=> \E j \in 1..Len(c) : x \in Range(HaltsOn(ir, j))
    BY <1>7, HaltsRight
  <2>7. ASSUME NEW j \in 1..Len(c), NEW sr, sr = station_routes[c[j]]
        PROVE  /\ x \in Range(HaltsOn(ir, j))
                    <=> \E h \in {sr.passenger_halt, sr.freight_halt} :
                          h # NoIdx /\ OnPart(ir, j, h) /\ x = sr.path.nodes[h]
               /\ \A h \in {sr.passenger_halt, sr.freight_halt} :
                    h # NoIdx => sr.path.nodes[h] \in DOMAIN next_node
    <3>1. x \in Range(HaltsOn(ir, j))
                    <=> \E h \in {sr.passenger_halt, sr.freight_halt} :
                          h # NoIdx /\ OnPart(ir, j, h) /\ x = sr.path.nodes[h]
      BY <1>7, <2>7, HaltsOnPart
    <3>2. c[j] \in DOMAIN station_routes
      BY <1>7
    <3>3. ASSUME NEW h \in {sr.passenger_halt, sr.freight_halt}, h # NoIdx
          PROVE  sr.path.nodes[h] \in DOMAIN next_node
      <4>1. h \in 1..Len(sr.path.nodes)
        BY <2>7, <3>2, <3>3 DEF RoutesMade, NoIdx
      <4> QED BY <2>7, <3>2, <4>1 DEF NodesKnown
    <3> QED BY <3>1, <3>3
  <2>8. ASSUME NEW j \in 1..Len(c)
        PROVE  /\ HaltsAt(station_routes, ir, j, x) <=> x \in Range(HaltsOn(ir, j))
               /\ HaltsAt(station_routes, ir, j, x) => x \in DOMAIN next_node
    BY <2>7 DEF HaltsAt
  <2> QED BY <2>1, <2>5, <2>6, <2>8
<1>10. Leads(il.sr_to_participating_irs, x, id) <=> \E j \in 1..Len(c) : c[j] = x
  <2> DEFINE g == [i \in 1..n |-> irs[i].station_routes]
  <2>1. Leads(il.sr_to_participating_irs, x, id)
          <=> x \in DOMAIN station_routes /\ id \in Range(get_sr_to_participating_irs(x))
    BY <1>1 DEF Leads
  <2>2. get_sr_to_participating_irs(x)
          = FlattenSeq([i \in 1..n |-> Repeated(i, Occurrences(g[i], x))])
    BY <1>2 DEF get_sr_to_participating_irs, irs
  <2>3. \A i \in 1..n : \E S : g[i] \in Seq(S)
    BY <1>2 DEF IsInterlockingRoute, IsChain
  <2>4. g[id] = c
    OBVIOUS
  <2> HIDE DEF g
  <2>5. id \in Range(get_sr_to_participating_irs(x)) <=> x \in Range(c)
    BY <1>4, <2>2, <2>3, <2>4, RepeatedIds
  <2>6. x \in Range(c) <=> \E j \in 1..Len(c) : c[j] = x
    <3> HIDE DEF c
    <3> QED BY <1>7 DEF Range
  <2> HIDE DEF c
  <2> QED BY <1>7, <2>1, <2>5, <2>6
<1>11. Leads(il.station_to_irs, x, id)
         <=> \E j \in 1..Len(c) : station_routes[c[j]].station = x
  <2> DEFINE T == {i \in DOMAIN irs : \E k \in Range(irs[i].station_routes) :
                                        station_routes[k].station = x}
  <2>1. Leads(il.station_to_irs, x, id)
          <=> x \in stations /\ id \in Range(get_station_to_interlocking_routes(x))
    BY <1>1 DEF Leads
  <2>2. get_station_to_interlocking_routes(x) = SetAsVector(T)
    BY DEF get_station_to_interlocking_routes, Indices, irs
  <2>3. T \in SUBSET (1..n)
    BY <1>2
  <2>4. id \in T <=> \E k \in Range(c) : station_routes[k].station = x
    BY <1>2
  <2> HIDE DEF T
  <2>5. id \in Range(SetAsVector(T)) <=> id \in T
    BY <1>4, <2>3, VectorRises
  <2> HIDE DEF c
  <2>6. (\E k \in Range(c) : station_routes[k].station = x)
          <=> \E j \in 1..Len(c) : station_routes[c[j]].station = x
    BY <1>7 DEF Range
  <2>7. \A j \in 1..Len(c) : station_routes[c[j]].station \in stations
    BY <1>7 DEF StationsKnown, stations
  <2> QED BY <2>1, <2>2, <2>4, <2>5, <2>6, <2>7
<1> QED BY <1>1, <1>8, <1>9, <1>10, <1>11 DEF MapsFrom

-----------------------------------------------------------------------------
(***************************************************************************)
(* The places of a route, and its views.                                   *)
(***************************************************************************)
\* The places that ir contains.
PlacesOf(ir) ==
  {p \in UNION {{k} \X (1..size(station_routes[k])) : k \in DOMAIN station_routes} :
     contains(ir, p[1], p[2])}

\* They are those on its parts.
LEMMA PlacesRight ==
  ASSUME RoutesMade(station_routes), NEW ir, RouteShape(station_routes, ir), NEW p
  PROVE  p \in PlacesOf(ir)
           <=> \E j \in 1..Len(ir.station_routes) :
                 \E idx \in 1..size(station_routes[ir.station_routes[j]]) :
                   p = <<ir.station_routes[j], idx>> /\ OnPart(ir, j, idx)
<1> DEFINE c == ir.station_routes
<1>1. \A j \in 1..Len(c) : c[j] \in DOMAIN station_routes
  BY DEF RouteShape
<1>2. p \in PlacesOf(ir)
        <=> \E k \in DOMAIN station_routes : \E idx \in 1..size(station_routes[k]) :
              p = <<k, idx>> /\ contains(ir, k, idx)
  <2>1. ASSUME p \in PlacesOf(ir)
        PROVE  \E k \in DOMAIN station_routes : \E idx \in 1..size(station_routes[k]) :
                 p = <<k, idx>> /\ contains(ir, k, idx)
    <3>1. PICK k \in DOMAIN station_routes : p \in {k} \X (1..size(station_routes[k]))
      BY <2>1 DEF PlacesOf
    <3>2. p = <<k, p[2]>> /\ p[2] \in 1..size(station_routes[k]) /\ p[1] = k
      BY <3>1
    <3>3. contains(ir, p[1], p[2])
      BY <2>1 DEF PlacesOf
    <3> QED BY <3>2, <3>3
  <2>2. ASSUME NEW k \in DOMAIN station_routes, NEW idx \in 1..size(station_routes[k]),
               p = <<k, idx>>, contains(ir, k, idx)
        PROVE  p \in PlacesOf(ir)
    <3>1. p \in {k} \X (1..size(station_routes[k])) /\ p[1] = k /\ p[2] = idx
      BY <2>2
    <3> QED BY <2>2, <3>1 DEF PlacesOf
  <2> QED BY <2>1, <2>2
<1>3. ASSUME NEW k, NEW idx \in 1..size(station_routes[k])
      PROVE  contains(ir, k, idx) <=> \E j \in 1..Len(c) : c[j] = k /\ OnPart(ir, j, idx)
  BY ContainsRight
<1> HIDE DEF c
<1>4. ASSUME p \in PlacesOf(ir)
      PROVE  \E j \in 1..Len(c) : \E idx \in 1..size(station_routes[c[j]]) :
               p = <<c[j], idx>> /\ OnPart(ir, j, idx)
  <2>1. PICK k \in DOMAIN station_routes : \E idx \in 1..size(station_routes[k]) :
               p = <<k, idx>> /\ contains(ir, k, idx)
    BY <1>2, <1>4
  <2>2. PICK idx \in 1..size(station_routes[k]) : p = <<k, idx>> /\ contains(ir, k, idx)
    BY <2>1
  <2>3. PICK j \in 1..Len(c) : c[j] = k /\ OnPart(ir, j, idx)
    BY <1>3, <2>2
  <2> QED BY <2>2, <2>3
<1>5. ASSUME NEW j \in 1..Len(c), NEW idx \in 1..size(station_routes[c[j]]),
             p = <<c[j], idx>>, OnPart(ir, j, idx)
      PROVE  p \in PlacesOf(ir)
  <2>1. c[j] \in DOMAIN station_routes /\ contains(ir, c[j], idx)
    BY <1>1, <1>3, <1>5
  <2> QED BY <1>2, <1>5, <2>1
<1> QED BY <1>4, <1>5 DEF c

\* The nodes that are iterated over are those at these places.
LEMMA NodesAtPlaces ==
  ASSUME RoutesMade(station_routes), NEW ir, RouteShape(station_routes, ir), NEW x
  PROVE  LET nodes == iterate_route(ir)
             node_at(p) == station_routes[p[1]].path.nodes[p[2]]
         IN  /\ (\E i \in DOMAIN nodes : nodes[i].node = x)
                  <=> \E p \in PlacesOf(ir) : node_at(p) = x
             /\ (\E i \in DOMAIN nodes : nodes[i].node = x /\ nodes[i].omitted)
                  <=> \E p \in PlacesOf(ir) : node_at(p) = x
                        /\ p[2] \in Range(station_routes[p[1]].omitted_nodes)
<1> DEFINE nodes == iterate_route(ir)
           c == ir.station_routes
           sr(j) == station_routes[c[j]]
           Node(p) == station_routes[p[1]].path.nodes[p[2]]
           Omitted(p) == p[2] \in Range(station_routes[p[1]].omitted_nodes)
<1>1. \A e : e \in Range(nodes) <=> \E i \in DOMAIN nodes : nodes[i] = e
  BY DEF Range
<1>2. \A e : e \in Range(nodes) <=> \E j \in 1..Len(c) : e \in Range(PartOf(ir, j))
  BY IterateMembers
<1> HIDE DEF nodes
<1>3. ASSUME NEW j \in 1..Len(c)
      PROVE  /\ (\E e \in Range(PartOf(ir, j)) : e.node = x)
                  <=> \E idx : NodeOn(ir, j, idx, x)
             /\ (\E e \in Range(PartOf(ir, j)) : e.node = x /\ e.omitted)
                  <=> \E idx : NodeOn(ir, j, idx, x) /\ OmittedOn(ir, j, idx)
  BY PartMembers
<1>10. ASSUME NEW j \in 1..Len(c), NEW idx
       PROVE  /\ NodeOn(ir, j, idx, x)
                   <=> idx \in 1..size(sr(j)) /\ OnPart(ir, j, idx)
                         /\ x = sr(j).path.nodes[idx]
              /\ OmittedOn(ir, j, idx) <=> idx \in Range(sr(j).omitted_nodes)
  BY DEF NodeOn, OmittedOn
<1>4. \A p : p \in PlacesOf(ir)
               <=> \E j \in 1..Len(c) : \E idx \in 1..size(sr(j)) :
                     p = <<c[j], idx>> /\ OnPart(ir, j, idx)
  BY PlacesRight
<1>5. ASSUME NEW j \in 1..Len(c), NEW idx
      PROVE  /\ Node(<<c[j], idx>>) = sr(j).path.nodes[idx]
             /\ Omitted(<<c[j], idx>>) <=> idx \in Range(sr(j).omitted_nodes)
  OBVIOUS
<1> HIDE DEF Node, Omitted, sr, c
<1>6. (\E i \in DOMAIN nodes : nodes[i].node = x)
        <=> \E j \in 1..Len(c) : \E e \in Range(PartOf(ir, j)) : e.node = x
  BY <1>1, <1>2
<1>7. (\E i \in DOMAIN nodes : nodes[i].node = x /\ nodes[i].omitted)
        <=> \E j \in 1..Len(c) : \E e \in Range(PartOf(ir, j)) : e.node = x /\ e.omitted
  BY <1>1, <1>2
<1>8. (\E p \in PlacesOf(ir) : Node(p) = x)
        <=> \E j \in 1..Len(c) : \E idx : NodeOn(ir, j, idx, x)
  <2>1. ASSUME NEW p \in PlacesOf(ir), Node(p) = x
        PROVE  \E j \in 1..Len(c) : \E idx : NodeOn(ir, j, idx, x)
    BY <1>4, <1>5, <1>10, <2>1
  <2>2. ASSUME NEW j \in 1..Len(c), NEW idx, NodeOn(ir, j, idx, x)
        PROVE  \E p \in PlacesOf(ir) : Node(p) = x
    <3>1. /\ idx \in 1..size(sr(j)) /\ OnPart(ir, j, idx)
          /\ x = sr(j).path.nodes[idx]
      BY <1>10, <2>2
    <3>2. <<c[j], idx>> \in PlacesOf(ir)
      BY <1>4, <3>1
    <3>3. Node(<<c[j], idx>>) = x
      BY <1>5, <3>1
    <3> QED BY <3>2, <3>3
  <2> QED BY <2>1, <2>2
<1>9. (\E p \in PlacesOf(ir) : Node(p) = x /\ Omitted(p))
        <=> \E j \in 1..Len(c) : \E idx : NodeOn(ir, j, idx, x) /\ OmittedOn(ir, j, idx)
  <2>1. ASSUME NEW p \in PlacesOf(ir), Node(p) = x, Omitted(p)
        PROVE  \E j \in 1..Len(c) : \E idx :
                 NodeOn(ir, j, idx, x) /\ OmittedOn(ir, j, idx)
    BY <1>4, <1>5, <1>10, <2>1
  <2>2. ASSUME NEW j \in 1..Len(c), NEW idx,
               NodeOn(ir, j, idx, x), OmittedOn(ir, j, idx)
        PROVE  \E p \in PlacesOf(ir) : Node(p) = x /\ Omitted(p)
    <3>1. /\ idx \in 1..size(sr(j)) /\ OnPart(ir, j, idx)
          /\ x = sr(j).path.nodes[idx] /\ idx \in Range(sr(j).omitted_nodes)
      BY <1>10, <2>2
    <3>2. <<c[j], idx>> \in PlacesOf(ir)
      BY <1>4, <3>1
    <3>3. Node(<<c[j], idx>>) = x /\ Omitted(<<c[j], idx>>)
      BY <1>5, <3>1
    <3> QED BY <3>2, <3>3
  <2> QED BY <2>1, <2>2
<1> QED BY <1>3, <1>6, <1>7, <1>8, <1>9 DEF Node, Omitted, nodes

\* The station routes of these places are those of the route.
LEMMA RoutesAtPlaces ==
  ASSUME RoutesMade(station_routes), NEW ir, RouteShape(station_routes, ir), NEW k
  PROVE  (\E p \in PlacesOf(ir) : p[1] = k)
           <=> \E j \in 1..Len(ir.station_routes) : ir.station_routes[j] = k
<1> DEFINE c == ir.station_routes
<1>1. \A p : p \in PlacesOf(ir)
               <=> \E j \in 1..Len(c) : \E idx \in 1..size(station_routes[c[j]]) :
                     p = <<c[j], idx>> /\ OnPart(ir, j, idx)
  BY PlacesRight
<1>2. ASSUME NEW j \in 1..Len(c)
      PROVE  \E idx \in 1..size(station_routes[c[j]]) : OnPart(ir, j, idx)
  <2>1. /\ FirstOn(ir, j) \in 1..size(station_routes[c[j]])
        /\ LastOn(ir, j) \in FirstOn(ir, j)..size(station_routes[c[j]])
        /\ \A idx \in 1..size(station_routes[c[j]]) :
             OnPart(ir, j, idx) <=> FirstOn(ir, j) <= idx /\ idx <= LastOn(ir, j)
        /\ size(station_routes[c[j]]) \in Nat
    BY PartRight
  <2>2. FirstOn(ir, j) <= FirstOn(ir, j) /\ FirstOn(ir, j) <= LastOn(ir, j)
    BY <2>1
  <2> QED BY <2>1, <2>2
<1> HIDE DEF c
<1>3. ASSUME NEW p \in PlacesOf(ir), p[1] = k PROVE \E j \in 1..Len(c) : c[j] = k
  BY <1>1, <1>3
<1>4. ASSUME NEW j \in 1..Len(c), c[j] = k PROVE \E p \in PlacesOf(ir) : p[1] = k
  <2>1. PICK idx \in 1..size(station_routes[c[j]]) : OnPart(ir, j, idx)
    BY <1>2
  <2>2. <<c[j], idx>> \in PlacesOf(ir)
    BY <1>1, <2>1
  <2>3. <<c[j], idx>>[1] = k
    BY <1>4
  <2> QED BY <2>2, <2>3
<1> QED BY <1>3, <1>4 DEF c

\* So are their stations.
LEMMA StationsAtPlaces ==
  ASSUME RoutesMade(station_routes), NEW ir, RouteShape(station_routes, ir), NEW s
  PROVE  (\E p \in PlacesOf(ir) : station_routes[p[1]].station = s)
           <=> \E j \in 1..Len(ir.station_routes) :
                 station_routes[ir.station_routes[j]].station = s
<1>1. \A k : (\E p \in PlacesOf(ir) : p[1] = k)
               <=> \E j \in 1..Len(ir.station_routes) : ir.station_routes[j] = k
  BY RoutesAtPlaces
<1> QED BY <1>1

\* Trains can halt at these places exactly if they can on its parts.
LEMMA HaltsAtPlaces ==
  ASSUME RoutesMade(station_routes), NEW ir, RouteShape(station_routes, ir), NEW x
  PROVE  (\E p \in PlacesOf(ir) :
            /\ station_routes[p[1]].path.nodes[p[2]] = x
            /\ p[2] \in {station_routes[p[1]].passenger_halt,
                         station_routes[p[1]].freight_halt})
           <=> \E j \in 1..Len(ir.station_routes) : HaltsAt(station_routes, ir, j, x)
<1> DEFINE c == ir.station_routes
           sr(j) == station_routes[c[j]]
           Halts(k) == {station_routes[k].passenger_halt, station_routes[k].freight_halt}
           Node(p) == station_routes[p[1]].path.nodes[p[2]]
<1>1. \A p : p \in PlacesOf(ir)
               <=> \E j \in 1..Len(c) : \E idx \in 1..size(sr(j)) :
                     p = <<c[j], idx>> /\ OnPart(ir, j, idx)
  BY PlacesRight
<1>2. ASSUME NEW j \in 1..Len(c), NEW idx
      PROVE  /\ idx \in Halts(c[j]) /\ idx # NoIdx => idx \in 1..size(sr(j))
             /\ idx \in 1..size(sr(j)) => idx # NoIdx
  <2>1. c[j] \in DOMAIN station_routes
    BY DEF RouteShape
  <2> HIDE DEF c
  <2>2. /\ size(sr(j)) \in Nat
        /\ Halts(c[j]) \subseteq 0..size(sr(j))
    BY <2>1 DEF RoutesMade, size
  <2> HIDE DEF Halts, sr
  <2> QED BY <2>2 DEF NoIdx
<1>3. ASSUME NEW j \in 1..Len(c), NEW idx
      PROVE  /\ Node(<<c[j], idx>>) = sr(j).path.nodes[idx]
             /\ <<c[j], idx>>[1] = c[j] /\ <<c[j], idx>>[2] = idx
  OBVIOUS
<1>4. \A j : Halts(c[j]) = {sr(j).passenger_halt, sr(j).freight_halt}
  OBVIOUS
<1> HIDE DEF c, sr, Halts, Node
<1>5. ASSUME NEW p \in PlacesOf(ir), Node(p) = x, p[2] \in Halts(p[1])
      PROVE  \E j \in 1..Len(c) : \E h \in Halts(c[j]) :
               h # NoIdx /\ OnPart(ir, j, h) /\ x = sr(j).path.nodes[h]
  <2>1. PICK j \in 1..Len(c) : \E idx \in 1..size(sr(j)) :
               p = <<c[j], idx>> /\ OnPart(ir, j, idx)
    BY <1>1
  <2>2. PICK idx \in 1..size(sr(j)) : p = <<c[j], idx>> /\ OnPart(ir, j, idx)
    BY <2>1
  <2>3. idx \in Halts(c[j]) /\ x = sr(j).path.nodes[idx]
    BY <1>3, <1>5, <2>2
  <2>4. idx # NoIdx
    BY <1>2
  <2> QED BY <2>2, <2>3, <2>4
<1>6. ASSUME NEW j \in 1..Len(c), NEW h \in Halts(c[j]),
             h # NoIdx, OnPart(ir, j, h), x = sr(j).path.nodes[h]
      PROVE  \E p \in PlacesOf(ir) : Node(p) = x /\ p[2] \in Halts(p[1])
  <2>1. h \in 1..size(sr(j))
    BY <1>2, <1>6
  <2>2. <<c[j], h>> \in PlacesOf(ir)
    BY <1>1, <1>6, <2>1
  <2>3. Node(<<c[j], h>>) = x /\ <<c[j], h>>[2] \in Halts(<<c[j], h>>[1])
    BY <1>3, <1>6
  <2> QED BY <2>2, <2>3
<1>7. (\E p \in PlacesOf(ir) : Node(p) = x /\ p[2] \in Halts(p[1]))
        <=> \E j \in 1..Len(c) : \E h \in Halts(c[j]) :
              h # NoIdx /\ OnPart(ir, j, h) /\ x = sr(j).path.nodes[h]
  BY <1>5, <1>6
<1> QED BY <1>4, <1>7 DEF HaltsAt, Node, Halts, c, sr

\* What ViewsAgree says of a route.
ViewsOf(id) ==
  LET ir     == interlocking.routes[id]
      nodes  == iterate_route(ir)
      inside == PlacesOf(ir)
      node_at(p) == station_routes[p[1]].path.nodes[p[2]]
      Of(map) == {x \in DOMAIN map : id \in Range(map[x])}
  IN  /\ Len(nodes) = ir_size(ir)
      /\ {nodes[j].node : j \in DOMAIN nodes} = {node_at(p) : p \in inside}
      /\ {nodes[j].node : j \in {i \in DOMAIN nodes : nodes[i].omitted}}
           = {node_at(p) : p \in {q \in inside :
                q[2] \in Range(station_routes[q[1]].omitted_nodes)}}
      /\ Of(interlocking.starting_at) = {nodes[1].node}
      /\ Of(interlocking.ending_at) = {Last(nodes).node}
      /\ Of(interlocking.halting_at)
           = {node_at(p) : p \in {q \in inside :
                q[2] \in {station_routes[q[1]].passenger_halt,
                          station_routes[q[1]].freight_halt}}}
      /\ Of(interlocking.sr_to_participating_irs) = {p[1] : p \in inside}
      /\ Of(interlocking.station_to_irs) = {station_routes[p[1]].station : p \in inside}

\* It says so of every route.
LEMMA ViewsByRoute ==
  ASSUME \A id \in DOMAIN interlocking.routes : ViewsOf(id)
  PROVE  ViewsAgree
BY DEF ViewsAgree, ViewsOf, PlacesOf

\* The views of a route are right.
LEMMA ViewsRight ==
  ASSUME RoutesMade(station_routes), MapsRight(interlocking, station_routes),
         NEW id \in DOMAIN interlocking.routes
  PROVE  ViewsOf(id)
<1> DEFINE ir == interlocking.routes[id]
           nodes == iterate_route(ir)
           inside == PlacesOf(ir)
           c == ir.station_routes
           Node(p) == station_routes[p[1]].path.nodes[p[2]]
           Omitted(p) == p[2] \in Range(station_routes[p[1]].omitted_nodes)
           Halt(p) == p[2] \in {station_routes[p[1]].passenger_halt,
                                station_routes[p[1]].freight_halt}
           Of(map) == {x \in DOMAIN map : id \in Range(map[x])}
<1>1. RouteShape(station_routes, ir)
  BY DEF MapsRight
<1>2. \A x : MapsFrom(interlocking, station_routes, id, x)
  BY DEF MapsRight
<1>3. Len(nodes) = ir_size(ir)
  BY <1>1, IterateSize
<1>4. nodes[1].node = first_node(ir) /\ Last(nodes).node = last_node(ir)
  BY <1>1, IterateEnds DEF Last
<1>5. /\ FirstIn(station_routes, ir) = first_node(ir)
      /\ LastIn(station_routes, ir) = last_node(ir)
  BY DEF FirstIn, LastIn, first_node, last_node, first_sr, last_sr
<1>6. \A map, x : x \in Of(map) <=> Leads(map, x, id)
  BY DEF Leads
<1>7. ASSUME NEW x
      PROVE  /\ (\E i \in DOMAIN nodes : nodes[i].node = x) <=> \E p \in inside : Node(p) = x
             /\ (\E i \in DOMAIN nodes : nodes[i].node = x /\ nodes[i].omitted)
                  <=> \E p \in inside : Node(p) = x /\ Omitted(p)
  BY <1>1, NodesAtPlaces
<1>8. ASSUME NEW x
      PROVE  /\ Leads(interlocking.starting_at, x, id) <=> x = FirstIn(station_routes, ir)
             /\ Leads(interlocking.ending_at, x, id) <=> x = LastIn(station_routes, ir)
  BY <1>2 DEF MapsFrom
<1>9. ASSUME NEW x
      PROVE  Leads(interlocking.halting_at, x, id)
               <=> \E p \in inside : Node(p) = x /\ Halt(p)
  <2>1. Leads(interlocking.halting_at, x, id)
          <=> \E j \in 1..Len(c) : HaltsAt(station_routes, ir, j, x)
    BY <1>2 DEF MapsFrom
  <2>2. (\E p \in inside : Node(p) = x /\ Halt(p))
          <=> \E j \in 1..Len(c) : HaltsAt(station_routes, ir, j, x)
    BY <1>1, HaltsAtPlaces
  <2> QED BY <2>1, <2>2
<1>10. ASSUME NEW x
       PROVE  Leads(interlocking.sr_to_participating_irs, x, id)
                <=> \E p \in inside : p[1] = x
  <2>1. Leads(interlocking.sr_to_participating_irs, x, id) <=> \E j \in 1..Len(c) : c[j] = x
    BY <1>2 DEF MapsFrom
  <2>2. (\E p \in inside : p[1] = x) <=> \E j \in 1..Len(c) : c[j] = x
    BY <1>1, RoutesAtPlaces
  <2> QED BY <2>1, <2>2
<1>11. ASSUME NEW x
       PROVE  Leads(interlocking.station_to_irs, x, id)
                <=> \E p \in inside : station_routes[p[1]].station = x
  <2>1. Leads(interlocking.station_to_irs, x, id)
          <=> \E j \in 1..Len(c) : station_routes[c[j]].station = x
    BY <1>2 DEF MapsFrom
  <2>2. (\E p \in inside : station_routes[p[1]].station = x)
          <=> \E j \in 1..Len(c) : station_routes[c[j]].station = x
    BY <1>1, StationsAtPlaces
  <2> HIDE DEF inside
  <2> QED BY <2>1, <2>2
<1> HIDE DEF nodes, inside, Node, Omitted, Halt, Of
<1>12. {nodes[j].node : j \in DOMAIN nodes} = {Node(p) : p \in inside}
  BY <1>7
<1>13. {nodes[j].node : j \in {i \in DOMAIN nodes : nodes[i].omitted}}
         = {Node(p) : p \in {q \in inside : Omitted(q)}}
  BY <1>7
<1>14. Of(interlocking.starting_at) = {nodes[1].node}
  BY <1>4, <1>5, <1>6, <1>8
<1>15. Of(interlocking.ending_at) = {Last(nodes).node}
  BY <1>4, <1>5, <1>6, <1>8
<1>16. Of(interlocking.halting_at) = {Node(p) : p \in {q \in inside : Halt(q)}}
  BY <1>6, <1>9
<1>17. Of(interlocking.sr_to_participating_irs) = {p[1] : p \in inside}
  BY <1>6, <1>10
<1>18. Of(interlocking.station_to_irs) = {station_routes[p[1]].station : p \in inside}
  BY <1>6, <1>11
<1> QED BY <1>3, <1>12, <1>13, <1>14, <1>15, <1>16, <1>17, <1>18
        DEF ViewsOf, nodes, inside, Node, Omitted, Halt, Of

-----------------------------------------------------------------------------
(***************************************************************************)
(* The station routes when they are made.                                  *)
(***************************************************************************)
\* A place in the nodes of a route, if there is one.
LEMMA PlaceTyped ==
  ASSUME NEW m \in Nat, NEW nodes, DOMAIN nodes = 1..m, NEW rp
  PROVE  IndexOf(nodes, rp) \in 0..m
<1> DEFINE T == {k \in DOMAIN nodes : rp # Null /\ nodes[k][1] = graph.id_of[rp]}
<1>1. T \in SUBSET Nat /\ T \subseteq 1..m
  OBVIOUS
<1>2. IndexOf(nodes, rp) = IF T = {} THEN NoIdx ELSE Max(T)
  BY DEF IndexOf
<1>3. Max(T) = CHOOSE x \in T : \A y \in T : x >= y
  BY DEF Max
<1> HIDE DEF T
<1>4. CASE T = {}
  BY <1>2, <1>4 DEF NoIdx
<1>5. CASE T # {}
  <2>1. \A x \in T : x <= m
    BY <1>1
  <2>2. PICK x \in T : \A y \in T : y <= x
    BY <1>1, <1>5, <2>1, GreatestNat
  <2>3. x >= x /\ \A y \in T : x >= y
    BY <1>1, <2>2
  <2>4. Max(T) \in T
    BY <1>3, <2>3
  <2>5. \A y \in T : y \in 0..m
    BY <1>1
  <2> QED BY <1>2, <1>5, <2>4, <2>5
<1> QED BY <1>4, <1>5

\* The intermediate station routes are routes of the rail plan.
LEMMA IntermediateOfPlan ==
  ASSUME network \in Networks, NEW k \in DOMAIN intermediate
  PROVE  intermediate[k] \in Range(network.routes)
<1> DEFINE routes == network.routes
           n == Len(routes)
           S == {i \in DOMAIN routes : ~routes[i].publish_only}
           ids == SetAsVector(S)
<1>1. routes \in Seq(Range(routes))
  BY RoutesAssumption
<1>2. n \in Nat /\ DOMAIN routes = 1..n
  BY <1>1, LenProperties
<1>3. IsRising(ids, n)
  <2>1. S \in SUBSET (1..n)
    BY <1>2
  <2> HIDE DEF S, n
  <2> QED BY <1>2, <2>1, VectorRises
<1>4. intermediate = [i \in DOMAIN ids |-> routes[ids[i]]]
  BY DEF intermediate, Selected, Indices
<1> HIDE DEF ids, routes
<1>5. DOMAIN ids = 1..Len(ids) /\ \A i \in 1..Len(ids) : ids[i] \in DOMAIN routes
  BY <1>2, <1>3 DEF IsRising, IsList
<1>6. k \in 1..Len(ids) /\ intermediate[k] = routes[ids[k]]
  BY <1>4, <1>5
<1> QED BY <1>5, <1>6 DEF Range, routes

\* What calculate_station_routes makes (parse_iss.cc:536).
LEMMA CalculatedRoutesMade ==
  ASSUME GraphInv, calculate_station_routes
  PROVE  RoutesMade(station_routes') /\ StationsKnown(network', station_routes')
<1>1. /\ network \in Networks /\ NodesRight /\ GraphRight(graph) /\ network' = network
      /\ station_routes' = [k \in DOMAIN intermediate |->
                              make_station_route(intermediate[k], paths'[k])]
  BY DEF GraphInv, GraphStages, calculate_station_routes, graph_vars
<1>2. DOMAIN station_routes' = DOMAIN intermediate
  BY <1>1
<1> SUFFICES ASSUME NEW k \in DOMAIN intermediate
             PROVE  /\ Len(station_routes'[k].path.nodes) \in Nat \ {0}
                    /\ IsRising(station_routes'[k].omitted_nodes,
                                Len(station_routes'[k].path.nodes))
                    /\ station_routes'[k].passenger_halt
                         \in 0..Len(station_routes'[k].path.nodes)
                    /\ station_routes'[k].freight_halt
                         \in 0..Len(station_routes'[k].path.nodes)
                    /\ station_routes'[k].station \in
                         {x.station : x \in Range(network'.sections)
                                              \cup Range(network'.routes)}
  BY <1>2 DEF RoutesMade, StationsKnown
<1> DEFINE sr == station_routes'[k]
           r == intermediate[k]
           nodes == sr.path.nodes
           m == Len(nodes)
           Omitted == {i \in DOMAIN nodes :
                         nodes[i][1] \in {graph.id_of[rp] : rp \in r.omitted}}
<1>3. sr.path = paths'[k]
  BY <1>1 DEF make_station_route
<1>4. /\ sr.station = r.station
      /\ sr.passenger_halt = IndexOf(nodes, r.passenger_halt)
      /\ sr.freight_halt = IndexOf(nodes, r.freight_halt)
  BY <1>1 DEF make_station_route
<1>5. sr.omitted_nodes = SetAsVector(Omitted)
  BY <1>1 DEF make_station_route, Indices
<1>6. m \in Nat \ {0} /\ DOMAIN nodes = 1..m
  <2>1. PICK j \in DOMAIN intermediate : sr.path = make_path(intermediate[j])
    BY <1>1, PathsOfOwners
  <2>2. Arrivals(intermediate[j]) # {}
    BY <1>1, PathsOfOwners DEF IsPossible
  <2>3. nodes = get_path(intermediate[j])
    BY <2>1 DEF make_path
  <2> HIDE DEF nodes
  <2> QED BY <1>1, <2>2, <2>3, PathFollows
<1>7. r \in Range(network.routes)
  BY <1>1, IntermediateOfPlan
<1> HIDE DEF nodes, m, r
<1>8. IsRising(SetAsVector(Omitted), m)
  <2>1. Omitted \in SUBSET (1..m)
    BY <1>6
  <2> HIDE DEF Omitted
  <2> QED BY <1>6, <2>1, VectorRises
<1>9. IndexOf(nodes, r.passenger_halt) \in 0..m /\ IndexOf(nodes, r.freight_halt) \in 0..m
  BY <1>6, PlaceTyped
<1>10. r.station \in {x.station : x \in Range(network'.sections) \cup Range(network'.routes)}
  BY <1>1, <1>7
<1> HIDE DEF Omitted
<1> QED BY <1>4, <1>5, <1>6, <1>8, <1>9, <1>10 DEF nodes, m

-----------------------------------------------------------------------------
(***************************************************************************)
(* The invariant of the views.                                             *)
(***************************************************************************)
\* What is known of station routes and mappings at a stage.
ViewOn(st, net, srs, il) ==
  /\ st \in EarlyStages \cup SearchStages => IlFields \subseteq DOMAIN il
  /\ st \in {"station_route_graph"} \cup SearchStages =>
       RoutesMade(srs) /\ StationsKnown(net, srs)
  /\ st = "exclusion" => RoutesMade(srs) /\ MapsRight(il, srs)

(***************************************************************************)
(* The invariant of the views: the halts and omitted nodes of the station  *)
(* routes are places on them, and the mappings lead to what is on a route. *)
(***************************************************************************)
ViewInv == ViewOn(stage, network, station_routes, interlocking)

\* Nothing is claimed in a stage behind the mappings.
LEMMA ViewElsewhere ==
  ASSUME NEW st \in {"threads", "exclusion_graph", "cliques", "done",
                     "work", "parsed", "crashed"},
         NEW net, NEW srs, NEW il
  PROVE  ViewOn(st, net, srs, il)
  BY DEF ViewOn, EarlyStages, SearchStages

\* The steps up to the mappings.
LEMMA ViewEarly ==
  ASSUME ViewInv, LinkInv, GraphInv, RouteInv, InterlockingNext
  PROVE  ViewInv'
<1> USE DEF ViewInv, ViewOn, EarlyStages, SearchStages
<1>1. CASE GraphNext /\ UNCHANGED <<route_vars, ir_vars>>
  <2>1. /\ stage \in {"sections", "borders", "nodes"}
        /\ stage' \in {"sections", "borders", "nodes", "routes"}
        /\ interlocking' = interlocking
    BY <1>1 DEF GraphNext, parse_section, complete_borders, connect_all_nodes, ir_vars
  <2> QED BY <2>1
<1>2. CASE calculate_station_routes /\ UNCHANGED ir_vars
  <2>1. /\ stage = "routes" /\ stage' = "station_route_graph"
        /\ interlocking' = interlocking
    BY <1>2 DEF calculate_station_routes, ir_vars
  <2>2. RoutesMade(station_routes') /\ StationsKnown(network', station_routes')
    BY <1>2, CalculatedRoutesMade
  <2> QED BY <2>1, <2>2
<1>3. CASE get_station_route_graph /\ UNCHANGED ir_vars
  <2>1. /\ stage = "station_route_graph" /\ stage' = "interlocking"
        /\ interlocking' = interlocking /\ station_routes' = station_routes
        /\ network' = network
    BY <1>3 DEF get_station_route_graph, graph_vars, ir_vars
  <2> QED BY <2>1
<1>4. CASE start_station_route \/ fill_paths \/ finish_station_route
  <2>1. /\ stage \in SearchStages /\ stage' \in SearchStages
        /\ station_routes' = station_routes /\ network' = network
    BY <1>4 DEF start_station_route, fill_paths, finish_station_route,
                graph_vars, route_vars
  <2>2. DOMAIN interlocking' = DOMAIN interlocking
    <3>1. CASE start_station_route
      BY <3>1 DEF start_station_route
    <3>2. CASE fill_paths
      BY <3>2 DEF fill_paths
    <3>3. CASE finish_station_route
      BY <3>3 DEF finish_station_route
    <3> QED BY <1>4, <3>1, <3>2, <3>3
  <2> QED BY <2>1, <2>2
<1>5. CASE get_interlocking
  <2>1. /\ stage = "mappings" /\ stage' = "exclusion"
        /\ station_routes' = station_routes
    BY <1>5 DEF get_interlocking, route_vars
  <2>2. /\ RoutesMade(station_routes) /\ StationsKnown(network, station_routes)
        /\ IlFields \subseteq DOMAIN interlocking
    BY <2>1
  <2>3. NodesKnown(station_routes, next_node)
    BY <2>1 DEF LinkInv, LinkOn
  <2>4. MapsRight(interlocking', station_routes')
    BY <1>5, <2>2, <2>3, GetInterlockingMaps
  <2> QED BY <2>1, <2>2, <2>4
<1> QED BY <1>1, <1>2, <1>3, <1>4, <1>5 DEF InterlockingNext, RoutesNext

\* Steps that change nothing of the infrastructure.
LEMMA ViewUnchanged ==
  ASSUME ViewInv, UNCHANGED infrastructure_vars
  PROVE  ViewInv'
<1>1. /\ stage' = stage /\ network' = network
      /\ station_routes' = station_routes /\ interlocking' = interlocking
  BY DEF infrastructure_vars, graph_vars, route_vars, ir_vars,
         exclusion_vars, used_by_vars, graph_of_exclusion_vars
<1> QED BY <1>1 DEF ViewInv

\* No step breaks the invariant.
LEMMA ViewStep ==
  ASSUME ViewInv, LinkInv, GraphInv, RouteInv, [TimetableNext \/ Parsed]_vars
  PROVE  ViewInv'
<1> DEFINE Elsewhere == stage' \in {"threads", "exclusion_graph", "cliques", "done",
                                    "work", "parsed", "crashed"}
<1>1. Elsewhere => ViewInv'
  BY ViewElsewhere DEF ViewInv
<1>2. CASE ExclusionNext
  <2>1. CASE InterlockingNext
    BY <2>1, ViewEarly
  <2>2. CASE start_threads
    BY <1>1, <2>2 DEF start_threads
  <2>3. CASE (\E t \in Threads : generate_used_by(t)) \/ combine_thread_results
    BY <1>1, <2>3 DEF generate_used_by, combine_thread_results
  <2>4. CASE get_exclusion_graph
    BY <1>1, <2>4 DEF get_exclusion_graph
  <2>5. CASE read_exclusion_sets
    BY <1>1, <2>5 DEF read_exclusion_sets
  <2> QED BY <1>2, <2>1, <2>2, <2>3, <2>4, <2>5 DEF ExclusionNext
<1>3. CASE Complete
  BY <1>3, ViewUnchanged DEF Complete
<1>4. CASE open_directory
  <2>1. Elsewhere
    BY <1>4 DEF open_directory, reject
  <2> QED BY <1>1, <2>1
<1>5. ASSUME NEW p \in Parsers,
             take_item(p) \/ parse_train(p) \/ crash(p) \/ finish_item(p)
      PROVE  ViewInv'
  <2>1. Elsewhere
    BY <1>5 DEF take_item, parse_train, crash, finish_item
  <2> QED BY <1>1, <2>1
<1>6. CASE finish_timetable
  <2>1. Elsewhere
    BY <1>6 DEF finish_timetable
  <2> QED BY <1>1, <2>1
<1>7. CASE Parsed
  BY <1>7, ViewUnchanged DEF Parsed, vars
<1>8. CASE UNCHANGED vars
  BY <1>8, ViewUnchanged DEF vars
<1> QED BY <1>2, <1>3, <1>4, <1>5, <1>6, <1>7, <1>8 DEF TimetableNext

\* At first there are no station routes, and the mappings are empty.
LEMMA ViewInit ==
  ASSUME TimetableInit
  PROVE  ViewInv
<1>1. stage = "sections" /\ IlFields \subseteq DOMAIN interlocking
  BY DEF TimetableInit, ExclusionInit, InterlockingInit, RoutesInit, GraphInit, IlFields
<1> QED BY <1>1 DEF ViewInv, ViewOn, EarlyStages, SearchStages

\* What the invariant says of the views.
LEMMA ViewsByInvariant ==
  ViewInv => ViewsAgree
<1> SUFFICES ASSUME ViewInv, stage = "exclusion" PROVE ViewsAgree
  BY DEF ViewsAgree
<1>1. RoutesMade(station_routes) /\ MapsRight(interlocking, station_routes)
  BY DEF ViewInv, ViewOn
<1>2. \A id \in DOMAIN interlocking.routes : ViewsOf(id)
  BY <1>1, ViewsRight
<1> QED BY <1>2, ViewsByRoute

(***************************************************************************)
(* All views of an interlocking route show the same nodes, whatever the    *)
(* rail plan: its size and contains() count what is iterated over, a node  *)
(* is omitted on it exactly if its station route omits it, wherever the    *)
(* iteration starts, and the mappings lead to the nodes, station routes    *)
(* and stations that are on the route (interlocking_route.cc:28, 46,       *)
(* station_route.cc:106, get_interlocking.cc:23).                          *)
(***************************************************************************)
THEOREM AllViewsAgree ==
  TimetableSpec => []ViewsAgree
<1>1. TimetableInit => Inv /\ RouteInv /\ GraphInv /\ LinkInv /\ ViewInv
  BY InitInv, RouteInit, GraphInitRight, LinkInit, ViewInit DEF TimetableInit
<1>2. Inv /\ [TimetableNext \/ Parsed]_vars => Inv'
  <2> SUFFICES ASSUME Inv, [TimetableNext \/ Parsed]_vars
               PROVE  Inv'
    OBVIOUS
  <2>1. CASE TimetableNext \/ Parsed
    BY <2>1, TimetableStep
  <2>2. CASE UNCHANGED vars
    BY <2>2, InfrastructureUnchanged DEF vars
  <2> QED BY <2>1, <2>2
<1> QED BY <1>1, <1>2, RouteStep, GraphStep, LinkStep, ViewStep, ViewsByInvariant, PTL
        DEF TimetableSpec

=============================================================================
