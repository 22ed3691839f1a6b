----------------------- MODULE DynamicSchedulerProofs -----------------------
(***************************************************************************)
(* Every safety property of the dynamic scheduler, for any finite set of   *)
(* nodes, any validated graph, any slot limit and any set of quick nodes.  *)
(*                                                                         *)
(* A step is a callback that works on the local variables of schedule() in *)
(* several calls, so the invariant (Sound) is stated of a record of them   *)
(* and holds between the calls too, up to one owed settlement and one node *)
(* that is in no queue yet.  One lemma per call shows that it keeps Sound  *)
(* (TryStartSound, EnqueueSound, AbortSound, RecordSound, SettleSound);    *)
(* the loops over nodes are recursive functions, whose rounds exist by an  *)
(* induction over a least counterexample (Climb, LoopExists).  That the    *)
(* gate of an enqueued node never changes (GateStable) is what makes       *)
(* skipping final.  Beyond the counters the invariant says why a node is   *)
(* not enqueued: something it depends on is pending, running or skipped    *)
(* (HeldBack); with acyclicity no node is forgotten.                       *)
(***************************************************************************)
EXTENDS DynamicScheduler, FiniteSetTheorems, TLAPS

\* The values of the tables.
Statuses == {"pending", "running", "completed", "failed", "skipped"}
ResultOrNone == Results \cup {NoResult}
ResultMap == [Nodes -> ResultOrNone]

\* The values of the local variables of schedule().
Locals == [status : [Nodes -> Statuses], results : ResultMap, enqueued : SUBSET Nodes,
           inFlight : Nat, settled : Nat, aborted : BOOLEAN, retry : Seq(Nodes)]

\* Nodes that run and nodes that are through, and what a queue holds.
RunningIn(t) == {n \in Nodes : t.status[n] = "running"}
Through(t) == {n \in Nodes : t.status[n] \notin {"pending", "running"}}
Members(q) == {q[i] : i \in 1..Len(q)}
NoRepeats(q) == \A i, j \in 1..Len(q) : q[i] = q[j] => i = j

\* After a hard failure: settled without a status, and settled a second time.
Late(t) == {n \in t.enqueued : t.aborted /\ t.status[n] = "pending"}
Twice(t) == {n \in Nodes : /\ t.status[n] = "failed" /\ t.results[n] = NoResult
                           /\ n \notin Members(t.retry)}

\* The counters are exact; a callback that is under way owes `owed` settlements.
Counted(t, owed) ==
  /\ t.inFlight = Cardinality(RunningIn(t)) /\ t.inFlight <= MaxConcurrency
  /\ t.settled + owed = Cardinality(Through(t)) + Cardinality(Late(t)) + Cardinality(Twice(t))

\* Only ready nodes are enqueued, and one that waits for a slot, except those of
\* `held`, is in the microtask queue once.  After a hard failure the queue holds nodes
\* that onAbort has failed.
Queued(t, held) ==
  /\ \A n \in Nodes : t.status[n] # "pending" => n \in t.enqueued
  /\ \A n \in t.enqueued : IsReady(t, n)
  /\ NoRepeats(t.retry)
  /\ ~t.aborted => Members(t.retry) = {n \in t.enqueued : t.status[n] = "pending"} \ held
  /\ t.aborted => \A n \in Members(t.retry) : t.status[n] = "failed" /\ t.results[n] = NoResult

\* Statuses and recorded results agree, and only a hard failure leaves a failed
\* node that is not tolerated.
Recorded(t) ==
  /\ \A n \in Nodes : /\ t.results[n] = "ok" <=> t.status[n] = "completed"
                      /\ t.results[n] = "failed" => t.status[n] = "failed"
                      /\ t.status[n] = "failed" /\ t.results[n] = NoResult => t.aborted
  /\ ~t.aborted => \A n \in Nodes : t.status[n] = "failed" => Tolerated(graph, n)

\* Nodes were skipped and run as their gates, which no longer change, say.
Gated(t) ==
  \A n \in Nodes :
    /\ t.status[n] = "skipped" => ~Gate(graph, n, t.results)
    /\ t.status[n] = "running" \/ t.results[n] # NoResult => Gate(graph, n, t.results)

Sound(t, owed, held) ==
  /\ t \in Locals /\ Counted(t, owed) /\ Queued(t, held) /\ Recorded(t) /\ Gated(t)

\* Something that has not come through holds the node back.
HeldBack(t, n) == \E d \in Deps[n] : t.status[d] \in {"pending", "running", "skipped"}

\* The inductive invariant.
IInv ==
  /\ graph \in Graphs /\ begun \in BOOLEAN
  /\ ~begun => s = Fresh
  /\ Sound(s, 0, {})
  /\ begun /\ ~s.aborted => \A n \in Nodes \ s.enqueued : HeldBack(s, n)

\* From t to u nodes only start or are skipped, and after a hard failure nothing does.
Moved(t, u) ==
  /\ u.aborted = t.aborted /\ u.results = t.results
  /\ t.enqueued \subseteq u.enqueued
  /\ \A n \in Nodes : \/ u.status[n] = t.status[n]
                      \/ /\ t.status[n] = "pending" /\ u.status[n] \in {"running", "skipped"}
                         /\ ~t.aborted

\* What a step may do to the status of a node.
Onward ==
  \A n \in Nodes :
    \/ s'.status[n] = s.status[n]
    \/ s.status[n] = "pending" /\ s'.status[n] \in {"running", "skipped"} /\ ~s.aborted
    \/ s.status[n] = "pending" /\ s'.status[n] = "failed"
    \/ s.status[n] = "running" /\ s'.status[n] \in {"completed", "failed"}

-----------------------------------------------------------------------------
\* Every non-empty set of natural numbers has a least element.
LEMMA Smallest ==
  ASSUME NEW T \in SUBSET Nat, T # {}
  PROVE  \E n \in T : \A m \in T : n <= m
<1> DEFINE Below == {1..n : n \in T}
<1>1. Below \subseteq FiniteSubsetsOf(Nat) /\ Below # {}
  <2>1. ASSUME NEW n \in T PROVE 1..n \in SUBSET Nat /\ IsFiniteSet(1..n)
    BY FS_Interval
  <2> QED
    BY <2>1 DEF FiniteSubsetsOf
<1>2. PICK B \in Below : \A C \in Below : <<C, B>> \notin StrictSubsetOrdering(Nat)
  <2> HIDE DEF Below
  <2> QED
    BY <1>1, FS_StrictSubsetOrderingWellFounded, WFMin
<1>3. PICK n \in T : B = 1..n
  OBVIOUS
<1>4. ASSUME NEW m \in T, m < n PROVE FALSE
  <2>1. 1..m \in Below /\ 1..m \subseteq Nat /\ 1..n \subseteq Nat
    OBVIOUS
  <2>2. 1..m \subseteq 1..n /\ n \in 1..n /\ n \notin 1..m
    BY <1>4
  <2>3. <<1..m, 1..n>> \in StrictSubsetOrdering(Nat)
    BY <2>1, <2>2 DEF StrictSubsetOrdering
  <2> QED
    BY <1>2, <1>3, <2>1, <2>3
<1> QED
  BY <1>4

\* What holds at 0 and is passed on holds up to k.
LEMMA Climb ==
  ASSUME NEW k \in Nat, NEW T \in SUBSET (0..k), 0 \in T,
         \A i \in 1..k : i - 1 \in T => i \in T
  PROVE  T = 0..k
<1> DEFINE Bad == (0..k) \ T
<1>1. SUFFICES ASSUME Bad # {} PROVE FALSE
  OBVIOUS
<1>2. PICK b \in Bad : \A i \in Bad : b <= i
  <2>1. Bad \in SUBSET Nat
    OBVIOUS
  <2> HIDE DEF Bad
  <2> QED
    BY <1>1, <2>1, Smallest
<1>3. b \in 1..k /\ b - 1 \in 0..k /\ b - 1 \notin Bad
  BY <1>2
<1> QED
  BY <1>2, <1>3

\* A loop over 1..k from t: the values after each round exist, and stay in S.
Rounds(k, S, t, step, f) ==
  f \in [0..k -> S] /\ f[0] = t /\ \A m \in 1..k : f[m] = step[m][f[m - 1]]
LEMMA LoopExists ==
  ASSUME NEW k \in Nat, NEW S, NEW t \in S, NEW step \in [1..k -> [S -> S]]
  PROVE  \E f : Rounds(k, S, t, step, f)
<1> DEFINE Runs(f, j) == f[0] = t /\ \A m \in 1..j : f[m] = step[m][f[m - 1]]
           T == {j \in 0..k : \E f \in [0..j -> S] : Runs(f, j)}
<1>1. 0 \in T
  <2>1. [i \in 0..0 |-> t] \in [0..0 -> S] /\ Runs([i \in 0..0 |-> t], 0)
    OBVIOUS
  <2> HIDE DEF Runs
  <2>2. \E f \in [0..0 -> S] : Runs(f, 0)
    BY <2>1
  <2> QED
    BY <2>2
<1>2. ASSUME NEW j \in 1..k, j - 1 \in T PROVE j \in T
  <2>1. PICK f \in [0..(j - 1) -> S] : Runs(f, j - 1)
    BY <1>2
  <2>2. f[j - 1] \in S /\ step[j][f[j - 1]] \in S
    OBVIOUS
  <2>3. PICK h : h = [i \in 0..j |-> IF i = j THEN step[j][f[j - 1]] ELSE f[i]]
    OBVIOUS
  <2>4. \A i \in 0..j : i # j => i \in 0..(j - 1)
    OBVIOUS
  <2>5. h \in [0..j -> S]
    BY <2>2, <2>3, <2>4
  <2>6. h[0] = t
    BY <2>1, <2>3
  <2>7. ASSUME NEW m \in 1..j PROVE h[m] = step[m][h[m - 1]]
    <3>1. h[m - 1] = f[m - 1]
      BY <2>3
    <3>2. CASE m = j
      BY <2>3, <3>1, <3>2
    <3>3. CASE m # j
      <4>1. m \in 1..(j - 1) /\ h[m] = f[m]
        BY <2>3, <3>3
      <4> QED
        BY <2>1, <3>1, <4>1
    <3> QED
      BY <3>2, <3>3
  <2>8. Runs(h, j)
    BY <2>6, <2>7
  <2> HIDE DEF Runs
  <2> QED
    BY <2>5, <2>8
<1>3. T \in SUBSET (0..k)
  OBVIOUS
<1>4. T = 0..k
  <2> HIDE DEF T
  <2> QED
    BY <1>1, <1>2, <1>3, Climb
<1>5. \E f \in [0..k -> S] : Runs(f, k)
  <2>1. k \in T
    <3> HIDE DEF T
    <3>1. k \in 0..k
      OBVIOUS
    <3> QED
      BY <1>4, <3>1
  <2> HIDE DEF Runs
  <2> QED
    BY <2>1
<1> QED
  BY <1>5 DEF Rounds
-----------------------------------------------------------------------------
\* What a validated graph guarantees: a node routed to or entered by an edge depends
\* on the source, and no node on itself.
LEMMA GraphFacts ==
  ASSUME graph \in Graphs
  PROVE  /\ Total \in Nat \ {0} /\ Nodes = 1..Total /\ IsFiniteSet(Nodes)
         /\ Deps \in [Nodes -> SUBSET Nodes]
         /\ \A n \in Nodes : /\ n \notin Deps[n]
                             /\ RoutedBy(graph, n) \subseteq Deps[n]
                             /\ \A e \in ConditionalInto(graph, n) : e.from \in Deps[n]
<1>1. Total \in Nat \ {0} /\ Nodes = 1..Total /\ IsFiniteSet(Nodes)
  BY NodesAssumption, FS_CardinalityType, FS_EmptySet DEF Total
<1>2. Deps \in [Nodes -> SUBSET Nodes] /\ IsAcyclic(Deps)
  BY GraphsAssumption DEF Deps
<1>3. ASSUME NEW n \in Nodes PROVE n \notin Deps[n]
  <2>1. {n} \in (SUBSET Nodes) \ {{}}
    BY <1>3
  <2>2. \E m \in {n} : Deps[m] \cap {n} = {}
    BY <1>2, <2>1 DEF IsAcyclic
  <2> QED
    BY <2>2
<1>4. ASSUME NEW n \in Nodes
      PROVE  /\ RoutedBy(graph, n) \subseteq Deps[n]
             /\ \A e \in ConditionalInto(graph, n) : e.from \in Deps[n]
  <2>1. Deps[n] = graph.deps[n] \cup {x \in Nodes : n \in Targets(graph, x)}
                    \cup {e.from : e \in {x \in graph.edges : x.to = n}}
    BY DEF Deps, DependencyMap
  <2>2. RoutedBy(graph, n) \subseteq Deps[n]
    BY <2>1 DEF RoutedBy
  <2>3. ASSUME NEW e \in ConditionalInto(graph, n) PROVE e.from \in Deps[n]
    <3>1. e \in {x \in graph.edges : x.to = n}
      BY <2>3 DEF ConditionalInto
    <3>2. e.from \in {x.from : x \in {x \in graph.edges : x.to = n}}
      BY <3>1
    <3> QED
      BY <2>1, <3>2
  <2> QED
    BY <2>2, <2>3
<1> QED
  BY <1>1, <1>2, <1>3, <1>4

\* The gate of a node depends on the results of what the node depends on, only.
LEMMA GateStable ==
  ASSUME graph \in Graphs, NEW n \in Nodes, NEW r1, NEW r2,
         \A d \in Deps[n] : r1[d] = r2[d]
  PROVE  Gate(graph, n, r1) <=> Gate(graph, n, r2)
<1>1. /\ \A x \in RoutedBy(graph, n) : r1[x] = r2[x]
      /\ \A e \in ConditionalInto(graph, n) : r1[e.from] = r2[e.from]
  BY GraphFacts
<1>2. (\E x \in RoutedBy(graph, n) : r1[x] # NoResult /\ Decision(graph, x, r1[x]) = n)
      <=> (\E x \in RoutedBy(graph, n) : r2[x] # NoResult /\ Decision(graph, x, r2[x]) = n)
  <2>1. \A x \in RoutedBy(graph, n) : Decision(graph, x, r1[x]) = Decision(graph, x, r2[x])
    BY <1>1
  <2> QED
    BY <1>1, <2>1
<1>3. (\E e \in ConditionalInto(graph, n) : r1[e.from] = e.when)
      <=> (\E e \in ConditionalInto(graph, n) : r2[e.from] = e.when)
  BY <1>1
<1> QED
  BY <1>2, <1>3 DEF Gate

\* What a routing node decides is one of its targets, or nothing.
LEMMA DecisionIsTarget ==
  ASSUME NEW src \in Nodes, HasRoutes(graph, src), NEW r
  PROVE  Decision(graph, src, r) \in Targets(graph, src) \cup {None}
<1> DEFINE cases == graph.routes[src].cases
           hits == {i \in 1..Len(cases) : cases[i].when = r}
<1>1. CASE hits = {}
  <2>1. Decision(graph, src, r) = graph.routes[src].default
    BY <1>1 DEF Decision
  <2> QED
    BY <2>1 DEF Targets
<1>2. CASE hits # {}
  <2>1. hits \in SUBSET Nat
    OBVIOUS
  <2>2. PICK lo \in hits : \A j \in hits : lo <= j
    <3> HIDE DEF hits
    <3> QED
      BY <1>2, <2>1, Smallest
  <2>3. PICK k : k = CHOOSE i \in hits : \A j \in hits : i <= j
    OBVIOUS
  <2>4. k \in hits
    <3> HIDE DEF hits
    <3> QED
      BY <2>2, <2>3
  <2>5. Decision(graph, src, r) = cases[k].to
    BY <1>2, <2>3 DEF Decision
  <2>6. k \in 1..Len(cases)
    BY <2>4
  <2> QED
    BY <2>5, <2>6 DEF Targets
<1> QED
  BY <1>1, <1>2

-----------------------------------------------------------------------------
\* The components of a record of Locals, and OnSettle on them.
LEMMA LocalsFacts ==
  ASSUME NEW t \in Locals
  PROVE  /\ t = [status |-> t.status, results |-> t.results, enqueued |-> t.enqueued,
                 inFlight |-> t.inFlight, settled |-> t.settled, aborted |-> t.aborted,
                 retry |-> t.retry]
         /\ t.status \in [Nodes -> Statuses] /\ t.results \in ResultMap
         /\ t.enqueued \subseteq Nodes /\ t.inFlight \in Nat /\ t.settled \in Nat
         /\ t.aborted \in BOOLEAN /\ t.retry \in Seq(Nodes)
BY DEF Locals

\* What tryStart makes of the state t when it comes to node n.
Tried(t, n, u) ==
  /\ u \in Locals
  /\ u.results = t.results /\ u.enqueued = t.enqueued /\ u.aborted = t.aborted
  /\ \/ /\ t.aborted /\ u.settled = t.settled + 1
        /\ u.status = t.status /\ u.inFlight = t.inFlight /\ u.retry = t.retry
     \/ /\ ~t.aborted /\ ~Gate(graph, n, t.results)
        /\ u.settled = t.settled + 1 /\ u.status = [t.status EXCEPT ![n] = "skipped"]
        /\ u.inFlight = t.inFlight /\ u.retry = t.retry
     \/ /\ ~t.aborted /\ Gate(graph, n, t.results)
        /\ u.settled = t.settled /\ u.status = t.status
        /\ u.inFlight = t.inFlight /\ u.retry = Append(t.retry, n)
     \/ /\ ~t.aborted /\ Gate(graph, n, t.results) /\ t.inFlight < MaxConcurrency
        /\ u.settled = t.settled /\ u.status = [t.status EXCEPT ![n] = "running"]
        /\ u.inFlight = t.inFlight + 1 /\ u.retry = t.retry

\* tryStart settles the node at once, skips it, queues it again or starts it.
LEMMA TryStartEffect ==
  ASSUME NEW t \in Locals, NEW n \in Nodes, NEW u, u = TryStart(t, n)
  PROVE  Tried(t, n, u)
<1> USE DEF Tried
<1>1. /\ t.status \in [Nodes -> Statuses] /\ t.results \in ResultMap
      /\ t.enqueued \subseteq Nodes /\ t.inFlight \in Nat /\ t.settled \in Nat
      /\ t.aborted \in BOOLEAN /\ t.retry \in Seq(Nodes)
  BY LocalsFacts
<1>2. CASE t.aborted /\ u = [t EXCEPT !.settled = @ + 1]
  <2>1. u = [status |-> t.status, results |-> t.results, enqueued |-> t.enqueued,
             inFlight |-> t.inFlight, settled |-> t.settled + 1, aborted |-> t.aborted,
             retry |-> t.retry]
    BY <1>2 DEF Locals
  <2>2. u \in Locals
    BY <1>1, <2>1 DEF Locals
  <2>3. /\ u.results = t.results /\ u.enqueued = t.enqueued /\ u.aborted = t.aborted
        /\ u.settled = t.settled + 1
        /\ u.status = t.status /\ u.inFlight = t.inFlight /\ u.retry = t.retry
    BY <2>1
  <2> QED
    BY <1>2, <2>2, <2>3
<1>3. CASE /\ ~t.aborted /\ ~Gate(graph, n, t.results)
           /\ u = [t EXCEPT !.status[n] = "skipped", !.settled = @ + 1]
  <2>1. [t.status EXCEPT ![n] = "skipped"] \in [Nodes -> Statuses]
    BY <1>1 DEF Statuses
  <2>2. u = [status |-> [t.status EXCEPT ![n] = "skipped"], results |-> t.results,
             enqueued |-> t.enqueued, inFlight |-> t.inFlight, settled |-> t.settled + 1,
             aborted |-> t.aborted, retry |-> t.retry]
    BY <1>3 DEF Locals
  <2> QED
    BY <1>1, <1>3, <2>1, <2>2 DEF Locals
<1>4. CASE /\ ~t.aborted /\ Gate(graph, n, t.results) /\ t.inFlight >= MaxConcurrency
           /\ u = [t EXCEPT !.retry = Append(@, n)]
  <2>1. Append(t.retry, n) \in Seq(Nodes)
    BY <1>1
  <2> QED
    BY <1>1, <1>4, <2>1 DEF Locals
<1>5. CASE /\ ~t.aborted /\ Gate(graph, n, t.results) /\ ~(t.inFlight >= MaxConcurrency)
           /\ u = [t EXCEPT !.inFlight = @ + 1, !.status[n] = "running"]
  <2>1. [t.status EXCEPT ![n] = "running"] \in [Nodes -> Statuses]
    BY <1>1 DEF Statuses
  <2>2. t.inFlight < MaxConcurrency
    BY <1>1, <1>5, ConcurrencyAssumption
  <2>3. u = [status |-> [t.status EXCEPT ![n] = "running"], results |-> t.results,
             enqueued |-> t.enqueued, inFlight |-> t.inFlight + 1, settled |-> t.settled,
             aborted |-> t.aborted, retry |-> t.retry]
    BY <1>5 DEF Locals
  <2> QED
    BY <1>1, <1>5, <2>1, <2>2, <2>3 DEF Locals
<1>6. CASE t.aborted
  <2>1. u = [t EXCEPT !.settled = @ + 1]
    BY <1>6 DEF TryStart, OnSettle
  <2> QED
    BY <1>2, <1>6, <2>1
<1>7. CASE ~t.aborted /\ ~Gate(graph, n, t.results)
  <2>1. u = OnSettle([t EXCEPT !.status[n] = "skipped"])
    BY <1>7 DEF TryStart
  <2>2. u = [t EXCEPT !.status[n] = "skipped", !.settled = @ + 1]
    BY <2>1 DEF OnSettle, Locals
  <2> QED
    BY <1>3, <1>7, <2>2
<1>8. CASE ~t.aborted /\ Gate(graph, n, t.results) /\ t.inFlight >= MaxConcurrency
  <2>1. u = [t EXCEPT !.retry = Append(@, n)]
    BY <1>8 DEF TryStart
  <2> QED
    BY <1>4, <1>8, <2>1
<1>9. CASE ~t.aborted /\ Gate(graph, n, t.results) /\ ~(t.inFlight >= MaxConcurrency)
  <2>1. u = [t EXCEPT !.inFlight = @ + 1, !.status[n] = "running"]
    BY <1>9 DEF TryStart
  <2> QED
    BY <1>5, <1>9, <2>1
<1> QED
  BY <1>6, <1>7, <1>8, <1>9, Zenon

\* A node stays ready while what has come through stays as it is.
LEMMA ReadyStable ==
  ASSUME graph \in Graphs, NEW t, NEW u,
         \A d \in Nodes : t.status[d] \notin {"pending", "running"} =>
                            u.status[d] = t.status[d]
  PROVE  \A m \in Nodes : IsReady(t, m) => IsReady(u, m)
<1>1. ASSUME NEW m \in Nodes, IsReady(t, m) PROVE IsReady(u, m)
  <2>1. Deps[m] \subseteq Nodes
    BY GraphFacts
  <2>2. \A d \in Deps[m] : t.status[d] \notin {"pending", "running"}
    BY <1>1 DEF IsReady
  <2> QED
    BY <1>1, <2>1, <2>2 DEF IsReady
<1> QED
  BY <1>1

\* Moving one node from one set to another moves the numbers by one.
LEMMA OneMore ==
  ASSUME IsFiniteSet(Nodes), NEW A \in SUBSET Nodes, NEW n \in Nodes \ A
  PROVE  Cardinality(A \cup {n}) = Cardinality(A) + 1 /\ Cardinality(A) \in Nat
BY FS_Subset, FS_AddElement, FS_CardinalityType

\* The numbers that are counted are natural numbers.
LEMMA CountsAreNaturals ==
  ASSUME NEW t \in Locals
  PROVE  /\ Cardinality(RunningIn(t)) \in Nat /\ Cardinality(Through(t)) \in Nat
         /\ Cardinality(Late(t)) \in Nat /\ Cardinality(Twice(t)) \in Nat
<1>1. /\ RunningIn(t) \in SUBSET Nodes /\ Through(t) \in SUBSET Nodes
      /\ Late(t) \in SUBSET Nodes /\ Twice(t) \in SUBSET Nodes
  BY LocalsFacts DEF RunningIn, Through, Late, Twice
<1>2. \A A \in SUBSET Nodes : Cardinality(A) \in Nat
  BY NodesAssumption, FS_Subset, FS_CardinalityType
<1> QED
  BY <1>1, <1>2

\* Before a hard failure settledCount is simply the number of nodes that are through.
LEMMA CountedBefore ==
  ASSUME NEW t \in Locals, Recorded(t), ~t.aborted, NEW owed \in {0, 1}
  PROVE  Counted(t, owed) <=> /\ t.inFlight = Cardinality(RunningIn(t))
                              /\ t.inFlight <= MaxConcurrency
                              /\ t.settled + owed = Cardinality(Through(t))
<1>1. Late(t) = {} /\ Twice(t) = {}
  BY DEF Late, Twice, Recorded
<1>2. Cardinality(Late(t)) = 0 /\ Cardinality(Twice(t)) = 0 /\ Cardinality(Through(t)) \in Nat
  BY <1>1, FS_EmptySet, CountsAreNaturals
<1> QED
  BY <1>2 DEF Counted

\* What follows from one node of a record changing its status only.
LEMMA StatusMove ==
  ASSUME NEW t \in Locals, NEW n \in Nodes, t.status[n] = "pending",
         NEW u \in Locals, NEW x \in {"running", "skipped"},
         u.status = [t.status EXCEPT ![n] = x],
         IsFiniteSet(Nodes)
  PROVE  /\ \A m \in Nodes : m # n => u.status[m] = t.status[m]
         /\ u.status[n] = x
         /\ x = "running" => /\ Cardinality(RunningIn(u)) = Cardinality(RunningIn(t)) + 1
                             /\ Through(u) = Through(t)
         /\ x = "skipped" => /\ Cardinality(Through(u)) = Cardinality(Through(t)) + 1
                             /\ RunningIn(u) = RunningIn(t)
<1>1. t.status \in [Nodes -> Statuses]
  BY LocalsFacts
<1>2. u.status[n] = x /\ \A m \in Nodes : m # n => u.status[m] = t.status[m]
  BY <1>1
<1>3. x = "running" => RunningIn(u) = RunningIn(t) \cup {n} /\ Through(u) = Through(t)
  BY <1>2 DEF RunningIn, Through
<1>4. x = "skipped" => RunningIn(u) = RunningIn(t) /\ Through(u) = Through(t) \cup {n}
  BY <1>2 DEF RunningIn, Through
<1>5. n \notin RunningIn(t) /\ n \notin Through(t)
      /\ RunningIn(t) \subseteq Nodes /\ Through(t) \subseteq Nodes
  BY DEF RunningIn, Through
<1>6. /\ Cardinality(RunningIn(t) \cup {n}) = Cardinality(RunningIn(t)) + 1
      /\ Cardinality(Through(t) \cup {n}) = Cardinality(Through(t)) + 1
  BY <1>5, OneMore
<1> QED
  BY <1>2, <1>3, <1>4, <1>6

\* A queue without repeats gets a new member.
LEMMA AppendMembers ==
  ASSUME NEW q \in Seq(Nodes), NEW n \in Nodes
  PROVE  /\ Members(Append(q, n)) = Members(q) \cup {n}
         /\ NoRepeats(q) /\ n \notin Members(q) => NoRepeats(Append(q, n))
<1> DEFINE a == Append(q, n)
<1>1. Len(q) \in Nat /\ Len(a) = Len(q) + 1 /\ a[Len(q) + 1] = n
      /\ \A i \in 1..Len(q) : a[i] = q[i]
  OBVIOUS
<1> HIDE DEF a
<1>2. \A i \in 1..Len(a) : i \in 1..Len(q) \/ i = Len(q) + 1
  BY <1>1
<1>3. Members(a) = Members(q) \cup {n}
  <2>1. Len(q) + 1 \in 1..Len(a) /\ 1..Len(q) \subseteq 1..Len(a)
    BY <1>1
  <2> QED
    BY <1>1, <1>2, <2>1 DEF Members
<1>4. ASSUME NoRepeats(q), n \notin Members(q) PROVE NoRepeats(a)
  <2>1. \A i \in 1..Len(q) : a[i] # n
    BY <1>1, <1>4 DEF Members
  <2> QED
    BY <1>1, <1>2, <1>4, <2>1 DEF NoRepeats
<1> QED
  BY <1>3, <1>4 DEF a

\* The head leaves a queue without repeats.
LEMMA TailMembers ==
  ASSUME NEW q \in Seq(Nodes), q # <<>>
  PROVE  /\ Head(q) \in Members(q) /\ Head(q) \in Nodes /\ Tail(q) \in Seq(Nodes)
         /\ NoRepeats(q) => /\ Members(Tail(q)) = Members(q) \ {Head(q)}
                            /\ NoRepeats(Tail(q))
<1> DEFINE a == Tail(q)
<1>1. Len(q) \in Nat \ {0} /\ Len(a) = Len(q) - 1 /\ a \in Seq(Nodes)
      /\ \A i \in 1..Len(a) : a[i] = q[i + 1]
  OBVIOUS
<1>2. Head(q) = q[1] /\ 1 \in 1..Len(q) /\ q[1] \in Nodes
  BY <1>1
<1> HIDE DEF a
<1>3. Head(q) \in Members(q)
  BY <1>2 DEF Members
<1>4. ASSUME NoRepeats(q) PROVE Members(a) = Members(q) \ {q[1]} /\ NoRepeats(a)
  <2>1. \A i \in 1..Len(a) : i + 1 \in 1..Len(q) /\ i + 1 # 1
    BY <1>1
  <2>2. \A i \in 1..Len(q) : i = 1 \/ (i - 1 \in 1..Len(a) /\ a[i - 1] = q[i])
    BY <1>1
  <2>3. Members(a) \subseteq Members(q) \ {q[1]}
    <3>1. ASSUME NEW i \in 1..Len(a) PROVE a[i] \in Members(q) \ {q[1]}
      <4>1. a[i] = q[i + 1] /\ i + 1 \in 1..Len(q) /\ i + 1 # 1
        BY <1>1, <2>1
      <4>2. q[i + 1] # q[1]
        BY <1>2, <1>4, <4>1 DEF NoRepeats
      <4> QED
        BY <4>1, <4>2 DEF Members
    <3> QED
      BY <3>1 DEF Members
  <2>4. Members(q) \ {q[1]} \subseteq Members(a)
    BY <2>2, ZenonT(60) DEF Members
  <2>5. ASSUME NEW i \in 1..Len(a), NEW j \in 1..Len(a), a[i] = a[j] PROVE i = j
    <3>1. q[i + 1] = q[j + 1] /\ i + 1 \in 1..Len(q) /\ j + 1 \in 1..Len(q)
      BY <1>1, <2>1, <2>5
    <3>2. i + 1 = j + 1
      BY <1>4, <3>1 DEF NoRepeats
    <3> QED
      BY <3>2
  <2> QED
    BY <2>3, <2>4, <2>5 DEF NoRepeats
<1> QED
  BY <1>1, <1>2, <1>3, <1>4 DEF a

-----------------------------------------------------------------------------
\* Before a hard failure, tryStart of a node that holds no place in the queue.
LEMMA TryStartSound ==
  ASSUME graph \in Graphs, NEW t, NEW n \in Nodes, NEW owed \in {0, 1},
         Sound(t, owed, {n}), ~t.aborted, n \in t.enqueued, t.status[n] = "pending",
         NEW u, u = TryStart(t, n)
  PROVE  Sound(u, owed, {}) /\ Moved(t, u) /\ u.enqueued = t.enqueued
<1>1. t \in Locals /\ Counted(t, owed) /\ Queued(t, {n}) /\ Recorded(t) /\ Gated(t)
  BY DEF Sound
<1>2. /\ t.status \in [Nodes -> Statuses] /\ t.inFlight \in Nat /\ t.settled \in Nat
      /\ t.aborted \in BOOLEAN /\ t.retry \in Seq(Nodes) /\ t.enqueued \subseteq Nodes
  BY <1>1, LocalsFacts
<1>3. /\ u \in Locals
      /\ u.results = t.results /\ u.enqueued = t.enqueued /\ u.aborted = t.aborted
      /\ \/ /\ t.aborted /\ u.settled = t.settled + 1
            /\ u.status = t.status /\ u.inFlight = t.inFlight /\ u.retry = t.retry
         \/ /\ ~t.aborted /\ ~Gate(graph, n, t.results)
            /\ u.settled = t.settled + 1 /\ u.status = [t.status EXCEPT ![n] = "skipped"]
            /\ u.inFlight = t.inFlight /\ u.retry = t.retry
         \/ /\ ~t.aborted /\ Gate(graph, n, t.results)
            /\ u.settled = t.settled /\ u.status = t.status
            /\ u.inFlight = t.inFlight /\ u.retry = Append(t.retry, n)
         \/ /\ ~t.aborted /\ Gate(graph, n, t.results) /\ t.inFlight < MaxConcurrency
            /\ u.settled = t.settled /\ u.status = [t.status EXCEPT ![n] = "running"]
            /\ u.inFlight = t.inFlight + 1 /\ u.retry = t.retry
  <2>1. Tried(t, n, u)
    BY <1>1, TryStartEffect
  <2> QED
    BY <2>1 DEF Tried
<1>4. IsFiniteSet(Nodes) /\ MaxConcurrency \in Nat
  BY NodesAssumption, ConcurrencyAssumption
<1>5. ASSUME u.status = t.status
      PROVE  /\ Recorded(u) /\ Gated(u) /\ Moved(t, u)
             /\ RunningIn(u) = RunningIn(t) /\ Through(u) = Through(t)
             /\ \A m \in Nodes : u.status[m] # "pending" => m \in u.enqueued
             /\ \A m \in u.enqueued : IsReady(u, m)
  <2>1. Recorded(u) /\ Gated(u) /\ Moved(t, u)
    BY <1>1, <1>3, <1>5 DEF Recorded, Gated, Moved
  <2>2. RunningIn(u) = RunningIn(t) /\ Through(u) = Through(t)
    BY <1>5 DEF RunningIn, Through
  <2>3. \A m \in u.enqueued : IsReady(u, m)
    BY <1>1, <1>3, <1>5 DEF Queued, IsReady
  <2> QED
    BY <1>1, <1>3, <1>5, <2>1, <2>2, <2>3 DEF Queued
<1>6. ASSUME ~t.aborted, NEW x \in {"running", "skipped"}, u.retry = t.retry,
             u.status = [t.status EXCEPT ![n] = x], Gate(graph, n, t.results) <=> x = "running"
      PROVE  Recorded(u) /\ Gated(u) /\ Moved(t, u) /\ Queued(u, {})
  <2>1. t.status[n] = "pending"
    BY <1>6
  <2>2. /\ u.status[n] = x /\ \A m \in Nodes : m # n => u.status[m] = t.status[m]
        /\ \A m \in Nodes : IsReady(t, m) => IsReady(u, m)
    <3>1. t \in Locals /\ u \in Locals
      BY <1>1, <1>3
    <3>2. x \in {"running", "skipped"} /\ u.status = [t.status EXCEPT ![n] = x]
      BY <1>6
    <3>3. u.status[n] = x /\ \A m \in Nodes : m # n => u.status[m] = t.status[m]
      BY <1>2, <3>2
    <3>4. \A m \in Nodes : IsReady(t, m) => IsReady(u, m)
      <4>1. \A m \in Nodes : t.status[m] \notin {"pending", "running"} =>
                                u.status[m] = t.status[m]
        BY <2>1, <3>3
      <4> QED
        BY <4>1, ReadyStable
    <3> QED
      BY <3>3, <3>4
  <2>3. t.results[n] = NoResult
    <3>1. t.results[n] \in ResultOrNone
      BY <1>1 DEF Locals, ResultMap
    <3>2. t.results[n] # "ok" /\ t.results[n] # "failed"
      BY <1>1, <2>1 DEF Recorded
    <3> QED
      BY <3>1, <3>2 DEF ResultOrNone, Results
  <2>4. Recorded(u)
    <3>1. ASSUME NEW m \in Nodes
          PROVE  /\ u.results[m] = "ok" <=> u.status[m] = "completed"
                 /\ u.results[m] = "failed" => u.status[m] = "failed"
                 /\ u.status[m] = "failed" /\ u.results[m] = NoResult => u.aborted
                 /\ u.status[m] = "failed" => Tolerated(graph, m)
      <4>1. CASE m = n
        BY <1>3, <2>2, <2>3, <4>1 DEF NoResult
      <4>2. CASE m # n
        BY <1>1, <1>3, <1>6, <2>2, <4>2 DEF Recorded
      <4> QED
        BY <4>1, <4>2
    <3> QED
      BY <3>1 DEF Recorded
  <2>5. Gated(u)
    <3>1. ASSUME NEW m \in Nodes
          PROVE  /\ u.status[m] = "skipped" => ~Gate(graph, m, u.results)
                 /\ u.status[m] = "running" \/ u.results[m] # NoResult
                      => Gate(graph, m, u.results)
      <4>1. CASE m = n
        BY <1>3, <1>6, <2>2, <2>3, <4>1
      <4>2. CASE m # n
        BY <1>1, <1>3, <2>2, <4>2 DEF Gated
      <4> QED
        BY <4>1, <4>2
    <3> QED
      BY <3>1 DEF Gated
  <2>6. Moved(t, u)
    BY <1>3, <1>6, <2>1, <2>2 DEF Moved
  <2>7. \A m \in Nodes : u.status[m] # "pending" => m \in u.enqueued
    BY <1>1, <1>3, <2>2 DEF Queued
  <2>8. \A m \in u.enqueued : IsReady(u, m)
    BY <1>1, <1>2, <1>3, <2>2 DEF Queued
  <2>9. {m \in u.enqueued : u.status[m] = "pending"}
          = {m \in t.enqueued : t.status[m] = "pending"} \ {n}
    BY <1>2, <1>3, <2>2
  <2>10. /\ NoRepeats(u.retry)
         /\ Members(u.retry) = {m \in u.enqueued : u.status[m] = "pending"} \ {}
    <3>1. /\ NoRepeats(t.retry)
          /\ Members(t.retry) = {m \in t.enqueued : t.status[m] = "pending"} \ {n}
      BY <1>1, <1>6 DEF Queued
    <3> QED
      BY <1>6, <2>9, <3>1
  <2> QED
    BY <1>3, <1>6, <2>4, <2>5, <2>6, <2>7, <2>8, <2>10 DEF Queued
<1>7. /\ t.inFlight = Cardinality(RunningIn(t)) /\ t.inFlight <= MaxConcurrency
      /\ t.settled + owed = Cardinality(Through(t)) /\ Cardinality(Through(t)) \in Nat
  BY <1>1, CountedBefore, CountsAreNaturals
<1>8. CASE /\ ~t.aborted /\ ~Gate(graph, n, t.results)
           /\ u.settled = t.settled + 1 /\ u.status = [t.status EXCEPT ![n] = "skipped"]
           /\ u.inFlight = t.inFlight /\ u.retry = t.retry
  <2>1. PICK x : x = "skipped"
    OBVIOUS
  <2>2. /\ Cardinality(Through(u)) = Cardinality(Through(t)) + 1
        /\ RunningIn(u) = RunningIn(t)
    <3>1. t \in Locals /\ u \in Locals /\ t.status[n] = "pending"
      BY <1>1, <1>3, <1>8
    <3>2. x \in {"running", "skipped"} /\ u.status = [t.status EXCEPT ![n] = x]
      BY <1>8, <2>1
    <3> QED
      BY <1>4, <2>1, <3>1, <3>2, StatusMove
  <2>4. Recorded(u) /\ Gated(u) /\ Moved(t, u) /\ Queued(u, {})
    BY <1>6, <1>8, <2>1
  <2>5. u.settled + owed = Cardinality(Through(u))
    BY <1>2, <1>7, <1>8, <2>2
  <2>3. Counted(u, owed)
    BY <1>3, <1>7, <1>8, <2>2, <2>4, <2>5, CountedBefore
  <2> QED
    BY <1>3, <2>3, <2>4 DEF Sound
<1>9. CASE /\ ~t.aborted /\ Gate(graph, n, t.results)
           /\ u.settled = t.settled /\ u.status = t.status
           /\ u.inFlight = t.inFlight /\ u.retry = Append(t.retry, n)
  <2>1. Counted(u, owed)
    BY <1>3, <1>5, <1>7, <1>9, CountedBefore
  <2>2. /\ NoRepeats(t.retry)
        /\ Members(t.retry) = {m \in t.enqueued : t.status[m] = "pending"} \ {n}
    BY <1>1, <1>9 DEF Queued
  <2>3. NoRepeats(u.retry) /\ Members(u.retry) = Members(t.retry) \cup {n}
    BY <1>2, <1>9, <2>2, AppendMembers
  <2>4. Members(u.retry) = {m \in u.enqueued : u.status[m] = "pending"} \ {}
    BY <1>3, <1>9, <2>2, <2>3
  <2>5. Queued(u, {})
    BY <1>3, <1>5, <1>9, <2>3, <2>4 DEF Queued
  <2> QED
    BY <1>3, <1>5, <1>9, <2>1, <2>5 DEF Sound
<1>10. CASE /\ ~t.aborted /\ Gate(graph, n, t.results) /\ t.inFlight < MaxConcurrency
            /\ u.settled = t.settled /\ u.status = [t.status EXCEPT ![n] = "running"]
            /\ u.inFlight = t.inFlight + 1 /\ u.retry = t.retry
  <2>1. PICK x : x = "running"
    OBVIOUS
  <2>2. /\ Cardinality(RunningIn(u)) = Cardinality(RunningIn(t)) + 1
        /\ Through(u) = Through(t)
    <3>1. t \in Locals /\ u \in Locals /\ t.status[n] = "pending"
      BY <1>1, <1>3, <1>10
    <3>2. x \in {"running", "skipped"} /\ u.status = [t.status EXCEPT ![n] = x]
      BY <1>10, <2>1
    <3> QED
      BY <1>4, <2>1, <3>1, <3>2, StatusMove
  <2>4. Recorded(u) /\ Gated(u) /\ Moved(t, u) /\ Queued(u, {})
    BY <1>6, <1>10, <2>1
  <2>5. u.inFlight = Cardinality(RunningIn(u)) /\ u.inFlight <= MaxConcurrency
    BY <1>2, <1>4, <1>7, <1>10, <2>2
  <2>3. Counted(u, owed)
    BY <1>3, <1>7, <1>10, <2>2, <2>4, <2>5, CountedBefore
  <2> QED
    BY <1>3, <2>3, <2>4 DEF Sound
<1>11. /\ u \in Locals /\ u.enqueued = t.enqueued
  BY <1>3
<1> QED
  BY <1>3, <1>8, <1>9, <1>10, <1>11

\* A node that was never enqueued is.
LEMMA EnqueueSound ==
  ASSUME graph \in Graphs, NEW t, NEW m \in Nodes, NEW owed \in {0, 1},
         Sound(t, owed, {}), m \notin t.enqueued, IsReady(t, m),
         NEW u, u = Enqueue(t, m)
  PROVE  Sound(u, owed, {}) /\ Moved(t, u) /\ u.enqueued = t.enqueued \cup {m}
<1>1. PICK v : v = [t EXCEPT !.enqueued = @ \cup {m}]
  OBVIOUS
<1>2. t \in Locals /\ Counted(t, owed) /\ Queued(t, {}) /\ Recorded(t) /\ Gated(t)
  BY DEF Sound
<1>3. t.enqueued \subseteq Nodes
  BY <1>2, LocalsFacts
<1>4. /\ v \in Locals /\ v.enqueued = t.enqueued \cup {m}
      /\ v.status = t.status /\ v.results = t.results /\ v.inFlight = t.inFlight
      /\ v.settled = t.settled /\ v.aborted = t.aborted /\ v.retry = t.retry
  <2>1. t.enqueued \cup {m} \in SUBSET Nodes
    BY <1>3
  <2> QED
    BY <1>1, <1>2, <2>1 DEF Locals
<1>5. t.status[m] = "pending"
  BY <1>2 DEF Queued
<1>6. Recorded(v) /\ Gated(v)
  BY <1>2, <1>4 DEF Recorded, Gated
<1>7. u = TryStart(v, m)
  BY <1>1 DEF Enqueue
<1>8. /\ \A x \in v.enqueued : IsReady(v, x)
      /\ \A x \in Nodes : v.status[x] # "pending" => x \in v.enqueued
      /\ NoRepeats(v.retry)
  BY <1>2, <1>4 DEF Queued, IsReady
<1>9. CASE ~t.aborted
  <2>1. Counted(v, owed)
    <3>1. RunningIn(v) = RunningIn(t) /\ Through(v) = Through(t)
      BY <1>4 DEF RunningIn, Through
    <3> QED
      BY <1>2, <1>4, <1>6, <1>9, <3>1, CountedBefore
  <2>2. Members(v.retry) = {x \in v.enqueued : v.status[x] = "pending"} \ {m}
    <3>1. Members(t.retry) = {x \in t.enqueued : t.status[x] = "pending"} \ {}
      BY <1>2, <1>9 DEF Queued
    <3>2. {x \in v.enqueued : v.status[x] = "pending"} \ {m}
            = {x \in t.enqueued : t.status[x] = "pending"}
      BY <1>4
    <3> QED
      BY <1>4, <3>1, <3>2
  <2>3. Queued(v, {m})
    BY <1>4, <1>8, <1>9, <2>2 DEF Queued
  <2>4. Sound(v, owed, {m})
    BY <1>4, <1>6, <2>1, <2>3 DEF Sound
  <2>5. m \in v.enqueued /\ v.status[m] = "pending" /\ ~v.aborted
    BY <1>4, <1>5, <1>9
  <2>6. Sound(u, owed, {}) /\ Moved(v, u) /\ u.enqueued = v.enqueued
    BY <1>7, <2>4, <2>5, TryStartSound
  <2> QED
    BY <1>4, <2>6 DEF Moved
<1>10. CASE t.aborted
  <2>1. /\ u \in Locals
        /\ u.results = t.results /\ u.enqueued = t.enqueued \cup {m} /\ u.aborted
        /\ u.settled = t.settled + 1 /\ u.status = t.status
        /\ u.inFlight = t.inFlight /\ u.retry = t.retry
    <3>1. Tried(v, m, u)
      BY <1>4, <1>7, TryStartEffect
    <3> QED
      BY <1>4, <1>10, <3>1 DEF Tried
  <2>2. /\ RunningIn(u) = RunningIn(t) /\ Through(u) = Through(t) /\ Twice(u) = Twice(t)
        /\ Late(u) = Late(t) \cup {m}
    BY <1>5, <1>10, <2>1 DEF RunningIn, Through, Twice, Late
  <2>3. Cardinality(Late(u)) = Cardinality(Late(t)) + 1
    <3>1. IsFiniteSet(Nodes) /\ Late(t) \in SUBSET Nodes /\ m \in Nodes \ Late(t)
      BY <1>3, NodesAssumption DEF Late
    <3> QED
      BY <2>2, <3>1, OneMore
  <2>4. Counted(u, owed)
    <3>1. /\ Cardinality(Through(t)) \in Nat /\ Cardinality(Late(t)) \in Nat
          /\ Cardinality(Twice(t)) \in Nat /\ t.settled \in Nat
      BY <1>2, CountsAreNaturals, LocalsFacts
    <3> QED
      BY <1>2, <2>1, <2>2, <2>3, <3>1 DEF Counted
  <2>5. Queued(u, {})
    <3>1. \A x \in u.enqueued : IsReady(u, x)
      BY <1>4, <1>8, <2>1 DEF IsReady
    <3>2. \A x \in Nodes : u.status[x] # "pending" => x \in u.enqueued
      BY <1>2, <2>1 DEF Queued
    <3>3. /\ NoRepeats(u.retry)
          /\ \A x \in Members(u.retry) : u.status[x] = "failed" /\ u.results[x] = NoResult
      BY <1>2, <1>10, <2>1 DEF Queued
    <3> QED
      BY <2>1, <3>1, <3>2, <3>3 DEF Queued
  <2>6. Recorded(u) /\ Gated(u) /\ Moved(t, u)
    BY <1>2, <1>10, <2>1 DEF Recorded, Gated, Moved
  <2> QED
    BY <2>1, <2>4, <2>5, <2>6 DEF Sound
<1>11. t.aborted \in BOOLEAN
  BY <1>2, LocalsFacts
<1> QED
  BY <1>9, <1>10, <1>11

\* Enqueue returns local variables.
LEMMA EnqueueType ==
  ASSUME NEW t \in Locals, NEW m \in Nodes PROVE Enqueue(t, m) \in Locals
<1>1. PICK v : v = [t EXCEPT !.enqueued = @ \cup {m}]
  OBVIOUS
<1>2. v \in Locals
  <2>1. t.enqueued \cup {m} \in SUBSET Nodes
    BY LocalsFacts
  <2> QED
    BY <1>1, <2>1 DEF Locals
<1>3. PICK u : u = TryStart(v, m)
  OBVIOUS
<1>4. u \in Locals
  BY <1>2, <1>3, TryStartEffect DEF Tried
<1> QED
  BY <1>1, <1>3, <1>4 DEF Enqueue

\* The loops over the dependents of a node and over the first ready nodes, round by
\* round.
LEMMA CascadeRounds ==
  ASSUME graph \in Graphs, NEW t \in Locals, NEW n \in Nodes
  PROVE  \E f :
           /\ \A m \in 0..Total : f[m] \in Locals
           /\ f[0] = t /\ Cascade(t, n) = f[Total]
           /\ \A m \in 1..Total : f[m] = CascadeOne(f[m - 1], n, m)
<1> DEFINE Loops(f) == f = [m \in 0..Total |-> IF m = 0 THEN t ELSE CascadeOne(f[m - 1], n, m)]
           step == [m \in 1..Total |-> [v \in Locals |-> CascadeOne(v, n, m)]]
<1>1. Total \in Nat \ {0} /\ Nodes = 1..Total
  BY GraphFacts
<1>2. step \in [1..Total -> [Locals -> Locals]]
  <2>1. ASSUME NEW m \in 1..Total, NEW v \in Locals PROVE CascadeOne(v, n, m) \in Locals
    BY <1>1, EnqueueType DEF CascadeOne
  <2> QED
    BY <2>1
<1>3. PICK f \in [0..Total -> Locals] :
        f[0] = t /\ \A m \in 1..Total : f[m] = step[m][f[m - 1]]
  <2> HIDE DEF step
  <2>1. \E f : Rounds(Total, Locals, t, step, f)
    BY <1>1, <1>2, LoopExists
  <2> QED
    BY <2>1 DEF Rounds
<1>4. ASSUME NEW m \in 1..Total PROVE f[m - 1] \in Locals /\ f[m] = CascadeOne(f[m - 1], n, m)
  <2>1. m - 1 \in 0..Total
    BY <1>1
  <2>2. f[m - 1] \in Locals
    BY <1>3, <2>1
  <2>3. step[m][f[m - 1]] = CascadeOne(f[m - 1], n, m)
    BY <2>2
  <2> QED
    BY <1>3, <2>2, <2>3
<1>5. Loops(f)
  <2>1. \A m \in 0..Total : f[m] = IF m = 0 THEN t ELSE CascadeOne(f[m - 1], n, m)
    BY <1>1, <1>3, <1>4
  <2> QED
    BY <2>1
<1>6. PICK g : g = CHOOSE h : Loops(h)
  OBVIOUS
<1>7. Cascade(t, n) = g[Total]
  BY <1>6 DEF Cascade
<1>8. Loops(g)
  <2> HIDE DEF Loops
  <2> QED
    BY <1>5, <1>6
<1>9. \A m \in 0..Total : g[m] = IF m = 0 THEN t ELSE CascadeOne(g[m - 1], n, m)
  BY <1>8
<1>10. g[0] = t /\ \A m \in 1..Total : g[m] = CascadeOne(g[m - 1], n, m)
  BY <1>1, <1>9
<1>11. {m \in 0..Total : g[m] \in Locals} = 0..Total
  <2> DEFINE T == {m \in 0..Total : g[m] \in Locals}
  <2>1. 0 \in T
    BY <1>1, <1>10
  <2>2. ASSUME NEW m \in 1..Total, m - 1 \in T PROVE m \in T
    <3>1. g[m] = CascadeOne(g[m - 1], n, m) /\ g[m - 1] \in Locals /\ m \in Nodes
      BY <1>1, <1>10, <2>2
    <3> QED
      BY <3>1, EnqueueType DEF CascadeOne
  <2>3. T \in SUBSET (0..Total)
    OBVIOUS
  <2> HIDE DEF T
  <2>4. T = 0..Total
    BY <1>1, <2>1, <2>2, <2>3, Climb
  <2> QED
    BY <2>4 DEF T
<1>12. \A m \in 0..Total : g[m] \in Locals
  BY <1>11
<1> HIDE DEF Loops
<1> QED
  BY <1>7, <1>10, <1>12

LEMMA KickOffRounds ==
  ASSUME graph \in Graphs, NEW t \in Locals
  PROVE  \E f :
           /\ \A m \in 0..Total : f[m] \in Locals
           /\ f[0] = t /\ KickOff(t) = f[Total]
           /\ \A m \in 1..Total : f[m] = KickOffOne(f[m - 1], m)
<1> DEFINE Loops(f) == f = [m \in 0..Total |-> IF m = 0 THEN t ELSE KickOffOne(f[m - 1], m)]
           step == [m \in 1..Total |-> [v \in Locals |-> KickOffOne(v, m)]]
<1>1. Total \in Nat \ {0} /\ Nodes = 1..Total
  BY GraphFacts
<1>2. step \in [1..Total -> [Locals -> Locals]]
  <2>1. ASSUME NEW m \in 1..Total, NEW v \in Locals PROVE KickOffOne(v, m) \in Locals
    BY <1>1, EnqueueType DEF KickOffOne
  <2> QED
    BY <2>1
<1>3. PICK f \in [0..Total -> Locals] :
        f[0] = t /\ \A m \in 1..Total : f[m] = step[m][f[m - 1]]
  <2> HIDE DEF step
  <2>1. \E f : Rounds(Total, Locals, t, step, f)
    BY <1>1, <1>2, LoopExists
  <2> QED
    BY <2>1 DEF Rounds
<1>4. ASSUME NEW m \in 1..Total PROVE f[m - 1] \in Locals /\ f[m] = KickOffOne(f[m - 1], m)
  <2>1. m - 1 \in 0..Total
    BY <1>1
  <2>2. f[m - 1] \in Locals
    BY <1>3, <2>1
  <2>3. step[m][f[m - 1]] = KickOffOne(f[m - 1], m)
    BY <2>2
  <2> QED
    BY <1>3, <2>2, <2>3
<1>5. Loops(f)
  <2>1. \A m \in 0..Total : f[m] = IF m = 0 THEN t ELSE KickOffOne(f[m - 1], m)
    BY <1>1, <1>3, <1>4
  <2> QED
    BY <2>1
<1>6. PICK g : g = CHOOSE h : Loops(h)
  OBVIOUS
<1>7. KickOff(t) = g[Total]
  BY <1>6 DEF KickOff
<1>8. Loops(g)
  <2> HIDE DEF Loops
  <2> QED
    BY <1>5, <1>6
<1>9. \A m \in 0..Total : g[m] = IF m = 0 THEN t ELSE KickOffOne(g[m - 1], m)
  BY <1>8
<1>10. g[0] = t /\ \A m \in 1..Total : g[m] = KickOffOne(g[m - 1], m)
  BY <1>1, <1>9
<1>11. {m \in 0..Total : g[m] \in Locals} = 0..Total
  <2> DEFINE T == {m \in 0..Total : g[m] \in Locals}
  <2>1. 0 \in T
    BY <1>1, <1>10
  <2>2. ASSUME NEW m \in 1..Total, m - 1 \in T PROVE m \in T
    <3>1. g[m] = KickOffOne(g[m - 1], m) /\ g[m - 1] \in Locals /\ m \in Nodes
      BY <1>1, <1>10, <2>2
    <3> QED
      BY <3>1, EnqueueType DEF KickOffOne
  <2>3. T \in SUBSET (0..Total)
    OBVIOUS
  <2> HIDE DEF T
  <2>4. T = 0..Total
    BY <1>1, <2>1, <2>2, <2>3, Climb
  <2> QED
    BY <2>4 DEF T
<1>12. \A m \in 0..Total : g[m] \in Locals
  BY <1>11
<1> HIDE DEF Loops
<1> QED
  BY <1>7, <1>10, <1>12

\* Moving on is transitive, and what holds a node back goes on holding it back.
LEMMA MovedFacts ==
  ASSUME graph \in Graphs, NEW t, NEW u, NEW v, Moved(t, u), Moved(u, v)
  PROVE  /\ Moved(t, v) /\ Moved(t, t)
         /\ \A n \in Nodes : HeldBack(u, n) => HeldBack(v, n)
<1>1. Moved(t, v) /\ Moved(t, t)
  BY DEF Moved
<1>2. ASSUME NEW n \in Nodes, HeldBack(u, n) PROVE HeldBack(v, n)
  <2>1. PICK d \in Deps[n] : u.status[d] \in {"pending", "running", "skipped"}
    BY <1>2 DEF HeldBack
  <2>2. d \in Nodes
    BY <2>1, GraphFacts
  <2>3. v.status[d] \in {"pending", "running", "skipped"}
    BY <2>1, <2>2 DEF Moved
  <2> QED
    BY <2>1, <2>3 DEF HeldBack
<1> QED
  BY <1>1, <1>2

\* Before a hard failure a node that is not ready waits for another.
LEMMA NotReady ==
  ASSUME graph \in Graphs, NEW t \in Locals, Recorded(t), ~t.aborted,
         NEW m \in Nodes, ~IsReady(t, m)
  PROVE  HeldBack(t, m)
<1>1. PICK d \in Deps[m] : /\ t.status[d] \notin {"completed", "skipped"}
                           /\ ~(t.status[d] = "failed" /\ Tolerated(graph, d))
  BY DEF IsReady
<1>2. d \in Nodes
  BY <1>1, GraphFacts
<1>3. t.status[d] \in Statuses /\ t.status[d] # "failed"
  BY <1>1, <1>2, LocalsFacts DEF Recorded
<1> QED
  BY <1>1, <1>3 DEF HeldBack, Statuses

\* The cascade after node n has settled enqueues its dependents, or finds each of them
\* held back by another node.
LEMMA CascadeSound ==
  ASSUME graph \in Graphs, NEW t, NEW n \in Nodes, Sound(t, 1, {}),
         \A m \in Nodes : n \in Deps[m] => m \notin t.enqueued,
         ~t.aborted => \A m \in Nodes \ t.enqueued : n \notin Deps[m] => HeldBack(t, m),
         NEW u, u = Cascade(t, n)
  PROVE  /\ Sound(u, 1, {}) /\ Moved(t, u)
         /\ ~u.aborted => \A m \in Nodes \ u.enqueued : HeldBack(u, m)
<1> DEFINE Inv(v, k) ==
      /\ Sound(v, 1, {}) /\ Moved(t, v)
      /\ v.enqueued \subseteq t.enqueued \cup 1..k
      /\ ~v.aborted => \A m \in Nodes \ v.enqueued :
                         n \notin Deps[m] \/ m \in 1..k => HeldBack(v, m)
<1>1. Total \in Nat \ {0} /\ Nodes = 1..Total
  BY GraphFacts
<1>2. t \in Locals
  BY DEF Sound
<1>3. PICK f : /\ \A m \in 0..Total : f[m] \in Locals
               /\ f[0] = t /\ Cascade(t, n) = f[Total]
               /\ \A m \in 1..Total : f[m] = CascadeOne(f[m - 1], n, m)
  BY <1>2, CascadeRounds
<1>4. Inv(t, 0)
  <2>1. Moved(t, t)
    BY DEF Moved
  <2>2. 1..0 = {}
    OBVIOUS
  <2> QED
    BY <2>1, <2>2
<1>5. ASSUME NEW k \in 1..Total, NEW v \in Locals, Inv(v, k - 1), NEW w, w = CascadeOne(v, n, k)
      PROVE  Inv(w, k)
  <2>1. k \in Nodes /\ 1..k = 1..(k - 1) \cup {k} /\ k \notin 1..(k - 1) /\ 1 \in {0, 1}
    BY <1>1
  <2>2. CASE n \in Deps[k] /\ v.status[k] = "pending" /\ IsReady(v, k)
    <3>1. w = Enqueue(v, k)
      BY <1>5, <2>2 DEF CascadeOne
    <3>2. k \notin v.enqueued
      BY <1>5, <2>1, <2>2
    <3>3. Sound(w, 1, {}) /\ Moved(v, w) /\ w.enqueued = v.enqueued \cup {k}
      <4>1. Sound(v, 1, {})
        BY <1>5
      <4> QED
        BY <2>1, <2>2, <3>1, <3>2, <4>1, EnqueueSound
    <3>4. Moved(t, w) /\ \A m \in Nodes : HeldBack(v, m) => HeldBack(w, m)
      <4>1. Moved(t, v)
        BY <1>5
      <4> QED
        BY <3>3, <4>1, MovedFacts
    <3>5. w.enqueued \subseteq t.enqueued \cup 1..k
      BY <1>5, <2>1, <3>3
    <3>6. ASSUME ~w.aborted, NEW m \in Nodes \ w.enqueued, n \notin Deps[m] \/ m \in 1..k
          PROVE  HeldBack(w, m)
      <4>1. ~v.aborted /\ m \in Nodes \ v.enqueued /\ m # k
        BY <3>3, <3>6 DEF Moved
      <4>2. n \notin Deps[m] \/ m \in 1..(k - 1)
        BY <2>1, <3>6, <4>1
      <4> QED
        BY <1>5, <3>4, <4>1, <4>2
    <3> QED
      BY <3>3, <3>4, <3>5, <3>6
  <2>3. CASE ~(n \in Deps[k] /\ v.status[k] = "pending" /\ IsReady(v, k))
    <3>1. w = v
      BY <1>5, <2>3 DEF CascadeOne
    <3>2. ASSUME ~v.aborted, k \notin v.enqueued, n \in Deps[k] PROVE HeldBack(v, k)
      <4>1. v.status[k] = "pending" /\ Recorded(v)
        BY <1>5, <2>1, <3>2 DEF Sound, Queued
      <4>2. ~IsReady(v, k)
        BY <2>3, <3>2, <4>1
      <4> QED
        BY <2>1, <3>2, <4>1, <4>2, NotReady
    <3>3. ASSUME ~v.aborted, NEW m \in Nodes \ v.enqueued, n \notin Deps[m] \/ m \in 1..k
          PROVE  HeldBack(v, m)
      BY <1>5, <2>1, <3>2, <3>3
    <3>4. v.enqueued \subseteq t.enqueued \cup 1..k
      BY <1>5, <2>1
    <3> QED
      BY <1>5, <3>1, <3>3, <3>4
  <2> QED
    BY <2>2, <2>3
<1> HIDE DEF Inv
<1>6. {k \in 0..Total : Inv(f[k], k)} = 0..Total
  <2> DEFINE T == {k \in 0..Total : Inv(f[k], k)}
  <2>1. 0 \in T
    BY <1>1, <1>3, <1>4
  <2>2. ASSUME NEW k \in 1..Total, k - 1 \in T PROVE k \in T
    <3>1. f[k - 1] \in Locals /\ f[k] = CascadeOne(f[k - 1], n, k) /\ Inv(f[k - 1], k - 1)
      BY <1>3, <2>2
    <3>2. Inv(f[k], k)
      BY <1>5, <3>1
    <3> QED
      BY <1>1, <3>2
  <2>3. T \in SUBSET (0..Total)
    OBVIOUS
  <2> HIDE DEF T
  <2>4. T = 0..Total
    BY <1>1, <2>1, <2>2, <2>3, Climb
  <2> QED
    BY <2>4 DEF T
<1>7. Inv(u, Total)
  <2>1. Total \in 0..Total
    BY <1>1
  <2> QED
    BY <1>3, <1>6, <2>1
<1> QED
  BY <1>1, <1>7 DEF Inv

-----------------------------------------------------------------------------
\* Before the run all is consistent.
LEMMA FreshSound ==
  ASSUME graph \in Graphs PROVE Sound(Fresh, 0, {})
<1>1. PICK t : t = Fresh
  OBVIOUS
<1>2. /\ t.status = [n \in Nodes |-> "pending"] /\ t.results = [n \in Nodes |-> NoResult]
      /\ t.enqueued = {} /\ t.inFlight = 0 /\ t.settled = 0 /\ t.aborted = FALSE
      /\ t.retry = <<>>
  BY <1>1 DEF Fresh
<1>3. t \in Locals
  <2>1. <<>> \in Seq(Nodes)
    OBVIOUS
  <2> QED
    BY <1>1, <2>1 DEF Fresh, Locals, Statuses, ResultMap, ResultOrNone
<1>4. RunningIn(t) = {} /\ Through(t) = {} /\ Late(t) = {} /\ Twice(t) = {}
  BY <1>2 DEF RunningIn, Through, Late, Twice
<1>5. Counted(t, 0)
  BY <1>2, <1>4, FS_EmptySet, ConcurrencyAssumption DEF Counted
<1>6. Queued(t, {})
  BY <1>2 DEF Queued, NoRepeats, Members
<1>7. Recorded(t) /\ Gated(t)
  BY <1>2 DEF Recorded, Gated, NoResult
<1> QED
  BY <1>1, <1>3, <1>5, <1>6, <1>7 DEF Sound

\* The start of the run enqueues every node that depends on nothing.
LEMMA KickOffSound ==
  ASSUME graph \in Graphs, NEW u, u = KickOff(Fresh)
  PROVE  /\ Sound(u, 0, {}) /\ Moved(Fresh, u)
         /\ \A m \in Nodes \ u.enqueued : HeldBack(u, m)
<1> DEFINE Inv(v, k) ==
      /\ Sound(v, 0, {}) /\ Moved(Fresh, v) /\ v.enqueued \subseteq 1..k
      /\ \A m \in 1..k : Deps[m] = {} => m \in v.enqueued
<1>1. Total \in Nat \ {0} /\ Nodes = 1..Total
  BY GraphFacts
<1>2. Sound(Fresh, 0, {}) /\ Fresh \in Locals
  BY FreshSound DEF Sound
<1>3. PICK f : /\ \A m \in 0..Total : f[m] \in Locals
               /\ f[0] = Fresh /\ KickOff(Fresh) = f[Total]
               /\ \A m \in 1..Total : f[m] = KickOffOne(f[m - 1], m)
  BY <1>2, KickOffRounds
<1>4. Inv(Fresh, 0)
  <2>1. Moved(Fresh, Fresh) /\ Fresh.enqueued = {}
    BY DEF Moved, Fresh
  <2>2. 1..0 = {}
    OBVIOUS
  <2> QED
    BY <1>2, <2>1, <2>2
<1>5. ASSUME NEW k \in 1..Total, NEW v \in Locals, Inv(v, k - 1), NEW w, w = KickOffOne(v, k)
      PROVE  Inv(w, k)
  <2>1. k \in Nodes /\ 1..k = 1..(k - 1) \cup {k} /\ k \notin 1..(k - 1) /\ 0 \in {0, 1}
    BY <1>1
  <2>2. CASE IsReady(v, k) /\ Gate(graph, k, v.results)
    <3>1. w = Enqueue(v, k)
      BY <1>5, <2>2 DEF KickOffOne
    <3>2. Sound(v, 0, {}) /\ k \notin v.enqueued
      BY <1>5, <2>1
    <3>3. Sound(w, 0, {}) /\ Moved(v, w) /\ w.enqueued = v.enqueued \cup {k}
      BY <2>1, <2>2, <3>1, <3>2, EnqueueSound
    <3>4. Moved(Fresh, w)
      <4>1. Moved(Fresh, v)
        BY <1>5
      <4> QED
        BY <3>3, <4>1, MovedFacts
    <3> QED
      BY <1>5, <2>1, <3>3, <3>4
  <2>3. CASE ~(IsReady(v, k) /\ Gate(graph, k, v.results))
    <3>1. w = v
      BY <1>5, <2>3 DEF KickOffOne
    <3>2. Deps[k] # {}
      <4>1. SUFFICES ASSUME Deps[k] = {} PROVE FALSE
        OBVIOUS
      <4>2. RoutedBy(graph, k) = {} /\ ConditionalInto(graph, k) = {}
        BY <2>1, <4>1, GraphFacts
      <4>3. IsReady(v, k) /\ Gate(graph, k, v.results)
        BY <4>1, <4>2 DEF IsReady, Gate
      <4> QED
        BY <2>3, <4>3
    <3>3. /\ Sound(v, 0, {}) /\ Moved(Fresh, v) /\ v.enqueued \subseteq 1..(k - 1)
          /\ \A m \in 1..(k - 1) : Deps[m] = {} => m \in v.enqueued
      BY <1>5
    <3>4. /\ v.enqueued \subseteq 1..k
          /\ \A m \in 1..k : Deps[m] = {} => m \in v.enqueued
      BY <2>1, <3>2, <3>3
    <3> QED
      BY <3>1, <3>3, <3>4
  <2> QED
    BY <2>2, <2>3
<1> HIDE DEF Inv
<1>6. {k \in 0..Total : Inv(f[k], k)} = 0..Total
  <2> DEFINE T == {k \in 0..Total : Inv(f[k], k)}
  <2>1. 0 \in T
    BY <1>1, <1>3, <1>4
  <2>2. ASSUME NEW k \in 1..Total, k - 1 \in T PROVE k \in T
    <3>1. f[k - 1] \in Locals /\ f[k] = KickOffOne(f[k - 1], k) /\ Inv(f[k - 1], k - 1)
      BY <1>3, <2>2
    <3>2. Inv(f[k], k)
      BY <1>5, <3>1
    <3> QED
      BY <1>1, <3>2
  <2>3. T \in SUBSET (0..Total)
    OBVIOUS
  <2> HIDE DEF T
  <2>4. T = 0..Total
    BY <1>1, <2>1, <2>2, <2>3, Climb
  <2> QED
    BY <2>4 DEF T
<1>7. Inv(u, Total)
  <2>1. Total \in 0..Total
    BY <1>1
  <2> QED
    BY <1>3, <1>6, <2>1
<1>8. /\ Sound(u, 0, {}) /\ Moved(Fresh, u)
      /\ \A m \in Nodes : Deps[m] = {} => m \in u.enqueued
  BY <1>1, <1>7 DEF Inv
<1>9. ~u.aborted /\ \A d \in Nodes : u.results[d] = NoResult
  BY <1>8 DEF Moved, Fresh
<1>10. ASSUME NEW m \in Nodes \ u.enqueued PROVE HeldBack(u, m)
  <2>1. PICK d \in Deps[m] : d \in Nodes
    BY <1>8, GraphFacts
  <2>2. u \in Locals /\ Recorded(u)
    BY <1>8 DEF Sound
  <2>3. u.status[d] \in Statuses
    BY <2>1, <2>2, LocalsFacts
  <2>4. u.status[d] # "failed" /\ u.status[d] # "completed"
    BY <1>9, <2>1, <2>2 DEF Recorded, NoResult
  <2> QED
    BY <2>1, <2>3, <2>4 DEF HeldBack, Statuses
<1> QED
  BY <1>8, <1>10

-----------------------------------------------------------------------------
\* A hard failure fails what waits for a slot.
LEMMA AbortSound ==
  ASSUME graph \in Graphs, NEW t \in Locals, Counted(t, 1), Gated(t), ~t.aborted,
         NoRepeats(t.retry), Members(t.retry) = {n \in t.enqueued : t.status[n] = "pending"},
         \A n \in Nodes : t.status[n] # "pending" => n \in t.enqueued,
         \A n \in t.enqueued : IsReady(t, n),
         \A n \in Nodes : /\ t.results[n] = "ok" <=> t.status[n] = "completed"
                          /\ t.results[n] = "failed" <=> t.status[n] = "failed",
         NEW u, u = OnAbort(t)
  PROVE  /\ Sound(u, 1, {}) /\ u.aborted
         /\ u.enqueued = t.enqueued /\ u.results = t.results /\ u.inFlight = t.inFlight
         /\ \A n \in Nodes : \/ u.status[n] = t.status[n]
                             \/ t.status[n] = "pending" /\ u.status[n] = "failed"
<1> DEFINE waiting == {n \in t.enqueued : t.status[n] = "pending"}
           st == [n \in Nodes |-> IF n \in waiting THEN "failed" ELSE t.status[n]]
<1>1. /\ t.status \in [Nodes -> Statuses] /\ t.results \in ResultMap
      /\ t.enqueued \subseteq Nodes /\ t.inFlight \in Nat /\ t.settled \in Nat
      /\ t.retry \in Seq(Nodes)
  BY LocalsFacts
<1>2. Cardinality(waiting) \in Nat
  <2>1. waiting \subseteq Nodes /\ IsFiniteSet(Nodes)
    BY <1>1, NodesAssumption
  <2> QED
    BY <2>1, FS_Subset, FS_CardinalityType
<1>3. st \in [Nodes -> Statuses]
  BY <1>1 DEF Statuses
<1>4. u = [status |-> st, results |-> t.results, enqueued |-> t.enqueued,
           inFlight |-> t.inFlight, settled |-> t.settled + Cardinality(waiting),
           aborted |-> TRUE, retry |-> t.retry]
  <2>1. u = [t EXCEPT !.aborted = TRUE, !.status = st, !.settled = @ + Cardinality(waiting)]
    BY DEF OnAbort
  <2> HIDE DEF st, waiting
  <2> QED
    BY <2>1 DEF Locals
<1>5. u \in Locals
  <2> HIDE DEF st, waiting
  <2> QED
    BY <1>1, <1>2, <1>3, <1>4 DEF Locals
<1>6. /\ u.status = st /\ u.results = t.results /\ u.enqueued = t.enqueued
      /\ u.inFlight = t.inFlight /\ u.aborted
  <2> HIDE DEF st, waiting
  <2> QED
    BY <1>4
<1>14. u.settled = t.settled + Cardinality(waiting) /\ u.retry = t.retry
  <2> HIDE DEF st, waiting
  <2> QED
    BY <1>4
<1>7. \A n \in Nodes : u.status[n] = IF n \in waiting THEN "failed" ELSE t.status[n]
  BY <1>6
<1>8. RunningIn(u) = RunningIn(t)
  BY <1>7 DEF RunningIn
<1>13. \A n \in waiting : u.status[n] = "failed" /\ u.results[n] = NoResult
  <2>1. \A n \in waiting : n \in Nodes /\ t.results[n] \in ResultOrNone
    BY <1>1 DEF ResultMap
  <2>2. \A n \in waiting : t.results[n] = NoResult
    BY <2>1 DEF ResultOrNone, Results
  <2> QED
    BY <1>6, <1>7, <2>1, <2>2
<1>9. Counted(u, 1)
  <2>1. Late(t) = {} /\ Twice(t) = {}
    BY DEF Late, Twice, NoResult
  <2>2. Late(u) = {} /\ Twice(u) = {}
    <3>1. \A n \in u.enqueued : n \in Nodes /\ u.status[n] # "pending"
      BY <1>1, <1>6, <1>7
    <3>2. Members(u.retry) = waiting
      BY <1>14
    <3>3. ASSUME NEW n \in Nodes, n \notin waiting, u.status[n] = "failed"
          PROVE  u.results[n] # NoResult
      BY <1>6, <1>7, <3>3 DEF NoResult
    <3> HIDE DEF waiting
    <3> QED
      BY <3>1, <3>2, <3>3 DEF Late, Twice
  <2>3. Through(u) = Through(t) \cup waiting /\ Through(t) \cap waiting = {}
    BY <1>1, <1>7 DEF Through
  <2>4. Cardinality(Through(u)) = Cardinality(Through(t)) + Cardinality(waiting)
    <3>1. IsFiniteSet(Through(t)) /\ IsFiniteSet(waiting)
      <4>1. Through(t) \subseteq Nodes /\ waiting \subseteq Nodes
        BY <1>1 DEF Through
      <4> QED
        BY <4>1, NodesAssumption, FS_Subset
    <3> HIDE DEF waiting
    <3>2. Cardinality(Through(u)) = Cardinality(Through(t)) + Cardinality(waiting) - Cardinality({})
      BY <2>3, <3>1, FS_Union
    <3> QED
      BY <1>2, <3>2, CountsAreNaturals, FS_EmptySet
  <2>5. t.settled + 1 = Cardinality(Through(t)) /\ Cardinality(Through(t)) \in Nat
    BY <2>1, FS_EmptySet, CountsAreNaturals DEF Counted
  <2>6. u.settled + 1 = Cardinality(Through(u))
    <3> HIDE DEF waiting
    <3> QED
      BY <1>1, <1>2, <1>14, <2>4, <2>5
  <2>7. Cardinality(Through(u)) \in Nat
    BY <1>5, CountsAreNaturals
  <2>8. u.settled + 1 = Cardinality(Through(u)) + Cardinality(Late(u)) + Cardinality(Twice(u))
    BY <2>2, <2>6, <2>7, FS_EmptySet
  <2> QED
    BY <1>6, <1>8, <2>8 DEF Counted
<1>10. Queued(u, {})
  <2>1. \A n \in Nodes : t.status[n] \notin {"pending", "running"} => u.status[n] = t.status[n]
    BY <1>7
  <2>2. \A n \in u.enqueued : IsReady(u, n)
    <3>1. \A n \in Nodes : IsReady(t, n) => IsReady(u, n)
      BY <2>1, ReadyStable
    <3> QED
      BY <1>1, <1>6, <3>1
  <2>3. \A n \in Nodes : u.status[n] # "pending" => n \in u.enqueued
    BY <1>6, <1>7
  <2>4. NoRepeats(u.retry) /\ Members(u.retry) = waiting
    BY <1>14
  <2> QED
    BY <1>6, <1>13, <2>2, <2>3, <2>4 DEF Queued
<1>11. Recorded(u)
  BY <1>6, <1>7 DEF Recorded
<1>12. Gated(u)
  BY <1>6, <1>7 DEF Gated
<1> QED
  BY <1>5, <1>6, <1>7, <1>9, <1>10, <1>11, <1>12 DEF Sound

\* A node has returned: one slot is free, one settlement owed, and a hard failure
\* has ended the run.
LEMMA RecordSound ==
  ASSUME IInv, begun, NEW n \in Nodes, s.status[n] = "running", NEW r \in Results,
         NEW t, t = Record(s, n, r), NEW u, u = AbortIfHard(t, n, r)
  PROVE  /\ Sound(u, 1, {})
         /\ u.enqueued = s.enqueued
         /\ s.aborted => u.aborted
         /\ u.status[n] \in {"completed", "failed"}
         /\ \A m \in Nodes \ {n} :
              \/ u.status[m] = s.status[m]
              \/ s.status[m] = "pending" /\ u.status[m] = "failed"
         /\ ~u.aborted => u.status = t.status
         /\ \A m \in Nodes \ {n} : u.results[m] = s.results[m]
<1>1. /\ graph \in Graphs /\ s \in Locals /\ Counted(s, 0) /\ Queued(s, {})
      /\ Recorded(s) /\ Gated(s)
  BY DEF IInv, Sound
<1>2. /\ s.status \in [Nodes -> Statuses] /\ s.results \in ResultMap
      /\ s.enqueued \subseteq Nodes /\ s.inFlight \in Nat /\ s.settled \in Nat
      /\ s.aborted \in BOOLEAN /\ s.retry \in Seq(Nodes)
  BY <1>1, LocalsFacts
<1>3. PICK x : x = IF r = "ok" THEN "completed" ELSE "failed"
  OBVIOUS
<1>4. /\ IsFiniteSet(Nodes) /\ RunningIn(s) \subseteq Nodes /\ n \in RunningIn(s)
      /\ Through(s) \subseteq Nodes /\ n \notin Through(s)
  BY NodesAssumption DEF RunningIn, Through
<1>5. s.inFlight # 0 /\ Cardinality(RunningIn(s) \ {n}) = s.inFlight - 1
  <2>1. IsFiniteSet(RunningIn(s))
    BY <1>4, FS_Subset
  <2>2. Cardinality(RunningIn(s) \ {n}) = Cardinality(RunningIn(s)) - 1
    BY <1>4, <2>1, FS_RemoveElement
  <2>3. Cardinality(RunningIn(s) \ {n}) \in Nat
    BY <2>1, FS_RemoveElement, FS_CardinalityType
  <2> QED
    BY <1>1, <1>2, <2>2, <2>3 DEF Counted
<1>6. t = [status |-> [s.status EXCEPT ![n] = x], results |-> [s.results EXCEPT ![n] = r],
           enqueued |-> s.enqueued, inFlight |-> s.inFlight - 1, settled |-> s.settled,
           aborted |-> s.aborted, retry |-> s.retry]
  BY <1>1, <1>3 DEF Record, Locals
<1>7. x \in {"completed", "failed"} /\ (r = "ok" <=> x = "completed") /\ (r = "failed" <=> x = "failed")
      /\ r # NoResult /\ r \in ResultOrNone
  BY <1>3 DEF Results, NoResult, ResultOrNone
<1>8. t \in Locals
  <2>1. [s.status EXCEPT ![n] = x] \in [Nodes -> Statuses]
    BY <1>2, <1>7 DEF Statuses
  <2>2. [s.results EXCEPT ![n] = r] \in ResultMap
    BY <1>2, <1>7 DEF ResultMap
  <2>3. s.inFlight - 1 \in Nat
    BY <1>2, <1>5
  <2> QED
    BY <1>2, <1>6, <2>1, <2>2, <2>3 DEF Locals
<1>9. /\ t.status[n] = x /\ t.results[n] = r
      /\ \A m \in Nodes \ {n} : t.status[m] = s.status[m] /\ t.results[m] = s.results[m]
      /\ t.enqueued = s.enqueued /\ t.inFlight = s.inFlight - 1 /\ t.settled = s.settled
      /\ t.aborted = s.aborted /\ t.retry = s.retry
  BY <1>2, <1>6 DEF ResultMap
<1>10. Counted(t, 1)
  <2>1. RunningIn(t) = RunningIn(s) \ {n}
    BY <1>7, <1>9 DEF RunningIn
  <2>2. Through(t) = Through(s) \cup {n}
    BY <1>4, <1>7, <1>9 DEF Through
  <2>3. Cardinality(Through(t)) = Cardinality(Through(s)) + 1
    BY <1>4, <2>2, OneMore
  <2>4. Late(t) = Late(s) /\ Twice(t) = Twice(s)
    <3>1. Late(t) = Late(s)
      BY <1>2, <1>7, <1>9 DEF Late
    <3>2. ASSUME NEW m \in Nodes PROVE m \in Twice(t) <=> m \in Twice(s)
      <4>1. CASE m = n
        BY <1>7, <1>9, <4>1 DEF Twice
      <4>2. CASE m # n
        BY <1>9, <4>2 DEF Twice
      <4> QED
        BY <4>1, <4>2
    <3>3. Twice(t) \subseteq Nodes /\ Twice(s) \subseteq Nodes
      BY DEF Twice
    <3> QED
      BY <3>1, <3>2, <3>3
  <2>5. /\ Cardinality(Through(s)) \in Nat /\ Cardinality(Late(s)) \in Nat
        /\ Cardinality(Twice(s)) \in Nat
    BY <1>1, CountsAreNaturals
  <2>6. t.settled + 1 = Cardinality(Through(t)) + Cardinality(Late(t)) + Cardinality(Twice(t))
    BY <1>1, <1>2, <1>9, <2>3, <2>4, <2>5 DEF Counted
  <2> QED
    BY <1>1, <1>2, <1>5, <1>9, <2>1, <2>6, ConcurrencyAssumption DEF Counted
<1>11. /\ \A m \in Nodes : t.status[m] # "pending" => m \in t.enqueued
       /\ \A m \in t.enqueued : IsReady(t, m)
  <2>1. \A m \in Nodes : t.status[m] # "pending" => m \in t.enqueued
    BY <1>1, <1>9 DEF Queued
  <2>2. \A d \in Nodes : s.status[d] \notin {"pending", "running"} => t.status[d] = s.status[d]
    BY <1>9
  <2>3. \A m \in Nodes : IsReady(s, m) => IsReady(t, m)
    BY <1>1, <2>2, ReadyStable
  <2> QED
    BY <1>1, <1>2, <1>9, <2>1, <2>3 DEF Queued
<1>12. ASSUME ~t.aborted
       PROVE  Members(t.retry) = {m \in t.enqueued : t.status[m] = "pending"} \ {}
  <2>1. {m \in t.enqueued : t.status[m] = "pending"} = {m \in s.enqueued : s.status[m] = "pending"}
    BY <1>2, <1>7, <1>9
  <2> QED
    BY <1>1, <1>9, <1>12, <2>1 DEF Queued
<1>17. /\ NoRepeats(t.retry)
       /\ t.aborted => \A m \in Members(t.retry) :
                         t.status[m] = "failed" /\ t.results[m] = NoResult
  <2>1. NoRepeats(t.retry)
    BY <1>1, <1>9 DEF Queued
  <2>2. ASSUME t.aborted, NEW m \in Members(t.retry)
        PROVE  t.status[m] = "failed" /\ t.results[m] = NoResult
    <3>1. s.status[m] = "failed" /\ s.results[m] = NoResult
      BY <1>1, <1>9, <2>2 DEF Queued
    <3>2. m \in Nodes
      BY <1>2, <1>9, <2>2 DEF Members
    <3>3. m # n
      BY <3>1
    <3> QED
      BY <1>9, <3>1, <3>2, <3>3
  <2> QED
    BY <2>1, <2>2
<1>13. Gated(t)
  <2>1. ASSUME NEW m \in Nodes, m \in s.enqueued
        PROVE  Gate(graph, m, t.results) <=> Gate(graph, m, s.results)
    <3>1. \A d \in Deps[m] : d \in Nodes \ {n}
      <4>1. IsReady(s, m) /\ Deps[m] \subseteq Nodes
        BY <1>1, <2>1, GraphFacts DEF Queued
      <4> QED
        BY <4>1 DEF IsReady
    <3>2. \A d \in Deps[m] : t.results[d] = s.results[d]
      BY <1>9, <3>1
    <3> QED
      BY <1>1, <3>2, GateStable
  <2>2. n \in s.enqueued /\ Gate(graph, n, s.results)
    BY <1>1 DEF Queued, Gated
  <2>3. ASSUME NEW m \in Nodes
        PROVE  /\ t.status[m] = "skipped" => ~Gate(graph, m, t.results)
               /\ t.status[m] = "running" \/ t.results[m] # NoResult => Gate(graph, m, t.results)
    <3>1. CASE m = n
      BY <1>7, <1>9, <2>1, <2>2, <3>1
    <3>2. CASE m # n
      <4>1. t.status[m] = s.status[m] /\ t.results[m] = s.results[m]
        BY <1>9, <3>2
      <4>2. CASE m \in s.enqueued
        BY <1>1, <2>1, <4>1, <4>2 DEF Gated
      <4>3. CASE m \notin s.enqueued
        <5>1. s.status[m] = "pending" /\ s.results[m] \in ResultOrNone
          BY <1>1, <1>2, <4>3 DEF Queued, ResultMap
        <5>2. s.results[m] = NoResult
          BY <1>1, <5>1 DEF Recorded, ResultOrNone, Results
        <5> QED
          BY <4>1, <5>1, <5>2
      <4> QED
        BY <4>2, <4>3
    <3> QED
      BY <3>1, <3>2
  <2> QED
    BY <2>3 DEF Gated
<1>14. \A m \in Nodes : /\ t.results[m] = "ok" <=> t.status[m] = "completed"
                        /\ t.results[m] = "failed" => t.status[m] = "failed"
                        /\ t.status[m] = "failed" /\ t.results[m] = NoResult => t.aborted
  BY <1>1, <1>7, <1>9 DEF Recorded
<1>15. CASE r = "failed" /\ ~Tolerated(graph, n) /\ ~s.aborted
  <2>1. u = OnAbort(t)
    BY <1>15 DEF AbortIfHard
  <2>2. \A m \in Nodes : /\ t.results[m] = "ok" <=> t.status[m] = "completed"
                         /\ t.results[m] = "failed" <=> t.status[m] = "failed"
    <3>1. \A m \in Nodes : t.results[m] \in ResultOrNone
      BY <1>8, LocalsFacts DEF ResultMap
    <3> QED
      BY <1>9, <1>14, <1>15, <3>1 DEF ResultOrNone, Results
  <2>3. ~t.aborted
    BY <1>9, <1>15
  <2>4. /\ Sound(u, 1, {}) /\ u.aborted
        /\ u.enqueued = t.enqueued /\ u.results = t.results /\ u.inFlight = t.inFlight
        /\ \A m \in Nodes : \/ u.status[m] = t.status[m]
                            \/ t.status[m] = "pending" /\ u.status[m] = "failed"
    BY <1>1, <1>8, <1>10, <1>11, <1>12, <1>13, <1>17, <2>1, <2>2, <2>3, AbortSound
  <2> QED
    BY <1>7, <1>9, <2>4
<1>16. CASE ~(r = "failed" /\ ~Tolerated(graph, n) /\ ~s.aborted)
  <2>1. u = t
    BY <1>9, <1>16 DEF AbortIfHard, OnAbort
  <2>2. ASSUME ~t.aborted, NEW m \in Nodes, t.status[m] = "failed" PROVE Tolerated(graph, m)
    BY <1>1, <1>7, <1>9, <1>16, <2>2 DEF Recorded
  <2>3. Recorded(t)
    BY <1>14, <2>2 DEF Recorded
  <2>4. Queued(t, {})
    BY <1>11, <1>12, <1>17 DEF Queued
  <2>5. Sound(t, 1, {})
    BY <1>8, <1>10, <1>13, <2>3, <2>4 DEF Sound
  <2> QED
    BY <1>7, <1>9, <2>1, <2>5
<1> QED
  BY <1>15, <1>16

-----------------------------------------------------------------------------
\* The graph does not change: what holds of a record holds of it in the next state.
LEMMA PrimedSound ==
  ASSUME UNCHANGED graph, NEW u, s' = u
  PROVE  /\ Sound(u, 0, {}) => Sound(s, 0, {})'
         /\ (\A n \in Nodes \ u.enqueued : HeldBack(u, n))
              => (\A n \in Nodes \ s.enqueued : HeldBack(s, n))'
<1>1. Deps' = Deps
  BY DEF Deps
<1>2. Counted(u, 0) => Counted(s, 0)'
  BY DEF Counted, RunningIn, Through, Late, Twice, Members
<1>3. ASSUME Queued(u, {}) PROVE Queued(s, {})'
  BY <1>1, <1>3 DEF Queued, IsReady, NoRepeats, Members
<1>4. ASSUME Recorded(u) PROVE Recorded(s)'
  BY <1>4 DEF Recorded
<1>5. ASSUME Gated(u) PROVE Gated(s)'
  BY <1>5 DEF Gated
<1>6. ASSUME \A n \in Nodes \ u.enqueued : HeldBack(u, n)
      PROVE  (\A n \in Nodes \ s.enqueued : HeldBack(s, n))'
  BY <1>1, <1>6 DEF HeldBack
<1>7. u \in Locals => (s \in Locals)'
  BY DEF Locals
<1> QED
  BY <1>2, <1>3, <1>4, <1>5, <1>6, <1>7 DEF Sound

\* Before the call of schedule().
LEMMA InitInv == Init => IInv
<1> SUFFICES ASSUME Init PROVE IInv
  OBVIOUS
<1>1. graph \in Graphs /\ begun = FALSE /\ s = Fresh
  BY DEF Init
<1>2. Sound(Fresh, 0, {})
  BY <1>1, FreshSound
<1> QED
  BY <1>1, <1>2 DEF IInv

\* schedule() enqueues the first nodes.
LEMMA ScheduleStep ==
  ASSUME IInv, Schedule
  PROVE  IInv' /\ Onward
<1>1. /\ graph \in Graphs /\ s = Fresh /\ begun' = TRUE /\ graph' = graph
      /\ s' = KickOff(s)
  BY DEF IInv, Schedule
<1>2. PICK u : u = s'
  OBVIOUS
<1>3. /\ Sound(u, 0, {}) /\ Moved(Fresh, u)
      /\ \A n \in Nodes \ u.enqueued : HeldBack(u, n)
  BY <1>1, <1>2, KickOffSound
<1>4. Sound(s, 0, {})' /\ (\A n \in Nodes \ s.enqueued : HeldBack(s, n))'
  BY <1>1, <1>2, <1>3, PrimedSound
<1>5. IInv'
  BY <1>1, <1>4 DEF IInv
<1>6. Onward
  BY <1>1, <1>2, <1>3 DEF Onward, Moved
<1> QED
  BY <1>5, <1>6

\* OnSettle pays what is owed.
LEMMA SettleSound ==
  ASSUME NEW t, Sound(t, 1, {}), NEW u, u = OnSettle(t)
  PROVE  Sound(u, 0, {}) /\ u.status = t.status /\ u.enqueued = t.enqueued
         /\ u.aborted = t.aborted /\ u.results = t.results
<1>1. t \in Locals /\ Counted(t, 1) /\ Queued(t, {}) /\ Recorded(t) /\ Gated(t)
  BY DEF Sound
<1>2. t.settled \in Nat /\ t.inFlight \in Nat
  BY <1>1, LocalsFacts
<1>3. u \in Locals /\ u.settled = t.settled + 1
      /\ u.status = t.status /\ u.results = t.results /\ u.enqueued = t.enqueued
      /\ u.inFlight = t.inFlight /\ u.aborted = t.aborted /\ u.retry = t.retry
  BY <1>1, <1>2 DEF OnSettle, Locals
<1>4. Counted(u, 0)
  <2>1. /\ RunningIn(u) = RunningIn(t) /\ Through(u) = Through(t)
        /\ Late(u) = Late(t) /\ Twice(u) = Twice(t)
    BY <1>3 DEF RunningIn, Through, Late, Twice
  <2>2. /\ Cardinality(Through(t)) \in Nat /\ Cardinality(Late(t)) \in Nat
        /\ Cardinality(Twice(t)) \in Nat
    BY <1>1, CountsAreNaturals
  <2> QED
    BY <1>1, <1>2, <1>3, <2>1, <2>2 DEF Counted
<1>5. Queued(u, {}) /\ Recorded(u) /\ Gated(u)
  BY <1>1, <1>3 DEF Queued, Recorded, Gated, IsReady
<1> QED
  BY <1>3, <1>4, <1>5 DEF Sound

\* The whole callback of a node that returns.
LEMMA ReturnStep ==
  ASSUME IInv, NEW n \in Nodes, NEW r \in Results, NodeReturns(n, r)
  PROVE  IInv' /\ Onward
<1>1. /\ graph \in Graphs /\ s.status[n] = "running" /\ graph' = graph /\ begun' = begun
      /\ s' = OnSettle(Cascade(AbortIfHard(Record(s, n, r), n, r), n))
      /\ begun \in BOOLEAN /\ Queued(s, {})
  BY DEF IInv, NodeReturns, Sound
<1>2. begun
  BY <1>1 DEF IInv, Fresh
<1>3. PICK t, u, v, w : /\ t = Record(s, n, r) /\ u = AbortIfHard(t, n, r)
                        /\ v = Cascade(u, n) /\ w = OnSettle(v)
  OBVIOUS
<1>4. s' = w
  BY <1>1, <1>3
<1>5. /\ Sound(u, 1, {})
      /\ u.enqueued = s.enqueued
      /\ s.aborted => u.aborted
      /\ u.status[n] \in {"completed", "failed"}
      /\ \A m \in Nodes \ {n} :
           \/ u.status[m] = s.status[m]
           \/ s.status[m] = "pending" /\ u.status[m] = "failed"
      /\ ~u.aborted => u.status = t.status
  BY <1>1, <1>2, <1>3, RecordSound
<1>6. \A m \in s.enqueued : n \notin Deps[m]
  BY <1>1 DEF Queued, IsReady
<1>7. ASSUME ~u.aborted, NEW m \in Nodes \ u.enqueued, n \notin Deps[m] PROVE HeldBack(u, m)
  <2>1. HeldBack(s, m)
    BY <1>2, <1>5, <1>7 DEF IInv
  <2>2. PICK d \in Deps[m] : s.status[d] \in {"pending", "running", "skipped"}
    BY <2>1 DEF HeldBack
  <2>3. d \in Nodes \ {n}
    BY <1>1, <1>7, <2>2, GraphFacts
  <2>4. u.status[d] = s.status[d]
    <3>1. t.status[d] = s.status[d]
      <4>1. s.status \in [Nodes -> Statuses] /\ s \in Locals
        BY LocalsFacts DEF IInv, Sound
      <4>2. t.status = [s.status EXCEPT ![n] = IF r = "ok" THEN "completed" ELSE "failed"]
        BY <1>3, <4>1 DEF Record, Locals
      <4> QED
        BY <2>3, <4>1, <4>2
    <3> QED
      BY <1>5, <1>7, <3>1
  <2> QED
    BY <2>2, <2>4 DEF HeldBack
<1>8. /\ Sound(v, 1, {}) /\ Moved(u, v)
      /\ ~v.aborted => \A m \in Nodes \ v.enqueued : HeldBack(v, m)
  <2>1. \A m \in Nodes : n \in Deps[m] => m \notin u.enqueued
    BY <1>5, <1>6
  <2> QED
    BY <1>1, <1>3, <1>5, <1>7, <2>1, CascadeSound
<1>9. Sound(w, 0, {}) /\ w.status = v.status /\ w.enqueued = v.enqueued /\ w.aborted = v.aborted
  BY <1>3, <1>8, SettleSound
<1>10. ~w.aborted => \A m \in Nodes \ w.enqueued : HeldBack(w, m)
  BY <1>8, <1>9 DEF HeldBack
<1>11. /\ Sound(s, 0, {})'
       /\ ~s'.aborted => (\A m \in Nodes \ s.enqueued : HeldBack(s, m))'
  BY <1>1, <1>4, <1>9, <1>10, PrimedSound
<1>12. IInv'
  BY <1>1, <1>2, <1>11 DEF IInv
<1>13. Onward
  <2>1. ASSUME NEW m \in Nodes
        PROVE  \/ w.status[m] = s.status[m]
               \/ /\ s.status[m] = "pending" /\ w.status[m] \in {"running", "skipped"}
                  /\ ~s.aborted
               \/ s.status[m] = "pending" /\ w.status[m] = "failed"
               \/ s.status[m] = "running" /\ w.status[m] \in {"completed", "failed"}
    <3>1. \/ w.status[m] = u.status[m]
          \/ u.status[m] = "pending" /\ w.status[m] \in {"running", "skipped"} /\ ~u.aborted
      BY <1>8, <1>9 DEF Moved
    <3>2. CASE m = n
      BY <1>1, <1>5, <3>1, <3>2
    <3>3. CASE m # n
      BY <1>5, <3>1, <3>3
    <3> QED
      BY <3>2, <3>3
  <2> QED
    BY <1>4, <2>1 DEF Onward
<1> QED
  BY <1>12, <1>13

\* A queued microtask tries again to start its node.
LEMMA RetryStep ==
  ASSUME IInv, Retry
  PROVE  IInv' /\ Onward
<1>1. /\ graph \in Graphs /\ s.retry # <<>> /\ graph' = graph /\ begun' = begun
      /\ s \in Locals /\ Counted(s, 0) /\ Queued(s, {}) /\ Recorded(s) /\ Gated(s)
      /\ begun \in BOOLEAN
  BY DEF IInv, Retry, Sound
<1>2. begun
  BY <1>1 DEF IInv, Fresh
<1>3. PICK n, t : n = Head(s.retry) /\ t = [s EXCEPT !.retry = Tail(@)]
  OBVIOUS
<1>4. PICK u : u = TryStart(t, n)
  OBVIOUS
<1>5. s' = u
  BY <1>3, <1>4 DEF Retry
<1>6. s.retry \in Seq(Nodes) /\ s.enqueued \subseteq Nodes
  BY <1>1, LocalsFacts
<1>7. /\ n \in Members(s.retry) /\ n \in Nodes /\ Tail(s.retry) \in Seq(Nodes)
      /\ NoRepeats(s.retry) => /\ Members(Tail(s.retry)) = Members(s.retry) \ {n}
                               /\ NoRepeats(Tail(s.retry))
  BY <1>1, <1>3, <1>6, TailMembers
<1>8. /\ t \in Locals /\ t.retry = Tail(s.retry) /\ t.enqueued = s.enqueued
      /\ t.status = s.status /\ t.results = s.results /\ t.inFlight = s.inFlight
      /\ t.settled = s.settled /\ t.aborted = s.aborted
  BY <1>1, <1>3, <1>7 DEF Locals
<1>9. CASE ~s.aborted
  <2>1. /\ NoRepeats(s.retry)
        /\ Members(s.retry) = {m \in s.enqueued : s.status[m] = "pending"} \ {}
    BY <1>1, <1>9 DEF Queued
  <2>2. n \in s.enqueued /\ s.status[n] = "pending"
    BY <1>7, <2>1
  <2>3. /\ NoRepeats(t.retry)
        /\ Members(t.retry) = {m \in t.enqueued : t.status[m] = "pending"} \ {n}
    BY <1>7, <1>8, <2>1
  <2>4. Queued(t, {n})
    BY <1>1, <1>8, <1>9, <2>3 DEF Queued, IsReady
  <2>5. Sound(t, 0, {n})
    <3>1. Recorded(t) /\ Gated(t) /\ RunningIn(t) = RunningIn(s) /\ Through(t) = Through(s)
      BY <1>1, <1>8 DEF Recorded, Gated, RunningIn, Through
    <3>2. Counted(t, 0)
      BY <1>1, <1>8, <1>9, <3>1, CountedBefore
    <3> QED
      BY <1>8, <2>4, <3>1, <3>2 DEF Sound
  <2>6. n \in t.enqueued /\ ~t.aborted /\ t.status[n] = "pending" /\ 0 \in {0, 1}
    BY <1>8, <1>9, <2>2
  <2>7. Sound(u, 0, {}) /\ Moved(t, u) /\ u.enqueued = t.enqueued
    BY <1>1, <1>4, <1>7, <2>5, <2>6, TryStartSound
  <2>8. \A m \in Nodes : HeldBack(s, m) => HeldBack(u, m)
    <3>1. Moved(s, u) /\ Moved(s, s)
      BY <1>8, <2>7 DEF Moved
    <3> QED
      BY <1>1, <3>1, MovedFacts
  <2>9. \A m \in Nodes \ u.enqueued : HeldBack(u, m)
    BY <1>2, <1>8, <1>9, <2>7, <2>8 DEF IInv
  <2>10. Sound(s, 0, {})' /\ (\A m \in Nodes \ s.enqueued : HeldBack(s, m))'
    BY <1>1, <1>5, <2>7, <2>9, PrimedSound
  <2>11. IInv'
    BY <1>1, <1>2, <2>10 DEF IInv
  <2>12. Onward
    BY <1>5, <1>8, <1>9, <2>7 DEF Onward, Moved
  <2> QED
    BY <2>11, <2>12
<1>10. CASE s.aborted
  <2>1. /\ u \in Locals /\ u.settled = t.settled + 1
        /\ u.results = t.results /\ u.enqueued = t.enqueued /\ u.aborted = t.aborted
        /\ u.status = t.status /\ u.inFlight = t.inFlight /\ u.retry = t.retry
    <3>1. Tried(t, n, u)
      BY <1>4, <1>7, <1>8, TryStartEffect
    <3> QED
      BY <1>8, <1>10, <3>1 DEF Tried
  <2>2. Sound(u, 0, {})
    <3>4. /\ NoRepeats(s.retry)
          /\ \A m \in Members(s.retry) : s.status[m] = "failed" /\ s.results[m] = NoResult
      BY <1>1, <1>10 DEF Queued
    <3>5. Members(u.retry) = Members(s.retry) \ {n} /\ NoRepeats(u.retry)
      BY <1>7, <1>8, <2>1, <3>4
    <3>6. /\ RunningIn(u) = RunningIn(s) /\ Through(u) = Through(s) /\ Late(u) = Late(s)
          /\ Twice(u) = Twice(s) \cup {n} /\ n \notin Twice(s)
      <4>1. RunningIn(u) = RunningIn(s) /\ Through(u) = Through(s) /\ Late(u) = Late(s)
        BY <1>8, <2>1 DEF RunningIn, Through, Late
      <4>2. \A m \in Nodes : m \in Twice(u) <=> m \in Twice(s) \cup {n}
        BY <1>7, <1>8, <2>1, <3>4, <3>5 DEF Twice
      <4>3. Twice(u) \subseteq Nodes /\ Twice(s) \subseteq Nodes /\ n \notin Twice(s)
        BY <1>7 DEF Twice
      <4> QED
        BY <1>7, <4>1, <4>2, <4>3
    <3>7. Cardinality(Twice(u)) = Cardinality(Twice(s)) + 1
      <4>1. IsFiniteSet(Nodes) /\ Twice(s) \in SUBSET Nodes
        BY NodesAssumption DEF Twice
      <4> QED
        BY <1>7, <3>6, <4>1, OneMore
    <3>1. Counted(u, 0)
      <4>1. /\ Cardinality(Through(s)) \in Nat /\ Cardinality(Late(s)) \in Nat
            /\ Cardinality(Twice(s)) \in Nat /\ s.settled \in Nat
        BY <1>1, CountsAreNaturals, LocalsFacts
      <4> QED
        BY <1>1, <1>8, <2>1, <3>6, <3>7, <4>1 DEF Counted
    <3>2. Queued(u, {})
      <4>1. \A m \in u.enqueued : IsReady(u, m)
        BY <1>1, <1>8, <2>1 DEF Queued, IsReady
      <4>2. \A m \in Nodes : u.status[m] # "pending" => m \in u.enqueued
        BY <1>1, <1>8, <2>1 DEF Queued
      <4>3. \A m \in Members(u.retry) : u.status[m] = "failed" /\ u.results[m] = NoResult
        BY <1>8, <2>1, <3>4, <3>5
      <4> QED
        BY <1>8, <1>10, <2>1, <3>5, <4>1, <4>2, <4>3 DEF Queued
    <3>3. Recorded(u) /\ Gated(u)
      BY <1>1, <1>8, <2>1 DEF Recorded, Gated
    <3> QED
      BY <2>1, <3>1, <3>2, <3>3 DEF Sound
  <2>3. Sound(s, 0, {})' /\ s'.aborted
    BY <1>1, <1>5, <1>8, <1>10, <2>1, <2>2, PrimedSound
  <2>4. IInv'
    BY <1>1, <1>2, <2>3 DEF IInv
  <2>5. Onward
    BY <1>5, <1>8, <2>1 DEF Onward
  <2> QED
    BY <2>4, <2>5
<1> QED
  BY <1>9, <1>10

-----------------------------------------------------------------------------
\* Every step.
LEMMA NextStep == IInv /\ [Next]_vars => IInv' /\ (Onward \/ UNCHANGED vars) /\ graph' = graph
<1> SUFFICES ASSUME IInv, [Next]_vars
             PROVE  IInv' /\ (Onward \/ UNCHANGED vars) /\ graph' = graph
  OBVIOUS
<1>1. CASE Schedule
  BY <1>1, ScheduleStep DEF Schedule
<1>2. CASE Retry
  BY <1>2, RetryStep DEF Retry
<1>3. CASE \E n \in Nodes, r \in Results : NodeReturns(n, r)
  BY <1>3, ReturnStep DEF NodeReturns
<1>4. CASE UNCHANGED vars
  <2>1. graph' = graph /\ begun' = begun /\ s' = s
    BY <1>4 DEF vars
  <2>2. PICK u : u = s
    OBVIOUS
  <2>3. Sound(u, 0, {}) /\ s' = u
    BY <2>1, <2>2 DEF IInv
  <2>4. Sound(s, 0, {})'
    BY <2>1, <2>3, PrimedSound
  <2>5. begun /\ ~s.aborted => (\A n \in Nodes \ s.enqueued : HeldBack(s, n))'
    BY <2>1, <2>2, PrimedSound DEF IInv
  <2>6. IInv'
    BY <2>1, <2>4, <2>5 DEF IInv, Fresh
  <2> QED
    BY <1>4, <2>1, <2>6
<1>5. CASE Done
  BY <1>4, <1>5 DEF Done
<1> QED
  BY <1>1, <1>2, <1>3, <1>4, <1>5 DEF Next

\* The invariant of the scheduler.
THEOREM SchedulerInvariant == Spec => []IInv
BY InitInv, NextStep, PTL DEF Spec

\* The names of the model for what is counted.
LEMMA CountedSets ==
  ASSUME IInv
  PROVE  /\ RunningIn(s) = Running /\ Through(s) = CameThrough
         /\ Late(s) = SettledLate /\ Twice(s) = SettledTwice
<1>1. s.retry \in Seq(Nodes)
  BY LocalsFacts DEF IInv, Sound
<1>2. \A n \in Nodes : n \notin Members(s.retry) <=> \A i \in 1..Len(s.retry) : s.retry[i] # n
  BY DEF Members
<1>3. Twice(s) = SettledTwice
  BY <1>2 DEF Twice, SettledTwice
<1> QED
  BY <1>3 DEF RunningIn, Running, Through, CameThrough, Late, SettledLate

\* Before and after a hard failure, inFlight numbers the running nodes, never more than
\* MaxConcurrency, and settledCount what came through, what was settled late and what
\* was settled twice.
THEOREM CountersAreExact == Spec => []CountersExact
<1>1. IInv => CountersExact
  <2> SUFFICES ASSUME IInv PROVE CountersExact
    OBVIOUS
  <2>1. Counted(s, 0) /\ s.settled \in Nat
    BY LocalsFacts DEF IInv, Sound
  <2> QED
    BY <2>1, CountedSets DEF Counted, CountersExact
<1> QED
  BY <1>1, SchedulerInvariant, PTL

\* When the counter says that all nodes are through, they are.
LEMMA ReturnedMeansThrough ==
  ASSUME IInv, ~s.aborted
  PROVE  Returned <=> Through(s) = Nodes
<1>1. s.settled \in Nat /\ s.settled = Cardinality(Through(s))
  <2>1. s \in Locals /\ Counted(s, 0) /\ Recorded(s) /\ 0 \in {0, 1}
    BY DEF IInv, Sound
  <2>2. s.settled + 0 = Cardinality(Through(s)) /\ s.settled \in Nat
    BY <2>1, CountedBefore, LocalsFacts
  <2> QED
    BY <2>2
<1>2. IsFiniteSet(Nodes) /\ Through(s) \subseteq Nodes
  BY NodesAssumption DEF Through
<1>3. /\ Cardinality(Through(s)) <= Cardinality(Nodes) /\ Cardinality(Nodes) \in Nat
      /\ Cardinality(Through(s)) = Cardinality(Nodes) => Through(s) = Nodes
  BY <1>2, FS_Subset, FS_CardinalityType
<1> QED
  BY <1>1, <1>3 DEF Returned, Total

\* A route target has run only if a settled source selected it, and a run that ends
\* without a hard failure has run every selected target.
THEOREM RoutesAreHonoured == Spec => []RoutingHonoured
<1>1. IInv => RoutingHonoured
  <2> SUFFICES ASSUME IInv PROVE RoutingHonoured
    OBVIOUS
  <2>1. graph \in Graphs /\ s \in Locals /\ Recorded(s) /\ Gated(s)
    BY DEF IInv, Sound
  <2>2. ASSUME NEW n \in Nodes, Ran(n), RoutedBy(graph, n) # {}
        PROVE  \E src \in RoutedBy(graph, n) :
                 s.results[src] # NoResult /\ Decision(graph, src, s.results[src]) = n
    <3>1. Gate(graph, n, s.results)
      BY <2>1, <2>2 DEF Gated, Ran
    <3> QED
      BY <2>2, <3>1 DEF Gate
  <2>3. ASSUME Returned, ~s.aborted, NEW src \in RouteSources(graph),
               s.results[src] # NoResult
        PROVE  Decision(graph, src, s.results[src]) \in {None} \cup {n \in Nodes : Ran(n)}
    <3>1. PICK n : n = Decision(graph, src, s.results[src])
      OBVIOUS
    <3>2. src \in Nodes /\ HasRoutes(graph, src)
      BY DEF RouteSources
    <3>3. n \in Targets(graph, src) \cup {None}
      BY <3>1, <3>2, DecisionIsTarget
    <3>4. CASE n \in Targets(graph, src)
      <4>1. n \in Nodes
        BY <2>1, <3>2, <3>4, GraphsAssumption
      <4>2. src \in RoutedBy(graph, n)
        BY <3>2, <3>4 DEF RoutedBy
      <4>3. Gate(graph, n, s.results)
        BY <2>3, <3>1, <4>2 DEF Gate
      <4>4. s.status[n] \in Statuses /\ s.status[n] \notin {"pending", "running"}
        <5>1. n \in Through(s)
          BY <2>3, <4>1, ReturnedMeansThrough
        <5> QED
          BY <2>1, <4>1, <5>1, LocalsFacts DEF Through
      <4>5. s.status[n] # "skipped"
        BY <2>1, <4>1, <4>3 DEF Gated
      <4>6. s.results[n] # NoResult
        BY <2>1, <2>3, <4>1, <4>4, <4>5 DEF Recorded, Statuses, NoResult
      <4> QED
        BY <3>1, <4>1, <4>6 DEF Ran
    <3> QED
      BY <3>1, <3>3, <3>4
  <2> QED
    BY <2>2, <2>3 DEF RoutingHonoured
<1> QED
  BY <1>1, SchedulerInvariant, PTL

\* Before a hard failure a run at rest that has not returned has stranded a node: the
\* pending nodes are those nobody asked, and the first of them in the order of the
\* graph waits for nothing but nodes that are through, one of them skipped.
LEMMA RestStrands ==
  ASSUME IInv, begun, Running = {}, s.retry = <<>>, ~Returned, ~s.aborted
  PROVE  Stranded # {}
<1> DEFINE P == {n \in Nodes : s.status[n] = "pending"}
<1>1. graph \in Graphs /\ s \in Locals /\ Queued(s, {}) /\ Recorded(s)
  BY DEF IInv, Sound
<1>2. P # {}
  <2>1. PICK n \in Nodes : n \notin Through(s)
    BY ReturnedMeansThrough DEF Through
  <2>2. s.status[n] # "running"
    BY DEF Running
  <2> QED
    BY <2>1, <2>2 DEF Through
<1>3. PICK m \in P : Deps[m] \cap P = {}
  <2>1. IsAcyclic(Deps) /\ P \in (SUBSET Nodes) \ {{}}
    BY <1>1, <1>2, GraphsAssumption DEF Deps
  <2> HIDE DEF P
  <2> QED
    BY <2>1 DEF IsAcyclic
<1>4. m \in Unasked
  <2>1. Members(s.retry) = {n \in s.enqueued : s.status[n] = "pending"} \ {}
    BY <1>1 DEF Queued
  <2>2. Members(s.retry) = {}
    BY DEF Members
  <2> QED
    BY <1>3, <2>1, <2>2 DEF Unasked
<1>5. \A d \in Deps[m] : d \in Nodes /\ s.status[d] \in Statuses
                         /\ s.status[d] \notin {"pending", "running"}
  <2>1. \A d \in Deps[m] : d \in Nodes /\ d \notin P /\ d \notin Running
    BY <1>1, <1>3, GraphFacts
  <2> QED
    BY <1>1, <2>1, LocalsFacts DEF Running
<1>6. IsReady(s, m)
  BY <1>1, <1>5 DEF IsReady, Recorded, Statuses
<1>7. \E d \in Deps[m] : s.status[d] = "skipped"
  <2>1. HeldBack(s, m)
    BY <1>3, <1>4 DEF IInv, Unasked
  <2> QED
    BY <1>5, <2>1 DEF HeldBack
<1> QED
  BY <1>4, <1>6, <1>7 DEF Stranded

\* After a hard failure a run at rest has settled every node that was asked, and some
\* twice.
LEMMA RestAborted ==
  ASSUME IInv, Running = {}, s.aborted
  PROVE  Returned <=> Cardinality(Unasked) <= Cardinality(SettledTwice)
<1>1. graph \in Graphs /\ s \in Locals /\ Queued(s, {}) /\ Counted(s, 0)
  BY DEF IInv, Sound
<1>2. /\ Through(s) \cup Late(s) = s.enqueued /\ Through(s) \cap Late(s) = {}
      /\ s.enqueued \subseteq Nodes /\ Late(s) \subseteq Nodes /\ Through(s) \subseteq Nodes
  <2>1. s.enqueued \subseteq Nodes
    BY <1>1, LocalsFacts
  <2>2. \A n \in Nodes : s.status[n] # "running"
    BY DEF Running
  <2> QED
    BY <1>1, <2>1, <2>2 DEF Through, Late, Queued
<1>3. IsFiniteSet(Nodes) /\ IsFiniteSet(Through(s)) /\ IsFiniteSet(Late(s)) /\ IsFiniteSet(s.enqueued)
  BY <1>2, NodesAssumption, FS_Subset
<1>4. /\ Cardinality(Through(s)) \in Nat /\ Cardinality(Late(s)) \in Nat
      /\ Cardinality(Twice(s)) \in Nat /\ s.settled \in Nat
      /\ Cardinality(Nodes) \in Nat /\ Cardinality(s.enqueued) \in Nat
  BY <1>1, <1>3, CountsAreNaturals, LocalsFacts, FS_CardinalityType
<1>5. Cardinality(s.enqueued) = Cardinality(Through(s)) + Cardinality(Late(s))
  <2>1. Cardinality(s.enqueued)
          = Cardinality(Through(s)) + Cardinality(Late(s)) - Cardinality({})
    BY <1>2, <1>3, FS_Union
  <2> QED
    BY <1>4, <2>1, FS_EmptySet
<1>6. Cardinality(Unasked) = Cardinality(Nodes) - Cardinality(s.enqueued)
  <2>1. Nodes \cap s.enqueued = s.enqueued
    BY <1>2
  <2>2. Cardinality(Nodes \ s.enqueued) = Cardinality(Nodes) - Cardinality(Nodes \cap s.enqueued)
    BY <1>3, FS_Difference
  <2> QED
    BY <2>1, <2>2 DEF Unasked
<1>7. s.settled = Cardinality(Through(s)) + Cardinality(Late(s)) + Cardinality(Twice(s))
  BY <1>1, <1>4 DEF Counted
<1>8. Returned <=> Cardinality(Unasked) <= Cardinality(Twice(s))
  BY <1>4, <1>5, <1>6, <1>7 DEF Returned, Total
<1> QED
  BY <1>8, CountedSets

\* A run at rest without a hard failure has returned exactly if no node is stranded
\* behind a skipped one, and after a hard failure exactly if as many nodes were
\* settled twice as were never asked: no callback forgets another node.
THEOREM NoNodeIsForgotten == Spec => []StopsOnlyWhenDone
<1>1. IInv => StopsOnlyWhenDone
  <2> SUFFICES ASSUME IInv, begun, Running = {}, s.retry = <<>> PROVE StopsOnlyWhenDone
    BY DEF StopsOnlyWhenDone
  <2>1. ASSUME ~s.aborted, Returned PROVE Stranded = {}
    <3>1. Through(s) = Nodes /\ Queued(s, {})
      BY <2>1, ReturnedMeansThrough DEF IInv, Sound
    <3>2. \A n \in Nodes : n \in s.enqueued
      BY <3>1 DEF Through, Queued
    <3> QED
      BY <3>2 DEF Stranded, Unasked
  <2>2. ASSUME ~s.aborted, ~Returned PROVE Stranded # {}
    BY <2>2, RestStrands
  <2>3. ASSUME s.aborted
        PROVE  Returned <=> Cardinality(Unasked) <= Cardinality(SettledTwice)
    BY <2>3, RestAborted
  <2> QED
    BY <2>1, <2>2, <2>3 DEF StopsOnlyWhenDone
<1> QED
  BY <1>1, SchedulerInvariant, PTL

\* After a hard failure no queued callback starts a node.
THEOREM NothingStartsAfterAbort == Spec => NoStartAfterAbort
<1>1. IInv /\ [Next]_vars =>
        [s.aborted => \A n \in Nodes : s'.status[n] = "running" => s.status[n] = "running"]_vars
  BY NextStep DEF Onward
<1> QED
  BY <1>1, SchedulerInvariant, PTL DEF Spec, NoStartAfterAbort

\* The dynamic strategy implements DagRun: no node overtakes a dependency, and none
\* runs twice.
THEOREM SchedulerRefinesDagRun == Spec => ImplementsDagRun
<1>1. Init => Run!Init
  <2> SUFFICES ASSUME Init PROVE Run!Init
    OBVIOUS
  <2>1. graph \in Graphs /\ s = Fresh
    BY DEF Init
  <2>2. \A n \in Nodes : s.status[n] = "pending"
    BY <2>1 DEF Fresh
  <2>3. Phases = [n \in Nodes |-> "waiting"]
    BY <2>2 DEF Phases
  <2> QED
    BY <2>1, <2>3, GraphFacts DEF Run!Init
<1>2. IInv /\ [Next]_vars => [Run!Progress \/ Run!Restart]_<<Deps, Phases, {}>>
  <2> SUFFICES ASSUME IInv, [Next]_vars
               PROVE  Run!Progress \/ UNCHANGED <<Deps, Phases, {}>>
    OBVIOUS
  <2>1. IInv' /\ (Onward \/ UNCHANGED vars) /\ graph' = graph
    BY NextStep
  <2>2. CASE UNCHANGED vars
    BY <2>1, <2>2 DEF vars, Phases, Deps
  <2>3. CASE Onward
    <3>1. Deps' = Deps
      BY <2>1 DEF Deps
    <3>2. /\ \A n \in Nodes :
               /\ s'.status[n] # "pending" => n \in s'.enqueued
               /\ n \in s'.enqueued => \A d \in Deps[n] : s'.status[d] \notin {"pending", "running"}
      BY <2>1, <3>1 DEF IInv, Sound, Queued, IsReady
    <3>3. \A n \in Nodes :
            /\ Phases[n] = "waiting" <=> s.status[n] = "pending"
            /\ Phases[n] = "running" <=> s.status[n] = "running"
            /\ Phases[n] = "settled" <=> s.status[n] \notin {"pending", "running"}
      BY DEF Phases
    <3>4. \A n \in Nodes :
            /\ Phases'[n] = "waiting" <=> s'.status[n] = "pending"
            /\ Phases'[n] = "running" <=> s'.status[n] = "running"
            /\ Phases'[n] = "settled" <=> s'.status[n] \notin {"pending", "running"}
      BY DEF Phases
    <3>5. Phases' \in [Nodes -> Run!NodePhases]
      BY DEF Phases, Run!NodePhases
    <3>6. ASSUME NEW n \in Nodes, Phases[n] = "waiting", Phases'[n] # "waiting", NEW d \in Deps[n]
          PROVE  Phases'[d] = "settled"
      <4>1. d \in Nodes
        BY <3>6, GraphFacts DEF IInv
      <4> QED
        BY <3>2, <3>4, <3>6, <4>1
    <3>7. \A n \in Nodes : Phases[n] = "running" => Phases'[n] \in {"running", "settled"}
      BY <2>3, <3>3, <3>4 DEF Onward
    <3>8. \A n \in Nodes : Phases[n] = "settled" => Phases'[n] = "settled"
      BY <2>3, <3>3, <3>4 DEF Onward
    <3> QED
      BY <3>1, <3>5, <3>6, <3>7, <3>8 DEF Run!Progress, Run!Advance
  <2> QED
    BY <2>1, <2>2, <2>3
<1> QED
  BY <1>1, <1>2, SchedulerInvariant, PTL DEF Spec, ImplementsDagRun, Run!Spec
=============================================================================
