-------------------------- MODULE DynamicScheduler --------------------------
(***************************************************************************)
(* DynamicScheduler.schedule (graph/graph-executor.ts) with the gate that  *)
(* GraphEngine gives it.  The scheduler is callbacks on one event loop: a  *)
(* step is the synchronous work of one callback, the start of the run, the *)
(* return of one node, or one microtask that retries a node for which no   *)
(* slot was free.                                                          *)
(*                                                                         *)
(* Microtasks run before the event loop serves any timer or I/O.  A node   *)
(* whose executor does I/O can therefore return only while no retry is     *)
(* queued; a node of Quick (one recovered from a checkpoint, answered by   *)
(* runNode itself) returns within the microtask queue.                     *)
(***************************************************************************)
EXTENDS TheatreGraph

CONSTANTS Graphs,          \* graphs that may be run; Nodes are numbered in YAML order
          MaxConcurrency,  \* graph.max_concurrency
          Quick            \* the sets of quick nodes to consider

ASSUME ConcurrencyAssumption == MaxConcurrency \in Nat \ {0}
ASSUME NodesAssumption ==
  IsFiniteSet(Nodes) /\ Nodes # {} /\ Nodes = 1..Cardinality(Nodes) /\ None \notin Nodes
\* Validated: what is depended on and routed to exists (schema.ts:486-572, 645-656).
ASSUME GraphsAssumption ==
  \A g \in Graphs : /\ DependencyMap(g) \in [Nodes -> SUBSET Nodes]
                    /\ IsAcyclic(DependencyMap(g))
                    /\ \A n \in Nodes : Targets(g, n) \subseteq Nodes

VARIABLES graph,   \* the graph being run
          quick,   \* the quick nodes of this run
          begun,   \* schedule() has been called
          s        \* the local variables of schedule(), as a record
vars == <<graph, quick, begun, s>>

Deps == DependencyMap(graph)
Total == Cardinality(Nodes)

Fresh == [status    |-> [n \in Nodes |-> "pending"],
          results   |-> [n \in Nodes |-> NoResult],   \* completedResults
          enqueued  |-> {},                           \* keys of completions
          inFlight  |-> 0,
          settled   |-> 0,                            \* settledCount
          aborted   |-> FALSE,
          retry     |-> <<>>]                         \* queued microtasks

Init == /\ graph \in Graphs /\ quick \in Quick
        /\ begun = FALSE
        /\ s = Fresh

IsReady(t, n) ==
  \A d \in Deps[n] : \/ t.status[d] \in {"completed", "skipped"}
                     \/ t.status[d] = "failed" /\ Tolerated(graph, d)

OnSettle(t) == [t EXCEPT !.settled = @ + 1]

\* Faulty: a hard failure settles the nodes that run as well.
OnAbortOfAll(t) ==
  LET waiting == {n \in t.enqueued : t.status[n] \in {"pending", "running"}}
  IN  IF t.aborted THEN t
      ELSE [t EXCEPT !.aborted = TRUE,
                     !.status = [n \in Nodes |-> IF n \in waiting THEN "failed" ELSE @[n]],
                     !.settled = @ + Cardinality(waiting)]

\* A hard failure settles the nodes that wait for a slot.  They stay in the microtask
\* queue, and tryStart settles each of them once more.
OnAbort(t) ==
  LET waiting == {n \in t.enqueued : t.status[n] = "pending"}
  IN  IF t.aborted THEN t
      ELSE [t EXCEPT !.aborted = TRUE,
                     !.status = [n \in Nodes |-> IF n \in waiting THEN "failed" ELSE @[n]],
                     !.settled = @ + Cardinality(waiting)]

\* Faulty: a queued retry starts its node even after a hard failure.
TryStartAfterAbort(t, n) ==
  IF ~Gate(graph, n, t.results) THEN OnSettle([t EXCEPT !.status[n] = "skipped"])
  ELSE IF t.inFlight >= MaxConcurrency THEN [t EXCEPT !.retry = Append(@, n)]
  ELSE [t EXCEPT !.inFlight = @ + 1, !.status[n] = "running"]

\* Faulty: a skipped node is not reported as settled.
TryStartSilentSkip(t, n) ==
  CASE t.aborted -> OnSettle(t)
    [] ~t.aborted /\ ~Gate(graph, n, t.results) -> [t EXCEPT !.status[n] = "skipped"]
    [] ~t.aborted /\ Gate(graph, n, t.results) /\ t.inFlight >= MaxConcurrency ->
         [t EXCEPT !.retry = Append(@, n)]
    [] OTHER -> [t EXCEPT !.inFlight = @ + 1, !.status[n] = "running"]

TryStart(t, n) ==
  CASE t.aborted -> OnSettle(t)
    [] ~t.aborted /\ ~Gate(graph, n, t.results) ->
         OnSettle([t EXCEPT !.status[n] = "skipped"])
    [] ~t.aborted /\ Gate(graph, n, t.results) /\ t.inFlight >= MaxConcurrency ->
         [t EXCEPT !.retry = Append(@, n)]
    [] OTHER -> [t EXCEPT !.inFlight = @ + 1, !.status[n] = "running"]

Enqueue(t, n) == TryStart([t EXCEPT !.enqueued = @ \cup {n}], n)

\* Faulty: one settled dependency is enough.
CascadeOneAny(t, n, m) ==
  IF n \in Deps[m] /\ t.status[m] = "pending" THEN Enqueue(t, m) ELSE t

\* The dependents of n that became ready are enqueued one by one, in the order of
\* the Maps, which is that of the YAML file.
CascadeOne(t, n, m) ==
  IF n \in Deps[m] /\ t.status[m] = "pending" /\ IsReady(t, m) THEN Enqueue(t, m) ELSE t
Cascade(t, n) ==
  LET after[m \in 0..Total] == IF m = 0 THEN t ELSE CascadeOne(after[m - 1], n, m)
  IN  after[Total]

\* The first ready nodes; those that fail the gate are left alone.
KickOffOne(t, m) ==
  IF IsReady(t, m) /\ Gate(graph, m, t.results) THEN Enqueue(t, m) ELSE t
KickOff(t) ==
  LET after[m \in 0..Total] == IF m = 0 THEN t ELSE KickOffOne(after[m - 1], m)
  IN  after[Total]

Schedule ==
  /\ ~begun /\ begun' = TRUE
  /\ s' = KickOff(s)
  /\ UNCHANGED <<graph, quick>>

\* The rest of #executeNode after await runner.runNode(n).
Record(t, n, r) ==
  [t EXCEPT !.results[n] = r, !.inFlight = @ - 1,
            !.status[n] = IF r = "ok" THEN "completed" ELSE "failed"]
AbortIfHard(t, n, r) == IF r = "failed" /\ ~Tolerated(graph, n) THEN OnAbort(t) ELSE t

NodeReturns(n, r) ==
  /\ s.status[n] = "running"
  /\ n \in quick \/ s.retry = <<>>
  /\ s' = OnSettle(Cascade(AbortIfHard(Record(s, n, r), n, r), n))
  /\ UNCHANGED <<graph, quick, begun>>

\* queueMicrotask(() => this.#tryStart(n))
Retry ==
  /\ s.retry # <<>>
  /\ s' = TryStart([s EXCEPT !.retry = Tail(@)], Head(s.retry))
  /\ UNCHANGED <<graph, quick, begun>>

\* settledCount has reached the number of nodes: schedule() returns or throws.
Returned == s.settled >= Total

Done == begun /\ Returned /\ s.retry = <<>> /\ (\A n \in Nodes : s.status[n] # "running")
        /\ UNCHANGED vars

Next == \/ Schedule \/ Retry \/ Done
        \/ \E n \in Nodes, r \in Results : NodeReturns(n, r)

Spec == Init /\ [][Next]_vars

\* The caller schedules, microtasks are run, and every executor returns as
\* soon as the event loop lets it.
FairSpec == /\ Spec
            /\ WF_vars(Schedule) /\ WF_vars(Retry)
            /\ \A n \in Nodes : WF_vars(\E r \in Results : NodeReturns(n, r))

-----------------------------------------------------------------------------
Running == {n \in Nodes : s.status[n] = "running"}

Phases == [n \in Nodes |-> CASE s.status[n] = "pending" -> "waiting"
                             [] s.status[n] = "running" -> "running"
                             [] OTHER -> "settled"]
Run == INSTANCE DagRun WITH deps <- Deps, run <- Phases, durable <- {}

\* A node leaves "pending" only when everything it depends on (declared,
\* routed or by edge) has settled, and no node runs twice.
ImplementsDagRun == Run!Spec

\* After a hard failure nothing is started any more, whichever callbacks were
\* already queued.
NoStartAfterAbort ==
  [][s.aborted => \A n \in Nodes : s'.status[n] = "running" => s.status[n] = "running"]_vars

Ran(n) == s.results[n] # NoResult \/ s.status[n] = "running"

\* A route target runs only if a settled source selected it, and when the run
\* ends well every selected target has run.
RoutingHonoured ==
  /\ \A n \in Nodes : Ran(n) /\ RoutedBy(graph, n) # {} =>
       \E src \in RoutedBy(graph, n) :
         s.results[src] # NoResult /\ Decision(graph, src, s.results[src]) = n
  /\ Returned /\ ~s.aborted =>
       \A src \in RouteSources(graph) : s.results[src] # NoResult =>
         Decision(graph, src, s.results[src]) \in {None} \cup {n \in Nodes : Ran(n)}

\* What came through; what a cascade met after a hard failure and settled without
\* giving it a status; what onAbort failed and settled, and its retry settled again.
CameThrough == {n \in Nodes : s.status[n] \notin {"pending", "running"}}
SettledLate == {n \in s.enqueued : s.aborted /\ s.status[n] = "pending"}
SettledTwice ==
  {n \in Nodes : /\ s.status[n] = "failed" /\ s.results[n] = NoResult
                 /\ \A i \in 1..Len(s.retry) : s.retry[i] # n}

\* What the scheduler decides by, always: inFlight numbers the running nodes, within
\* the limit, and settledCount the nodes that came through, once each as long as no
\* node has failed hard.  After a hard failure it also numbers what was settled late,
\* and a second time each node that waited for a slot, once its retry has been run
\* (graph-executor.ts:201-206 and 308-311), so that `done` may resolve while other
\* nodes still run or are yet to be settled.
CountersExact ==
  /\ s.inFlight = Cardinality(Running) /\ s.inFlight <= MaxConcurrency
  /\ s.settled = Cardinality(CameThrough) + Cardinality(SettledLate)
                   + Cardinality(SettledTwice)

\* Nodes nobody has asked to start, and those among them that are ready, with a
\* skipped node among what they depend on.
Unasked == Nodes \ s.enqueued
Stranded ==
  {m \in Unasked : IsReady(s, m) /\ \E n \in Deps[m] : s.status[n] = "skipped"}

\* Where a run comes to rest.  With no hard failure it has returned, unless a node is
\* stranded: the skipped node has settled "so the master wait can complete"
\* (graph-executor.ts:314-315), but nothing cascades from it, and a node that became
\* ready by that skip is never asked to start, so the wait does not complete.  After
\* a hard failure the run returns only if as many nodes were settled twice as were
\* never asked.  No other node is forgotten by the callback that should start it.
StopsOnlyWhenDone ==
  begun /\ Running = {} /\ s.retry = <<>> =>
    /\ ~s.aborted => (Returned <=> Stranded = {})
    /\ s.aborted => (Returned <=> Cardinality(Unasked) <= Cardinality(SettledTwice))

\* graph-executor.ts:175, done is "resolved when settledCount === totalCount", and
\* a hard failure should "abort the run" (376): schedule() returns or throws.
AbortedRunEnds == s.aborted ~> Returned
=============================================================================
