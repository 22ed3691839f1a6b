----------------------------- MODULE GraphEngine -----------------------------
(***************************************************************************)
(* GraphEngine.run with the WaveScheduler: one graph run over the life of  *)
(* several processes.  A process recovers the last checkpoint, writes its  *)
(* initial checkpoint, runs the waves behind a barrier each, and writes a  *)
(* full checkpoint after every node that returned.  It may be aborted      *)
(* (pauseStage), crash, or end; the next process starts from disk.        *)
(*                                                                         *)
(* A session entry is durable when appendCustomEntry returns               *)
(* (session-manager.ts, hot path), so the disk is the last snapshot.       *)
(*                                                                         *)
(* Steps are what happens between two awaits: recovery, the initial        *)
(* checkpoint and the launch of the first wave are one step because        *)
(* schedule() starts its first wave before its first await, and the await  *)
(* of the recovery reads a file nobody else writes.                        *)
(***************************************************************************)
EXTENDS TheatreGraph

CONSTANTS Graphs,       \* graphs without routing, as the strategy requires
          MaxStarts     \* bound on the number of engine runs on one session

\* schema.ts:274 refuses a graph without nodes, validateGraphDefinition one whose
\* depends_on and edges close a cycle; an edge need not repeat a depends_on.
ASSUME NodesAssumption == IsFiniteSet(Nodes) /\ Nodes # {}

ASSUME GraphsAssumption ==
  \A g \in Graphs : /\ g.deps \in [Nodes -> SUBSET Nodes]
                    /\ g.edges \subseteq [from : Nodes, to : Nodes, when : {Always}]
                    /\ IsAcyclic(DependencyMap(g))
                    /\ ~UsesRouting(g)
                    /\ g.cof \subseteq Nodes

VARIABLES graph,      \* the graph being run
          disk,       \* the last checkpoint: [completed, results]
          mode,       \* the process: "down", "running", "finished", "failed"
          completed,  \* track.completedNodeIds
          results,    \* nodeResults
          wave,       \* index of the wave being run, from 1
          settled,    \* results returned to the scheduler, by node
          running,    \* nodes whose executor.execute has not returned
          aborted,    \* the abort signal
          starts,     \* engine runs so far
          outcome     \* what the last execution of each node really yielded
vars == <<graph, disk, mode, completed, results, wave, settled, running,
          aborted, starts, outcome>>

Nothing == [n \in Nodes |-> NoResult]
NoCheckpoint == [completed |-> {}, results |-> Nothing]

\* buildExecutionWaves over depends_on only (GraphRunner.init).
DoneAfter(g) ==
  LET done[k \in 0..Cardinality(Nodes)] ==
        IF k = 0 THEN {}
        ELSE done[k - 1] \cup {n \in Nodes : g.deps[n] \subseteq done[k - 1]}
  IN  done
Wave(g, k) == DoneAfter(g)[k] \ DoneAfter(g)[k - 1]
WaveCount(g) == Cardinality({k \in 1..Cardinality(Nodes) : Wave(g, k) # {}})

Init == /\ graph \in Graphs
        /\ disk = NoCheckpoint
        /\ mode = "down"
        /\ completed = {} /\ results = Nothing
        /\ wave = 0 /\ settled = Nothing /\ running = {}
        /\ aborted = FALSE /\ starts = 0
        /\ outcome = Nothing

\* Faulty: a node counts as completed from the moment it is started.
SnapshotStarted(done, known) ==
  [completed |-> done \cup running,
   results |-> [n \in Nodes |-> IF n \in done THEN known[n] ELSE NoResult]]

\* #writeCheckpoint: every node's status, and its result if `known` has one.
Snapshot(done, known) ==
  [completed |-> done,
   results |-> [n \in Nodes |-> IF n \in done THEN known[n] ELSE NoResult]]

\* Faulty: a recovered node is executed again.
ImmediateForgetful(n, stop, done, known) == IF stop THEN "failed" ELSE NoResult

\* What runNode returns at once: an aborted run fails every node, a completed
\* node returns its recovered result, or success when there is none.
Immediate(n, stop, done, known) ==
  IF stop THEN "failed"
  ELSE IF n \notin done THEN NoResult
  ELSE IF known[n] = NoResult THEN "ok" ELSE known[n]

\* wave.map(runNode): every node of the wave is started in the same step.
Launch(k, stop, done, known, before) ==
  /\ wave' = k
  /\ settled' = [n \in Nodes |-> IF n \in Wave(graph, k)
                                 THEN Immediate(n, stop, done, known) ELSE before[n]]
  /\ running' = {n \in Wave(graph, k) : Immediate(n, stop, done, known) = NoResult}

\* A new process, or a new engine in the same process, runs the graph.  A
\* checkpoint that cannot be appended only marks the run as degraded.
Start(saved) ==
  /\ mode # "running"
  /\ starts < MaxStarts
  /\ starts' = starts + 1
  /\ mode' = "running" /\ aborted' = FALSE
  /\ completed' = disk.completed
  /\ results' = disk.results
  /\ disk' = IF saved THEN Snapshot(disk.completed, Nothing) ELSE disk
  /\ Launch(1, FALSE, completed', results', Nothing)
  /\ UNCHANGED <<graph, outcome>>

\* Faulty: the checkpoint of a node does not carry the results.
NodeReturnsStatusOnly(n, r, saved) ==
  /\ mode = "running" /\ n \in running
  /\ results' = [results EXCEPT ![n] = r]
  /\ completed' = completed \cup {n}
  /\ disk' = IF saved THEN Snapshot(completed', Nothing) ELSE disk
  /\ settled' = [settled EXCEPT ![n] = r]
  /\ running' = running \ {n}
  /\ outcome' = [outcome EXCEPT ![n] = r]
  /\ UNCHANGED <<graph, mode, wave, aborted, starts>>

\* executor.execute returned a result, successful or not.
NodeReturns(n, r, saved) ==
  /\ mode = "running" /\ n \in running
  /\ results' = [results EXCEPT ![n] = r]
  /\ completed' = completed \cup {n}
  /\ disk' = IF saved THEN Snapshot(completed', results') ELSE disk
  /\ settled' = [settled EXCEPT ![n] = r]
  /\ running' = running \ {n}
  /\ outcome' = [outcome EXCEPT ![n] = r]
  /\ UNCHANGED <<graph, mode, wave, aborted, starts>>

\* executor.execute threw: no checkpoint, and the node is not completed.
NodeThrows(n) ==
  /\ mode = "running" /\ n \in running
  /\ results' = [results EXCEPT ![n] = "failed"]
  /\ settled' = [settled EXCEPT ![n] = "failed"]
  /\ running' = running \ {n}
  /\ outcome' = [outcome EXCEPT ![n] = "failed"]
  /\ UNCHANGED <<graph, disk, mode, completed, wave, aborted, starts>>

\* Faulty: only a wave that failed as a whole stops the run.
HardFailureOfAll(k) == \A n \in Wave(graph, k) : settled[n] = "failed" /\ n \notin graph.cof

HardFailure(k) == \E n \in Wave(graph, k) : settled[n] = "failed" /\ n \notin graph.cof

\* Faulty: a hard failure leaves the barrier waiting.
WaveEndsIfGood ==
  /\ mode = "running" /\ running = {} /\ ~HardFailure(wave)
  /\ \/ /\ wave < WaveCount(graph)
        /\ Launch(wave + 1, aborted, completed, results, settled)
        /\ UNCHANGED mode
     \/ /\ wave = WaveCount(graph)
        /\ mode' = "finished"
        /\ UNCHANGED <<wave, settled, running>>
  /\ UNCHANGED <<graph, disk, completed, results, aborted, starts, outcome>>

\* Promise.all of the wave has resolved: stop, go on, or finish.
WaveEnds ==
  /\ mode = "running" /\ running = {}
  /\ \/ /\ HardFailure(wave)
        /\ mode' = "failed"
        /\ UNCHANGED <<wave, settled, running>>
     \/ /\ ~HardFailure(wave) /\ wave < WaveCount(graph)
        /\ Launch(wave + 1, aborted, completed, results, settled)
        /\ UNCHANGED mode
     \/ /\ ~HardFailure(wave) /\ wave = WaveCount(graph)
        /\ mode' = "finished"
        /\ UNCHANGED <<wave, settled, running>>
  /\ UNCHANGED <<graph, disk, completed, results, aborted, starts, outcome>>

\* pauseStage or dispose: the signal fires; nodes in flight return later.
Abort ==
  /\ mode = "running" /\ ~aborted
  /\ aborted' = TRUE
  /\ UNCHANGED <<graph, disk, mode, completed, results, wave, settled, running,
                 starts, outcome>>

\* The process dies; only the disk survives.
Crash ==
  /\ mode = "running"
  /\ mode' = "down"
  /\ completed' = {} /\ results' = Nothing /\ settled' = Nothing
  /\ running' = {} /\ aborted' = FALSE
  /\ UNCHANGED <<graph, disk, wave, starts, outcome>>

Answer(n) == \/ NodeThrows(n)
             \/ \E r \in Results, saved \in BOOLEAN : NodeReturns(n, r, saved)

Next == \/ \E saved \in BOOLEAN : Start(saved)
        \/ WaveEnds \/ Abort \/ Crash
        \/ \E n \in Nodes : Answer(n)

Spec == Init /\ [][Next]_vars

\* Every node's executor returns (GraphRunner bounds its polling by a
\* deadline) and the event loop runs the continuation of the barrier.
FairSpec == /\ Spec
            /\ WF_vars(WaveEnds)
            /\ \A n \in Nodes : WF_vars(Answer(n))

-----------------------------------------------------------------------------
\* What the waves make node n wait for: its depends_on, and the source of an edge
\* into it where depends_on alone happens to put the source into an earlier wave.
Ordered(g) ==
  [n \in Nodes |-> g.deps[n] \cup
     {d \in DependencyMap(g)[n] :
        \E k \in 0..Cardinality(Nodes) : d \in DoneAfter(g)[k] /\ n \notin DoneAfter(g)[k]}]

Run == INSTANCE DagRun
         WITH deps <- Ordered(graph),
              run <- [n \in Nodes |-> IF n \in running THEN "running"
                                      ELSE IF settled[n] # NoResult THEN "settled"
                                      ELSE "waiting"],
              durable <- disk.completed

\* Whatever crashes, aborts and resumes do, a node starts only after everything
\* that Ordered makes it wait for has settled in this process, and a node whose
\* completion is on disk is never executed again.  schema.ts:402 and 439 promise
\* more ("Edge from -> to means `to` depends on `from`"): cycle detection reads an
\* edge so, and the dynamic strategy too, but GraphRunner.init builds the waves from
\* depends_on alone (graph-runner.ts:167-171), and an edge whose source is not in an
\* earlier wave for another reason orders nothing: `to` starts beside `from`, or
\* before it.
ImplementsDagRun == Run!Spec

\* A node that runs after a resume finds the output of every dependency, so
\* that buildUpstreamOutputs can pass it on (graph-engine.ts:120-122).
UpstreamAvailable ==
  \A n \in running : \A d \in graph.deps[n] : results[d] # NoResult

\* A node never runs when a node of its depends_on without continue_on_failure failed
\* in its last execution, in whichever process that was (types.ts:221).
FailureStops ==
  \A n \in running : \A d \in graph.deps[n] : outcome[d] = "ok" \/ d \in graph.cof

\* The checkpoint lists only nodes that have really been executed, and what it
\* says of their result is what they returned.
CheckpointTruthful ==
  \A n \in disk.completed :
    /\ outcome[n] # NoResult
    /\ disk.results[n] \in {NoResult, outcome[n]}

\* A run that was started ends, by finishing, failing or dying.
RunEnds == mode = "running" ~> mode # "running"
=============================================================================
