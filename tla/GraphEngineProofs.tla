-------------------------- MODULE GraphEngineProofs --------------------------
(***************************************************************************)
(* The checkpoint is truthful and the wave strategy implements DagRun, for *)
(* any finite set of nodes, any set of graphs and any number of runs.      *)
(*                                                                         *)
(* The waves are a recursive function.  That it has a solution at all      *)
(* needs an induction, which goes by a least counterexample (Smallest,     *)
(* GrowthExists); after that a wave is what the one before it allows       *)
(* (DoneAfterStep, WaveFacts).  The invariant says that the process knows  *)
(* at least what the disk says, that both only repeat what nodes returned, *)
(* and that settled nodes are exactly those of the waves begun, less those *)
(* that run.                                                               *)
(*                                                                         *)
(* A run that is resumed twice loses recorded results (the first           *)
(* checkpoint of a run carries none).  FailureStops and UpstreamAvailable  *)
(* are therefore theorems of the first run and of the first resume, for    *)
(* any number of nodes (Remembered), and false of the second resume.       *)
(***************************************************************************)
EXTENDS GraphEngine, FiniteSetTheorems, TLAPS

\* The values a node's entry in the tables ranges over.
ResultOrNone == Results \cup {NoResult}
ResultMap == [Nodes -> ResultOrNone]
N == Cardinality(Nodes)

\* The types of the variables.
Typed ==
  /\ graph \in Graphs
  /\ disk.completed \subseteq Nodes /\ disk.results \in ResultMap
  /\ completed \subseteq Nodes /\ results \in ResultMap
  /\ settled \in ResultMap /\ running \subseteq Nodes
  /\ outcome \in ResultMap

\* What the process and the disk believe of a node is what it returned.
Truthful ==
  /\ CheckpointTruthful
  /\ \A n \in Nodes \ disk.completed : disk.results[n] = NoResult
  /\ \A n \in completed : outcome[n] # NoResult
  /\ \A n \in Nodes : results[n] \in {NoResult, outcome[n]}

\* The process knows what is on disk, and runs nothing it knows to be complete.
Informed ==
  mode = "running" =>
    /\ disk.completed \subseteq completed
    /\ running \cap completed = {}
    /\ \A n \in completed \ disk.completed : settled[n] # NoResult

\* The barrier: earlier waves have settled, this one is settled or running, and
\* later ones have not begun.
Barrier ==
  mode = "running" =>
    /\ wave \in 1..N
    /\ running \subseteq Wave(graph, wave)
    /\ \A n \in DoneAfter(graph)[wave] : n \in running <=> settled[n] = NoResult
    /\ \A n \in Nodes \ DoneAfter(graph)[wave] : settled[n] = NoResult

\* The inductive invariant.
IInv == Typed /\ Truthful /\ Informed /\ Barrier

-----------------------------------------------------------------------------
\* Every non-empty set of natural numbers has a least element.
LEMMA Smallest ==
  ASSUME NEW T \in SUBSET Nat, T # {}
  PROVE  \E n \in T : \A m \in T : n <= m
<1> DEFINE Below == {1..n : n \in T}
<1>1. Below \subseteq FiniteSubsetsOf(Nat) /\ Below # {}
  <2>1. ASSUME NEW n \in T PROVE 1..n \in SUBSET Nat /\ IsFiniteSet(1..n)
    BY FS_Interval
  <2> QED
    BY <2>1 DEF FiniteSubsetsOf
<1>2. PICK B \in Below : \A C \in Below : <<C, B>> \notin StrictSubsetOrdering(Nat)
  <2> HIDE DEF Below
  <2> QED
    BY <1>1, FS_StrictSubsetOrderingWellFounded, WFMin
<1>3. PICK n \in T : B = 1..n
  OBVIOUS
<1>4. ASSUME NEW m \in T, m < n PROVE FALSE
  <2>1. 1..m \in Below /\ 1..m \subseteq Nat /\ 1..n \subseteq Nat
    OBVIOUS
  <2>2. 1..m \subseteq 1..n /\ n \in 1..n /\ n \notin 1..m
    BY <1>4
  <2>3. <<1..m, 1..n>> \in StrictSubsetOrdering(Nat)
    BY <2>1, <2>2 DEF StrictSubsetOrdering
  <2> QED
    BY <1>2, <1>3, <2>1, <2>3
<1> QED
  BY <1>4

\* One more wave: the nodes whose dependencies are all done.
Grow(g, done) == done \cup {n \in Nodes : g.deps[n] \subseteq done}
Grows(g, f, k) == f = [i \in 0..k |-> IF i = 0 THEN {} ELSE Grow(g, f[i - 1])]

\* The recursion of DoneAfter has a solution, for any number of waves.
LEMMA GrowthExists ==
  ASSUME NEW g, NEW k \in Nat PROVE \E f : Grows(g, f, k)
<1> DEFINE Bad == {i \in Nat : ~\E f : Grows(g, f, i)}
<1>1. SUFFICES ASSUME Bad # {} PROVE FALSE
  OBVIOUS
<1>2. PICK b \in Bad : \A i \in Bad : b <= i
  <2> HIDE DEF Bad
  <2>1. Bad \in SUBSET Nat
    BY DEF Bad
  <2> QED
    BY <1>1, <2>1, Smallest
<1>3. CASE b = 0
  <2>1. Grows(g, [i \in 0..0 |-> {}], 0)
    BY DEF Grows
  <2> QED
    BY <1>3, <2>1
<1>4. CASE b # 0
  <2>1. b - 1 \in Nat /\ b - 1 \notin Bad
    BY <1>2, <1>4
  <2>2. PICK f : Grows(g, f, b - 1)
    BY <2>1
  <2>3. PICK h : h = [i \in 0..b |-> IF i = b THEN Grow(g, f[b - 1]) ELSE f[i]]
    OBVIOUS
  <2>4. h[b - 1] = f[b - 1]
    BY <2>1, <2>3
  <2>5. \A i \in 0..b : h[i] = IF i = 0 THEN {} ELSE Grow(g, h[i - 1])
    <3>1. ASSUME NEW i \in 0..b PROVE h[i] = IF i = 0 THEN {} ELSE Grow(g, h[i - 1])
      <4>1. CASE i = b
        BY <1>4, <2>3, <2>4, <4>1
      <4>2. CASE i # b
        <5>1. i \in 0..(b - 1) /\ h[i] = f[i]
          BY <2>1, <2>3, <4>2
        <5>2. f[i] = IF i = 0 THEN {} ELSE Grow(g, f[i - 1])
          BY <2>2, <5>1 DEF Grows
        <5>3. i # 0 => h[i - 1] = f[i - 1]
          BY <2>1, <2>3, <4>2
        <5> QED
          BY <5>1, <5>2, <5>3
      <4> QED
        BY <4>1, <4>2
    <3> QED
      BY <3>1
  <2>6. Grows(g, h, b)
    <3>1. h = [i \in 0..b |-> h[i]]
      BY <2>3
    <3> QED
      BY <2>5, <3>1 DEF Grows
  <2> QED
    BY <2>6
<1> QED
  BY <1>3, <1>4

\* DoneAfter is what its recursion says.
LEMMA DoneAfterStep ==
  ASSUME NEW g
  PROVE  /\ DoneAfter(g)[0] = {}
         /\ \A k \in 1..N : DoneAfter(g)[k] = Grow(g, DoneAfter(g)[k - 1])
<1>1. N \in Nat
  BY NodesAssumption, FS_CardinalityType DEF N
<1>2. DoneAfter(g) = CHOOSE f : Grows(g, f, N)
  BY DEF DoneAfter, Grows, Grow, N
<1>3. Grows(g, DoneAfter(g), N)
  BY <1>1, <1>2, GrowthExists
<1> HIDE DEF N
<1>4. PICK f : f = DoneAfter(g)
  OBVIOUS
<1>5. f = [i \in 0..N |-> IF i = 0 THEN {} ELSE Grow(g, f[i - 1])]
  BY <1>3, <1>4 DEF Grows
<1>6. ASSUME NEW k \in 0..N PROVE f[k] = IF k = 0 THEN {} ELSE Grow(g, f[k - 1])
  BY <1>5
<1>7. 0 \in 0..N /\ 1..N \subseteq 0..N /\ \A k \in 1..N : k # 0
  BY <1>1
<1>8. f[0] = {} /\ \A k \in 1..N : f[k] = Grow(g, f[k - 1])
  BY <1>6, <1>7
<1> QED
  BY <1>4, <1>8

\* Waves are disjoint from what is done before them, and add up to what is done
\* after them; there are at most as many as nodes.
LEMMA WaveFacts ==
  ASSUME NEW g
  PROVE  /\ DoneAfter(g)[0] = {}
         /\ N \in Nat \ {0} /\ WaveCount(g) \in 0..N
         /\ \A k \in 0..N : DoneAfter(g)[k] \subseteq Nodes
         /\ \A k \in 1..N :
              /\ DoneAfter(g)[k] = DoneAfter(g)[k - 1] \cup Wave(g, k)
              /\ Wave(g, k) \subseteq Nodes
              /\ Wave(g, k) \cap DoneAfter(g)[k - 1] = {}
              /\ \A n \in Wave(g, k) : g.deps[n] \subseteq DoneAfter(g)[k - 1]
<1> DEFINE D == DoneAfter(g)
<1>1. N \in Nat \ {0}
  BY NodesAssumption, FS_CardinalityType, FS_EmptySet DEF N
<1>2. D[0] = {} /\ \A k \in 1..N : D[k] = Grow(g, D[k - 1])
  BY DoneAfterStep
<1>3. WaveCount(g) \in 0..N
  <2>1. IsFiniteSet(1..N) /\ Cardinality(1..N) = N
    BY <1>1, FS_Interval
  <2>2. {k \in 1..N : Wave(g, k) # {}} \subseteq 1..N
    OBVIOUS
  <2>3. WaveCount(g) = Cardinality({k \in 1..N : Wave(g, k) # {}})
    BY DEF WaveCount, N
  <2>4. /\ Cardinality({k \in 1..N : Wave(g, k) # {}}) <= N
        /\ Cardinality({k \in 1..N : Wave(g, k) # {}}) \in Nat
    BY <2>1, <2>2, FS_Subset, FS_CardinalityType
  <2> QED
    BY <1>1, <2>3, <2>4
<1>4. \A k \in 0..N : D[k] \subseteq Nodes
  <2>1. SUFFICES ASSUME {k \in 0..N : ~(D[k] \subseteq Nodes)} # {} PROVE FALSE
    OBVIOUS
  <2>2. {k \in 0..N : ~(D[k] \subseteq Nodes)} \in SUBSET Nat
    BY <1>1
  <2>3. PICK b \in 0..N : ~(D[b] \subseteq Nodes) /\ \A i \in 0..N : ~(D[i] \subseteq Nodes) => b <= i
    <3> DEFINE T == {k \in 0..N : ~(D[k] \subseteq Nodes)}
    <3>1. PICK b \in T : \A i \in T : b <= i
      <4> HIDE DEF T
      <4> QED
        BY <2>1, <2>2, Smallest DEF T
    <3> QED
      BY <3>1
  <2>4. b # 0
    BY <1>2, <2>3
  <2>5. b \in 1..N /\ b - 1 \in 0..N /\ b - 1 < b
    BY <1>1, <2>3, <2>4
  <2>6. D[b - 1] \subseteq Nodes
    BY <2>3, <2>5
  <2>7. D[b] = Grow(g, D[b - 1])
    BY <1>2, <2>5
  <2> QED
    BY <2>3, <2>6, <2>7 DEF Grow
<1>5. ASSUME NEW k \in 1..N
      PROVE  /\ D[k] = D[k - 1] \cup Wave(g, k)
             /\ Wave(g, k) \subseteq Nodes
             /\ Wave(g, k) \cap D[k - 1] = {}
             /\ \A n \in Wave(g, k) : g.deps[n] \subseteq D[k - 1]
  <2>1. D[k] = Grow(g, D[k - 1]) /\ Wave(g, k) = D[k] \ D[k - 1]
    BY <1>2 DEF Wave
  <2> HIDE DEF D
  <2> QED
    BY <2>1 DEF Grow
<1> QED
  BY <1>1, <1>2, <1>3, <1>4, <1>5

\* What is done stays done.
LEMMA DoneGrows ==
  ASSUME NEW g, NEW j \in 0..N, NEW k \in j..N
  PROVE  DoneAfter(g)[j] \subseteq DoneAfter(g)[k]
<1> DEFINE D == DoneAfter(g)
           Bad == {i \in j..N : ~(D[j] \subseteq D[i])}
<1>1. N \in Nat /\ \A i \in 1..N : D[i] = D[i - 1] \cup Wave(g, i)
  BY WaveFacts
<1>2. SUFFICES ASSUME Bad # {} PROVE FALSE
  OBVIOUS
<1> HIDE DEF D
<1>3. PICK b \in Bad : \A i \in Bad : b <= i
  <2>1. Bad \in SUBSET Nat
    BY <1>1
  <2> HIDE DEF Bad
  <2> QED
    BY <1>2, <2>1, Smallest
<1>4. b # j /\ b \in 1..N /\ b - 1 \in j..N
  BY <1>1, <1>3
<1>5. b - 1 \notin Bad
  BY <1>1, <1>3
<1>6. D[j] \subseteq D[b - 1]
  BY <1>4, <1>5
<1> QED
  BY <1>1, <1>3, <1>4, <1>6

\* A node of a wave waits for nodes of earlier waves only.
LEMMA WaveWaits ==
  ASSUME NEW g, NEW k \in 1..N, NEW n \in Wave(g, k)
  PROVE  Ordered(g)[n] \subseteq DoneAfter(g)[k - 1]
<1>1. /\ N \in Nat /\ n \in Nodes /\ g.deps[n] \subseteq DoneAfter(g)[k - 1]
      /\ n \in DoneAfter(g)[k] /\ k - 1 \in 0..N /\ k \in 0..N
  BY WaveFacts
<1>2. ASSUME NEW d, NEW j \in 0..N, d \in DoneAfter(g)[j], n \notin DoneAfter(g)[j]
      PROVE  d \in DoneAfter(g)[k - 1]
  <2>1. ~(j >= k)
    <3>1. ASSUME j >= k PROVE FALSE
      <4>1. j \in k..N
        BY <1>1, <3>1
      <4>2. DoneAfter(g)[k] \subseteq DoneAfter(g)[j]
        BY <1>1, <4>1, DoneGrows
      <4> QED
        BY <1>1, <1>2, <4>2
    <3> QED
      BY <3>1
  <2>2. k - 1 \in j..N
    BY <1>1, <2>1
  <2> QED
    BY <1>2, <2>2, DoneGrows
<1>3. \A d \in Ordered(g)[n] : d \in g.deps[n]
        \/ \E j \in 0..N : d \in DoneAfter(g)[j] /\ n \notin DoneAfter(g)[j]
  BY <1>1 DEF Ordered, N
<1> QED
  BY <1>1, <1>2, <1>3

\* What a node waits for are nodes.
LEMMA OrderedTyped ==
  ASSUME NEW g \in Graphs PROVE Ordered(g) \in [Nodes -> SUBSET Nodes]
<1>1. \A k \in 0..N : DoneAfter(g)[k] \subseteq Nodes
  BY WaveFacts
<1>2. g.deps \in [Nodes -> SUBSET Nodes]
  BY GraphsAssumption
<1> QED
  BY <1>1, <1>2 DEF Ordered, N

-----------------------------------------------------------------------------
\* A wave is launched: what was settled stays so, and the nodes of the wave
\* settle at once or run, unless they are known to be complete.
LEMMA LaunchEffect ==
  ASSUME NEW k \in 1..N, NEW stop \in BOOLEAN, NEW done, done \subseteq Nodes,
         NEW known \in ResultMap, NEW before \in ResultMap,
         \A n \in DoneAfter(graph)[k - 1] : before[n] # NoResult,
         \A n \in Nodes \ DoneAfter(graph)[k - 1] : before[n] = NoResult,
         Launch(k, stop, done, known, before)
  PROVE  /\ wave' = k /\ settled' \in ResultMap
         /\ running' \subseteq Wave(graph, k) /\ running' \cap done = {}
         /\ \A n \in DoneAfter(graph)[k] : n \in running' <=> settled'[n] = NoResult
         /\ \A n \in Nodes \ DoneAfter(graph)[k] : settled'[n] = NoResult
<1>1. \A n \in Nodes : /\ Immediate(n, stop, done, known) \in ResultOrNone
                       /\ Immediate(n, stop, done, known) = NoResult => n \notin done
  BY DEF Immediate, ResultMap, ResultOrNone, Results, NoResult
<1>2. /\ DoneAfter(graph)[k] = DoneAfter(graph)[k - 1] \cup Wave(graph, k)
      /\ DoneAfter(graph)[k] \subseteq Nodes
      /\ Wave(graph, k) \subseteq Nodes /\ Wave(graph, k) \cap DoneAfter(graph)[k - 1] = {}
  BY WaveFacts
<1>3. /\ wave' = k
      /\ settled' = [n \in Nodes |-> IF n \in Wave(graph, k)
                                     THEN Immediate(n, stop, done, known) ELSE before[n]]
      /\ running' = {n \in Wave(graph, k) : Immediate(n, stop, done, known) = NoResult}
  BY DEF Launch
<1>4. settled' \in ResultMap
  BY <1>1, <1>3 DEF ResultMap
<1>5. \A n \in Nodes : settled'[n] = IF n \in Wave(graph, k)
                                     THEN Immediate(n, stop, done, known) ELSE before[n]
  BY <1>3
<1>6. running' \subseteq Wave(graph, k) /\ running' \cap done = {}
  BY <1>1, <1>2, <1>3
<1>7. \A n \in DoneAfter(graph)[k] : n \in running' <=> settled'[n] = NoResult
  BY <1>2, <1>3, <1>5
<1> QED
  BY <1>2, <1>3, <1>4, <1>5, <1>6, <1>7

\* Before the first run there is nothing.
LEMMA InitInv == Init => IInv
<1> SUFFICES ASSUME Init PROVE IInv
  OBVIOUS
<1>1. Nothing \in ResultMap /\ \A n \in Nodes : Nothing[n] = NoResult
  BY DEF Nothing, ResultMap, ResultOrNone
<1>2. mode # "running"
  BY DEF Init
<1>3. disk.completed = {} /\ disk.results = Nothing
  BY DEF Init, NoCheckpoint
<1>4. Typed
  BY <1>1, <1>3 DEF Init, Typed
<1>5. Truthful
  BY <1>1, <1>3 DEF Init, Truthful, CheckpointTruthful
<1> QED
  BY <1>2, <1>4, <1>5 DEF IInv, Informed, Barrier

\* A run begins from the checkpoint.
LEMMA StartStep ==
  ASSUME IInv, NEW saved \in BOOLEAN, Start(saved)
  PROVE  IInv' /\ disk'.completed = disk.completed
<1>1. Nothing \in ResultMap /\ \A n \in Nodes : Nothing[n] = NoResult
  BY DEF Nothing, ResultMap, ResultOrNone
<1>2. /\ disk.completed \subseteq Nodes /\ disk.results \in ResultMap
      /\ graph' = graph /\ outcome' = outcome /\ mode' = "running"
      /\ completed' = disk.completed /\ results' = disk.results
      /\ disk' = IF saved THEN Snapshot(disk.completed, Nothing) ELSE disk
      /\ Launch(1, FALSE, disk.completed, disk.results, Nothing)
  BY DEF IInv, Typed, Start
<1>3. /\ disk'.completed = disk.completed /\ disk'.results \in ResultMap
      /\ \A n \in Nodes : disk'.results[n] \in {NoResult, disk.results[n]}
  <2>1. PICK s : s = Snapshot(disk.completed, Nothing)
    OBVIOUS
  <2>2. disk.completed \subseteq Nodes
    BY <1>2
  <2>3. /\ s.completed = disk.completed /\ s.results \in ResultMap
        /\ \A n \in disk.completed : s.results[n] = Nothing[n]
        /\ \A n \in Nodes \ disk.completed : s.results[n] = NoResult
    BY <1>1, <2>1, <2>2 DEF Snapshot, ResultMap, ResultOrNone
  <2>4. disk' = s \/ disk' = disk
    BY <1>2, <2>1
  <2> QED
    BY <1>1, <1>2, <2>3, <2>4
<1>4. 1 \in 1..N /\ DoneAfter(graph)[0] = {}
  BY WaveFacts
<1>5. /\ wave' = 1 /\ settled' \in ResultMap
      /\ running' \subseteq Wave(graph, 1) /\ running' \cap disk.completed = {}
      /\ \A n \in DoneAfter(graph)[1] : n \in running' <=> settled'[n] = NoResult
      /\ \A n \in Nodes \ DoneAfter(graph)[1] : settled'[n] = NoResult
  <2>1. PICK k, done, known, before :
          k = 1 /\ done = disk.completed /\ known = disk.results /\ before = Nothing
    OBVIOUS
  <2>2. k \in 1..N /\ k - 1 = 0
    BY <1>4, <2>1
  <2>3. DoneAfter(graph)[k - 1] = {}
    BY <1>4, <2>2
  <2>4. \A n \in DoneAfter(graph)[k - 1] : before[n] # NoResult
    BY <2>3
  <2>5. \A n \in Nodes \ DoneAfter(graph)[k - 1] : before[n] = NoResult
    BY <1>1, <2>1
  <2>6. done \subseteq Nodes /\ known \in ResultMap /\ before \in ResultMap /\ FALSE \in BOOLEAN
    BY <1>1, <1>2, <2>1
  <2>7. Launch(k, FALSE, done, known, before)
    BY <1>2, <2>1
  <2>8. /\ wave' = k /\ settled' \in ResultMap
        /\ running' \subseteq Wave(graph, k) /\ running' \cap done = {}
        /\ \A n \in DoneAfter(graph)[k] : n \in running' <=> settled'[n] = NoResult
        /\ \A n \in Nodes \ DoneAfter(graph)[k] : settled'[n] = NoResult
    BY <2>2, <2>4, <2>5, <2>6, <2>7, LaunchEffect
  <2> QED
    BY <2>1, <2>8
<1>6. Wave(graph, 1) \subseteq Nodes
  BY <1>4, WaveFacts
<1>7. Typed'
  BY <1>2, <1>3, <1>5, <1>6 DEF IInv, Typed
<1>8. Truthful'
  BY <1>2, <1>3 DEF IInv, Typed, Truthful, CheckpointTruthful
<1>9. Informed'
  BY <1>2, <1>3, <1>5 DEF Informed
<1>10. Barrier'
  BY <1>2, <1>4, <1>5 DEF Barrier
<1> QED
  BY <1>3, <1>7, <1>8, <1>9, <1>10 DEF IInv

\* A node that runs has not settled and is not complete.
LEMMA RunningFresh ==
  ASSUME IInv, mode = "running", NEW n \in running
  PROVE  n \in Nodes /\ n \notin completed /\ n \notin disk.completed
         /\ n \in DoneAfter(graph)[wave] /\ settled[n] = NoResult
         /\ DoneAfter(graph)[wave] \subseteq Nodes
<1>1. wave \in 1..N /\ n \in Wave(graph, wave)
  BY DEF IInv, Barrier
<1>2. n \in DoneAfter(graph)[wave] /\ DoneAfter(graph)[wave] \subseteq Nodes
  <2>1. wave \in 0..N
    BY <1>1
  <2> QED
    BY <1>1, <2>1, WaveFacts
<1> QED
  BY <1>2 DEF IInv, Informed, Barrier

\* A node has returned, or its executor has thrown.
LEMMA AnswerStep ==
  ASSUME IInv, NEW n \in Nodes, Answer(n)
  PROVE  /\ IInv'
         /\ n \in running /\ running' = running \ {n} /\ settled'[n] # NoResult
         /\ \A m \in Nodes \ {n} : settled'[m] = settled[m]
         /\ disk.completed \subseteq disk'.completed
         /\ \A m \in disk'.completed \ disk.completed : settled'[m] # NoResult /\ m \notin running'
<1>1. mode = "running" /\ n \in running /\ mode' = mode /\ graph' = graph /\ wave' = wave
      /\ running' = running \ {n}
  BY DEF Answer, NodeReturns, NodeThrows
<1>2. PICK r \in Results : /\ results' = [results EXCEPT ![n] = r]
                           /\ settled' = [settled EXCEPT ![n] = r]
                           /\ outcome' = [outcome EXCEPT ![n] = r]
  BY DEF Answer, NodeReturns, NodeThrows, Results
<1>3. r # NoResult /\ r \in ResultOrNone
  BY DEF Results, NoResult, ResultOrNone
<1>4. /\ n \notin completed /\ n \notin disk.completed /\ n \in DoneAfter(graph)[wave]
      /\ settled[n] = NoResult /\ DoneAfter(graph)[wave] \subseteq Nodes
  BY <1>1, RunningFresh
<1>5. /\ graph \in Graphs /\ completed \subseteq Nodes /\ running \subseteq Nodes
      /\ results \in ResultMap /\ settled \in ResultMap /\ outcome \in ResultMap
      /\ disk.completed \subseteq Nodes /\ disk.results \in ResultMap
  BY DEF IInv, Typed
<1>6. /\ results' \in ResultMap /\ settled' \in ResultMap /\ outcome' \in ResultMap
      /\ results'[n] = r /\ settled'[n] = r /\ outcome'[n] = r
      /\ \A m \in Nodes \ {n} : /\ results'[m] = results[m] /\ settled'[m] = settled[m]
                                /\ outcome'[m] = outcome[m]
  BY <1>2, <1>3, <1>5 DEF ResultMap
<1>7. \/ completed' = completed \cup {n}
      \/ completed' = completed /\ disk' = disk
  BY DEF Answer, NodeReturns, NodeThrows
<1>8. \/ disk' = disk
      \/ completed' = completed \cup {n} /\ disk' = Snapshot(completed', results')
  BY DEF Answer, NodeReturns, NodeThrows
<1>9. disk.completed \subseteq completed /\ running \cap completed = {}
      /\ \A m \in completed \ disk.completed : settled[m] # NoResult
  BY <1>1 DEF IInv, Informed
<1>10. completed' \subseteq Nodes
  BY <1>5, <1>7
<1>11. /\ disk'.completed \subseteq Nodes /\ disk'.results \in ResultMap
       /\ disk'.completed \in {disk.completed, completed'}
       /\ \A m \in disk'.completed : disk'.results[m] \in {disk.results[m], results'[m]}
       /\ \A m \in Nodes \ disk'.completed : disk'.results[m] = NoResult
  <2>1. CASE disk' = disk
    BY <1>5, <2>1 DEF IInv, Truthful
  <2>2. CASE completed' = completed \cup {n} /\ disk' = Snapshot(completed', results')
    <3>1. PICK done, known, s : done = completed' /\ known = results' /\ s = Snapshot(done, known)
      OBVIOUS
    <3>2. done \subseteq Nodes /\ known \in ResultMap
      BY <1>6, <1>10, <3>1
    <3>3. /\ s.completed = done /\ s.results \in ResultMap
          /\ \A m \in done : s.results[m] = known[m]
          /\ \A m \in Nodes \ done : s.results[m] = NoResult
      BY <3>1, <3>2 DEF Snapshot, ResultMap, ResultOrNone
    <3>4. disk' = s
      BY <2>2, <3>1
    <3> QED
      BY <1>10, <3>1, <3>3, <3>4
  <2> QED
    BY <1>8, <2>1, <2>2
<1>12. disk'.completed \in {disk.completed, completed \cup {n}}
       /\ (n \in disk'.completed => disk'.results[n] = r)
  <2>1. disk'.completed = completed' => completed' = completed \cup {n} \/ disk' = disk
    BY <1>7
  <2>2. n \in disk'.completed => disk' # disk
    BY <1>4
  <2>3. disk' # disk => disk'.completed = completed \cup {n} /\ disk'.results[n] = results'[n]
    <3>1. ASSUME disk' # disk PROVE disk'.completed = completed' /\ disk'.results[n] = results'[n]
      BY <1>8, <3>1 DEF Snapshot
    <3> QED
      BY <1>8, <3>1
  <2> QED
    BY <1>6, <2>2, <2>3
<1>13. Typed'
  BY <1>1, <1>5, <1>6, <1>10, <1>11 DEF Typed
<1>14. Truthful'
  <2>1. \A m \in completed' : outcome'[m] # NoResult
    BY <1>3, <1>5, <1>6, <1>7 DEF IInv, Truthful
  <2>2. \A m \in Nodes : results'[m] \in {NoResult, outcome'[m]}
    BY <1>6 DEF IInv, Truthful
  <2>3. \A m \in disk'.completed \ {n} : disk'.results[m] \in {NoResult, outcome'[m]}
    <3>1. ASSUME NEW m \in disk'.completed \ {n}
          PROVE  disk'.results[m] \in {NoResult, outcome'[m]}
      <4>1. m \in Nodes /\ disk'.results[m] \in {disk.results[m], results'[m]}
        BY <1>11
      <4>2. disk.results[m] \in {NoResult, outcome[m]}
        BY <4>1 DEF IInv, Truthful, CheckpointTruthful
      <4> QED
        BY <1>6, <2>2, <4>1, <4>2
    <3> QED
      BY <3>1
  <2>4. \A m \in disk'.completed : outcome'[m] # NoResult
    BY <1>3, <1>5, <1>6, <1>9, <1>12 DEF IInv, Truthful
  <2> QED
    BY <1>6, <1>11, <1>12, <2>1, <2>2, <2>3, <2>4 DEF Truthful, CheckpointTruthful
<1>15. Informed'
  BY <1>1, <1>3, <1>4, <1>5, <1>6, <1>7, <1>8, <1>9, <1>12 DEF Informed
<1>16. Barrier'
  BY <1>1, <1>3, <1>4, <1>6 DEF IInv, Barrier
<1>17. \A m \in disk'.completed \ disk.completed : settled'[m] # NoResult /\ m \notin running'
  BY <1>1, <1>3, <1>5, <1>6, <1>9, <1>12
<1> QED
  BY <1>1, <1>3, <1>6, <1>9, <1>12, <1>13, <1>14, <1>15, <1>16, <1>17 DEF IInv

\* A wave has ended and the next one begins.
LEMMA NextWaveStep ==
  ASSUME IInv, mode = "running", running = {}, wave < WaveCount(graph),
         Launch(wave + 1, aborted, completed, results, settled), aborted \in BOOLEAN,
         UNCHANGED <<mode, graph, disk, completed, results, outcome>>
  PROVE  /\ IInv'
         /\ wave + 1 \in 1..N /\ running' \subseteq Wave(graph, wave + 1) /\ running' \cap completed = {}
         /\ \A n \in DoneAfter(graph)[wave] : settled[n] # NoResult /\ settled'[n] = settled[n]
         /\ \A n \in Nodes \ DoneAfter(graph)[wave] : settled[n] = NoResult
         /\ \A n \in Nodes \ DoneAfter(graph)[wave + 1] : settled'[n] = NoResult
<1>1. PICK k, done, known, before :
        k = wave + 1 /\ done = completed /\ known = results /\ before = settled
  OBVIOUS
<1>2. N \in Nat \ {0} /\ WaveCount(graph) \in 0..N /\ wave \in 1..N
  BY WaveFacts DEF IInv, Barrier
<1>3. k \in 1..N /\ k - 1 = wave
  BY <1>1, <1>2
<1>4. /\ \A n \in DoneAfter(graph)[wave] : settled[n] # NoResult
      /\ \A n \in Nodes \ DoneAfter(graph)[wave] : settled[n] = NoResult
  BY DEF IInv, Barrier
<1>5. \A n \in DoneAfter(graph)[k - 1] : before[n] # NoResult
  BY <1>1, <1>3, <1>4
<1>6. \A n \in Nodes \ DoneAfter(graph)[k - 1] : before[n] = NoResult
  BY <1>1, <1>3, <1>4
<1>7. done \subseteq Nodes /\ known \in ResultMap /\ before \in ResultMap
      /\ TRUE \in BOOLEAN /\ FALSE \in BOOLEAN
  BY <1>1 DEF IInv, Typed
<1>8. /\ wave' = k /\ settled' \in ResultMap
      /\ running' \subseteq Wave(graph, k) /\ running' \cap done = {}
      /\ \A n \in DoneAfter(graph)[k] : n \in running' <=> settled'[n] = NoResult
      /\ \A n \in Nodes \ DoneAfter(graph)[k] : settled'[n] = NoResult
  <2>1. CASE aborted = FALSE
    <3>1. Launch(k, FALSE, done, known, before)
      BY <1>1, <2>1
    <3> QED
      BY <1>3, <1>5, <1>6, <1>7, <3>1, LaunchEffect
  <2>2. CASE aborted = TRUE
    <3>1. Launch(k, TRUE, done, known, before)
      BY <1>1, <2>2
    <3> QED
      BY <1>3, <1>5, <1>6, <1>7, <3>1, LaunchEffect
  <2> QED
    BY <2>1, <2>2
<1>9. Wave(graph, k) \subseteq Nodes /\ Wave(graph, k) \cap DoneAfter(graph)[k - 1] = {}
      /\ k - 1 \in 0..N
  BY <1>2, <1>3, WaveFacts
<1>10. \A n \in DoneAfter(graph)[wave] : settled'[n] = settled[n]
  <2>1. ASSUME NEW n \in DoneAfter(graph)[wave] PROVE settled'[n] = settled[n]
    <3>1. n \in Nodes /\ n \notin Wave(graph, wave + 1)
      BY <1>1, <1>3, <1>9, WaveFacts
    <3> QED
      BY <3>1 DEF Launch
  <2> QED
    BY <2>1
<1>11. Typed'
  BY <1>8, <1>9 DEF IInv, Typed
<1>12. Truthful'
  BY DEF IInv, Truthful, CheckpointTruthful
<1>13. Informed'
  <2>1. \A n \in completed \ disk.completed : settled'[n] # NoResult
    <3>1. ASSUME NEW n \in completed \ disk.completed PROVE settled'[n] # NoResult
      <4>1. n \in Nodes /\ settled[n] # NoResult
        BY <3>1 DEF IInv, Typed, Informed
      <4>2. n \in DoneAfter(graph)[wave]
        BY <1>4, <4>1
      <4> QED
        BY <1>10, <4>1, <4>2
    <3> QED
      BY <3>1
  <2>2. disk.completed \subseteq completed /\ running' \cap completed = {}
    BY <1>1, <1>8 DEF IInv, Informed
  <2> QED
    BY <2>1, <2>2 DEF Informed
<1>14. Barrier'
  BY <1>3, <1>8 DEF Barrier
<1> QED
  BY <1>1, <1>3, <1>4, <1>8, <1>10, <1>11, <1>12, <1>13, <1>14 DEF IInv

\* The signal fires, the process dies, or the run ends.
LEMMA QuietStep ==
  ASSUME IInv, UNCHANGED <<graph, disk, outcome>>,
         \/ UNCHANGED <<mode, completed, results, wave, settled, running>>
         \/ mode' # "running" /\ UNCHANGED <<completed, results, settled, running>>
         \/ mode' = "down" /\ completed' = {} /\ results' = Nothing /\ settled' = Nothing /\ running' = {}
  PROVE  IInv'
<1>1. Nothing \in ResultMap /\ \A n \in Nodes : Nothing[n] = NoResult
  BY DEF Nothing, ResultMap, ResultOrNone
<1>2. Typed'
  BY <1>1 DEF IInv, Typed
<1>3. Truthful'
  BY <1>1 DEF IInv, Truthful, CheckpointTruthful
<1>4. Informed' /\ Barrier'
  BY DEF IInv, Informed, Barrier
<1> QED
  BY <1>2, <1>3, <1>4 DEF IInv

\* The signal is on or off.
LEMMA AbortTyped == Spec => [](aborted \in BOOLEAN)
<1>1. Init => aborted \in BOOLEAN
  BY DEF Init
<1>2. aborted \in BOOLEAN /\ [Next]_vars => (aborted \in BOOLEAN)'
  BY DEF Next, Start, WaveEnds, Abort, Crash, Answer, NodeReturns, NodeThrows, vars
<1> QED
  BY <1>1, <1>2, PTL DEF Spec

\* Every step keeps the invariant.
LEMMA NextStep == IInv /\ aborted \in BOOLEAN /\ [Next]_vars => IInv'
<1> SUFFICES ASSUME IInv, aborted \in BOOLEAN, [Next]_vars PROVE IInv'
  OBVIOUS
<1>1. CASE \E saved \in BOOLEAN : Start(saved)
  BY <1>1, StartStep
<1>2. CASE WaveEnds
  <2>1. CASE mode' # "running"
    BY <1>2, <2>1, QuietStep DEF WaveEnds
  <2>2. CASE mode' = "running"
    BY <1>2, <2>2, NextWaveStep DEF WaveEnds
  <2> QED
    BY <2>1, <2>2
<1>3. CASE Abort
  BY <1>3, QuietStep DEF Abort
<1>4. CASE Crash
  BY <1>4, QuietStep DEF Crash
<1>5. CASE \E n \in Nodes : Answer(n)
  BY <1>5, AnswerStep
<1>6. CASE UNCHANGED vars
  BY <1>6, QuietStep DEF vars
<1> QED
  BY <1>1, <1>2, <1>3, <1>4, <1>5, <1>6 DEF Next

\* The inductive invariant holds for every set of graphs and number of runs.
THEOREM EngineInvariant == Spec => []IInv
BY InitInv, NextStep, AbortTyped, PTL DEF Spec

\* The checkpoint never invents a completion or a result, for any graph and any
\* number of interrupted and resumed runs (GraphEngine.#writeCheckpoint).
THEOREM CheckpointsAreTruthful == Spec => []CheckpointTruthful
<1>1. IInv => CheckpointTruthful
  BY DEF IInv, Truthful
<1> QED
  BY <1>1, EngineInvariant, PTL

-----------------------------------------------------------------------------
\* What DagRun sees of a node.
Phases == [n \in Nodes |-> IF n \in running THEN "running"
                           ELSE IF settled[n] # NoResult THEN "settled"
                           ELSE "waiting"]

\* A run that begins is a restart of the abstract one.
LEMMA StartRestarts ==
  ASSUME IInv, NEW saved \in BOOLEAN, Start(saved)
  PROVE  Run!Restart
<1>1. IInv' /\ disk'.completed = disk.completed /\ graph' = graph /\ mode' = "running" /\ wave' = 1
  BY StartStep DEF Start, Launch
<1>2. 1 \in 1..N /\ DoneAfter(graph)[0] = {} /\ 1 - 1 = 0
  BY WaveFacts
<1>3. /\ running' \subseteq Wave(graph, 1) /\ running' \cap disk.completed = {}
      /\ \A n \in Nodes \ DoneAfter(graph)[1] : settled'[n] = NoResult
  BY <1>1 DEF IInv, Barrier, Informed
<1>4. \A n \in DoneAfter(graph)[1] : Ordered(graph)[n] = {}
  <2>1. PICK k : k = 1 /\ k \in 1..N /\ k - 1 = 0
    BY <1>2
  <2>2. DoneAfter(graph)[k - 1] = {}
    BY <1>2, <2>1
  <2>3. DoneAfter(graph)[k] = Wave(graph, k)
    <3>1. DoneAfter(graph)[k] = DoneAfter(graph)[k - 1] \cup Wave(graph, k)
      BY <2>1, WaveFacts
    <3> QED
      BY <2>2, <3>1
  <2>4. \A n \in Wave(graph, k) : Ordered(graph)[n] = {}
    BY <2>1, <2>2, WaveWaits
  <2> QED
    BY <2>1, <2>3, <2>4
<1>5. Phases' \in [Nodes -> Run!NodePhases]
  BY DEF Phases, Run!NodePhases
<1>6. \A n \in Nodes : Phases'[n] # "waiting" => n \in DoneAfter(graph)[1]
  BY <1>2, <1>3, WaveFacts DEF Phases
<1>7. \A n \in Nodes : Phases'[n] = "running" => n \notin disk.completed
  BY <1>3 DEF Phases
<1>8. Ordered(graph') = Ordered(graph)
  BY <1>1
<1> QED
  BY <1>1, <1>4, <1>5, <1>6, <1>7, <1>8 DEF Run!Restart, Run!Advance, Phases

\* A process that dies is a restart in which everything waits.
LEMMA CrashRestarts == ASSUME Crash PROVE Run!Restart
<1>1. running' = {} /\ settled' = Nothing /\ graph' = graph /\ disk' = disk
  BY DEF Crash
<1>2. Phases' = [n \in Nodes |-> "waiting"]
  BY <1>1 DEF Phases, Nothing
<1> QED
  BY <1>1, <1>2 DEF Run!Restart, Run!Advance, Run!NodePhases, Phases

\* The next wave is progress: all it depends on has settled before.
LEMMA NextWaveProgresses ==
  ASSUME IInv, aborted \in BOOLEAN, mode = "running", running = {}, wave < WaveCount(graph),
         Launch(wave + 1, aborted, completed, results, settled),
         UNCHANGED <<mode, graph, disk, completed, results, outcome>>
  PROVE  Run!Progress
<1>1. /\ wave + 1 \in 1..N /\ running' \subseteq Wave(graph, wave + 1) /\ running' \cap completed = {}
      /\ \A n \in DoneAfter(graph)[wave] : settled[n] # NoResult /\ settled'[n] = settled[n]
      /\ \A n \in Nodes \ DoneAfter(graph)[wave] : settled[n] = NoResult
      /\ \A n \in Nodes \ DoneAfter(graph)[wave + 1] : settled'[n] = NoResult
  BY NextWaveStep
<1>2. PICK k : k = wave + 1 /\ k \in 1..N /\ k - 1 = wave
  BY <1>1 DEF IInv, Barrier
<1>3. /\ DoneAfter(graph)[k] = DoneAfter(graph)[wave] \cup Wave(graph, k)
      /\ Wave(graph, k) \cap DoneAfter(graph)[wave] = {}
      /\ \A n \in Wave(graph, k) : Ordered(graph)[n] \subseteq DoneAfter(graph)[wave]
  BY <1>2, WaveFacts, WaveWaits
<1>4. /\ \A n \in Nodes : Phases[n] # "running"
      /\ \A n \in DoneAfter(graph)[wave] \cap Nodes : Phases'[n] = "settled"
      /\ \A n \in Nodes \ DoneAfter(graph)[wave] : Phases[n] = "waiting"
  BY <1>1, <1>2, <1>3 DEF Phases
<1>5. \A n \in Nodes : Phases'[n] # "waiting" /\ Phases[n] = "waiting" => n \in Wave(graph, k)
  BY <1>1, <1>2, <1>3 DEF Phases
<1>6. \A n \in Nodes : Phases'[n] = "running" => n \notin disk.completed
  BY <1>1 DEF Phases, IInv, Informed
<1>7. Phases' \in [Nodes -> Run!NodePhases]
  BY DEF Phases, Run!NodePhases
<1>8. \A n \in Nodes : Phases[n] = "settled" => Phases'[n] = "settled"
  BY <1>4
<1>9. Ordered(graph) \in [Nodes -> SUBSET Nodes]
  BY OrderedTyped DEF IInv, Typed
<1>10. \A n \in Nodes : Phases[n] = "waiting" /\ Phases'[n] # "waiting" =>
         \A d \in Ordered(graph)[n] : Phases'[d] = "settled"
  BY <1>3, <1>4, <1>5, <1>9
<1>11. UNCHANGED Ordered(graph) /\ disk' = disk
  OBVIOUS
<1> QED
  BY <1>4, <1>6, <1>7, <1>8, <1>9, <1>10, <1>11 DEF Run!Progress, Run!Advance, Phases

\* An answer is progress of its node.
LEMMA AnswerProgresses ==
  ASSUME IInv, NEW n \in Nodes, Answer(n)
  PROVE  Run!Progress
<1>1. /\ n \in running /\ running' = running \ {n} /\ settled'[n] # NoResult
      /\ \A m \in Nodes \ {n} : settled'[m] = settled[m]
      /\ disk.completed \subseteq disk'.completed
      /\ \A m \in disk'.completed \ disk.completed : settled'[m] # NoResult /\ m \notin running'
      /\ disk'.completed \subseteq Nodes
  BY AnswerStep DEF IInv, Typed
<1>2. graph' = graph
  BY DEF Answer, NodeReturns, NodeThrows
<1>3. Phases[n] = "running" /\ Phases'[n] = "settled"
      /\ \A m \in Nodes \ {n} : Phases'[m] = Phases[m]
  BY <1>1 DEF Phases
<1>4. Phases' \in [Nodes -> Run!NodePhases] /\ Phases \in [Nodes -> Run!NodePhases]
  BY DEF Phases, Run!NodePhases
<1>5. \A m \in disk'.completed \ disk.completed : m \in Nodes /\ Phases'[m] = "settled"
  BY <1>1 DEF Phases
<1>6. UNCHANGED Ordered(graph)
  BY <1>2
<1> QED
  BY <1>1, <1>3, <1>4, <1>5, <1>6 DEF Run!Progress, Run!Advance, Phases, Run!NodePhases

\* The wave strategy implements DagRun on every validated graph without routing:
\* whatever crashes, aborts, failed writes and resumes do, no node overtakes a node of
\* its depends_on, nor the source of an edge that stands in an earlier wave, and none
\* that is durable runs again.  (An edge alone orders nothing, graph-runner.ts:167.)
THEOREM EngineRefinesDagRun == Spec => ImplementsDagRun
<1>1. Init => Run!Init
  <2> SUFFICES ASSUME Init PROVE Run!Init
    OBVIOUS
  <2>1. graph \in Graphs /\ running = {} /\ settled = Nothing /\ disk.completed = {}
    BY DEF Init, NoCheckpoint
  <2>2. Phases = [n \in Nodes |-> "waiting"]
    BY <2>1 DEF Phases, Nothing
  <2>3. Ordered(graph) \in [Nodes -> SUBSET Nodes]
    BY <2>1, OrderedTyped
  <2> QED
    BY <2>1, <2>2, <2>3 DEF Run!Init, Phases
<1>2. IInv /\ aborted \in BOOLEAN /\ [Next]_vars
        => [Run!Progress \/ Run!Restart]_<<Ordered(graph), Phases, disk.completed>>
  <2> SUFFICES ASSUME IInv, aborted \in BOOLEAN, [Next]_vars
               PROVE  \/ Run!Progress \/ Run!Restart
                      \/ UNCHANGED <<Ordered(graph), Phases, disk.completed>>
    OBVIOUS
  <2>1. CASE \E saved \in BOOLEAN : Start(saved)
    BY <2>1, StartRestarts
  <2>2. CASE WaveEnds
    <3>1. CASE mode' = "running"
      BY <2>2, <3>1, NextWaveProgresses DEF WaveEnds
    <3>2. CASE mode' # "running"
      <4>1. UNCHANGED <<graph, disk, running, settled>>
        BY <2>2, <3>2 DEF WaveEnds
      <4> QED
        BY <4>1 DEF Phases
    <3> QED
      BY <3>1, <3>2
  <2>3. CASE Abort
    BY <2>3 DEF Abort, Phases
  <2>4. CASE Crash
    BY <2>4, CrashRestarts
  <2>5. CASE \E n \in Nodes : Answer(n)
    BY <2>5, AnswerProgresses
  <2>6. CASE UNCHANGED vars
    BY <2>6 DEF vars, Phases
  <2> QED
    BY <2>1, <2>2, <2>3, <2>4, <2>5, <2>6 DEF Next
<1> QED
  BY <1>1, <1>2, EngineInvariant, AbortTyped, PTL DEF Spec, ImplementsDagRun, Run!Spec, Phases
-----------------------------------------------------------------------------
\* What one resume still knows.  The first run records every result; the second
\* begins with them, though the disk no longer has them; the third may not.
Remembered ==
  /\ starts \in Nat
  /\ running # {} => mode = "running"
  /\ starts = 0 => mode # "running" /\ disk.completed = {}
  /\ starts <= 1 => \A n \in disk.completed : disk.results[n] # NoResult
  /\ mode = "running" /\ starts <= 2 => \A n \in completed : results[n] # NoResult
  /\ mode = "running" /\ starts <= 2 /\ (~aborted \/ running # {}) =>
       \A n \in Nodes : settled[n] # NoResult => settled[n] = results[n]

\* No hard failure is behind the wave that runs.
Passed ==
  mode = "running" =>
    \A n \in DoneAfter(graph)[wave - 1] : settled[n] # "failed" \/ n \in graph.cof

\* Before the first run there is nothing to remember.
LEMMA InitRemembers == Init => Remembered /\ Passed
BY DEF Init, Remembered, Passed, NoCheckpoint

\* Only the second run may begin from results, and the first from nothing.
LEMMA StartRemembers ==
  ASSUME IInv, Remembered, NEW saved \in BOOLEAN, Start(saved)
  PROVE  Remembered' /\ Passed'
<1>1. /\ starts \in Nat /\ starts' = starts + 1 /\ mode' = "running"
      /\ completed' = disk.completed /\ results' = disk.results /\ graph' = graph
      /\ disk' = IF saved THEN Snapshot(disk.completed, Nothing) ELSE disk
      /\ Launch(1, FALSE, disk.completed, disk.results, Nothing)
  BY DEF Start, Remembered
<1>2. disk'.completed = disk.completed
  BY StartStep
<1>3. starts' <= 1 => disk'.completed = {}
  BY <1>1, <1>2 DEF Remembered
<1>4. starts' <= 2 => \A n \in disk.completed : disk.results[n] # NoResult
  BY <1>1 DEF Remembered
<1>5. ASSUME starts' <= 2, NEW n \in Nodes, settled'[n] # NoResult PROVE settled'[n] = results'[n]
  <2>1. settled'[n] = IF n \in Wave(graph, 1)
                      THEN Immediate(n, FALSE, disk.completed, disk.results) ELSE Nothing[n]
    BY <1>1 DEF Launch
  <2>2. settled'[n] = Immediate(n, FALSE, disk.completed, disk.results)
    BY <1>5, <2>1 DEF Nothing
  <2>3. n \in disk.completed
    BY <1>5, <2>2 DEF Immediate
  <2>4. disk.results[n] # NoResult
    BY <1>4, <1>5, <2>3
  <2> QED
    BY <1>1, <2>2, <2>3, <2>4 DEF Immediate
<1>6. wave' - 1 = 0 /\ DoneAfter(graph)[0] = {}
  BY <1>1, WaveFacts DEF Launch
<1>7. Remembered'
  BY <1>1, <1>3, <1>4, <1>5 DEF Remembered
<1> QED
  BY <1>1, <1>6, <1>7 DEF Passed

\* A node that returns leaves its result; one that throws is not complete.
LEMMA AnswerRemembers ==
  ASSUME IInv, Remembered, Passed, NEW n \in Nodes, Answer(n)
  PROVE  Remembered' /\ Passed'
<1>1. /\ mode = "running" /\ n \in running /\ mode' = mode /\ graph' = graph /\ wave' = wave
      /\ starts' = starts /\ aborted' = aborted /\ running' = running \ {n}
  BY DEF Answer, NodeReturns, NodeThrows
<1>2. PICK r \in Results : /\ results' = [results EXCEPT ![n] = r]
                           /\ settled' = [settled EXCEPT ![n] = r]
  BY DEF Answer, NodeReturns, NodeThrows, Results
<1>3. /\ results \in ResultMap /\ settled \in ResultMap /\ completed \subseteq Nodes
      /\ disk.completed \subseteq completed /\ disk.completed \subseteq Nodes
  BY <1>1 DEF IInv, Typed, Informed
<1>4. /\ results'[n] = r /\ settled'[n] = r /\ r # NoResult
      /\ \A m \in Nodes \ {n} : results'[m] = results[m] /\ settled'[m] = settled[m]
  BY <1>2, <1>3 DEF ResultMap, Results, NoResult
<1>5. completed' \in {completed, completed \cup {n}}
  BY DEF Answer, NodeReturns, NodeThrows
<1>6. disk' = disk \/ disk' = Snapshot(completed', results')
  BY DEF Answer, NodeReturns, NodeThrows
<1>7. starts <= 2 => \A m \in completed' : results'[m] # NoResult
  BY <1>1, <1>3, <1>4, <1>5 DEF Remembered
<1>8. starts <= 1 => \A m \in disk'.completed : disk'.results[m] # NoResult
  <2>1. CASE disk' = disk
    BY <2>1 DEF Remembered
  <2>2. CASE disk' = Snapshot(completed', results')
    <3>1. disk'.completed = completed'
          /\ \A m \in Nodes : m \in completed' => disk'.results[m] = results'[m]
      BY <2>2 DEF Snapshot
    <3> QED
      BY <1>1, <1>3, <1>5, <1>7, <3>1 DEF Remembered
  <2> QED
    BY <1>6, <2>1, <2>2
<1>9. starts <= 2 => \A m \in Nodes : settled'[m] # NoResult => settled'[m] = results'[m]
  BY <1>1, <1>4 DEF Remembered
<1>10. Remembered'
  BY <1>1, <1>7, <1>8, <1>9 DEF Remembered
<1>11. n \notin DoneAfter(graph)[wave - 1] /\ DoneAfter(graph)[wave - 1] \subseteq Nodes
  <2>1. wave \in 1..N /\ n \in Wave(graph, wave)
    BY <1>1 DEF IInv, Barrier
  <2>2. wave - 1 \in 0..N
    BY <2>1, WaveFacts
  <2> QED
    BY <2>1, <2>2, WaveFacts
<1> QED
  BY <1>1, <1>4, <1>10, <1>11 DEF Passed

\* The next wave repeats what is known of complete nodes, and an aborted one runs
\* nothing; the wave before it has passed.
LEMMA NextWaveRemembers ==
  ASSUME IInv, Remembered, Passed, mode = "running", running = {}, wave < WaveCount(graph),
         ~HardFailure(wave), aborted \in BOOLEAN,
         Launch(wave + 1, aborted, completed, results, settled),
         UNCHANGED <<mode, graph, disk, completed, results, outcome, aborted, starts>>
  PROVE  Remembered' /\ Passed'
<1>1. /\ wave + 1 \in 1..N
      /\ \A n \in DoneAfter(graph)[wave] : settled'[n] = settled[n]
  BY NextWaveStep
<1>2. /\ running' = {n \in Wave(graph, wave + 1) :
                        Immediate(n, aborted, completed, results) = NoResult}
      /\ \A n \in Nodes : settled'[n] = IF n \in Wave(graph, wave + 1)
                                        THEN Immediate(n, aborted, completed, results) ELSE settled[n]
      /\ wave' = wave + 1
  BY DEF Launch
<1>3. aborted => running' = {}
  BY <1>2 DEF Immediate, NoResult
<1>4. ASSUME starts <= 2, ~aborted, NEW n \in Nodes, settled'[n] # NoResult
      PROVE  settled'[n] = results[n]
  <2>1. CASE n \in Wave(graph, wave + 1)
    <3>1. settled'[n] = Immediate(n, aborted, completed, results)
      BY <1>2, <2>1
    <3>2. n \in completed /\ results[n] # NoResult
      BY <1>4, <3>1 DEF Immediate, Remembered
    <3> QED
      BY <1>4, <3>1, <3>2 DEF Immediate
  <2>2. CASE n \notin Wave(graph, wave + 1)
    BY <1>2, <1>4, <2>2 DEF Remembered
  <2> QED
    BY <2>1, <2>2
<1>5. Remembered'
  BY <1>3, <1>4 DEF Remembered
<1>6. wave \in 1..N /\ wave' - 1 = wave
  BY <1>2 DEF IInv, Barrier
<1>7. DoneAfter(graph)[wave] = DoneAfter(graph)[wave - 1] \cup Wave(graph, wave)
  BY <1>6, WaveFacts
<1>8. \A n \in DoneAfter(graph)[wave] : settled[n] # "failed" \/ n \in graph.cof
  BY <1>7 DEF HardFailure, Passed
<1> QED
  BY <1>1, <1>5, <1>6, <1>8 DEF Passed

\* The signal fires, the process dies, or the run ends.
LEMMA QuietRemembers ==
  ASSUME Remembered, Passed, UNCHANGED <<graph, disk, starts>>,
         \/ UNCHANGED <<mode, completed, results, wave, settled, running>>
              /\ aborted' \in {TRUE, aborted}
         \/ mode' # "running" /\ running' = {}
  PROVE  Remembered' /\ Passed'
BY DEF Remembered, Passed

\* Every step keeps what is remembered.
LEMMA NextRemembers ==
  IInv /\ aborted \in BOOLEAN /\ Remembered /\ Passed /\ [Next]_vars => Remembered' /\ Passed'
<1> SUFFICES ASSUME IInv, aborted \in BOOLEAN, Remembered, Passed, [Next]_vars
             PROVE  Remembered' /\ Passed'
  OBVIOUS
<1>1. CASE \E saved \in BOOLEAN : Start(saved)
  BY <1>1, StartRemembers
<1>2. CASE WaveEnds
  <2>1. CASE mode' # "running"
    BY <1>2, <2>1, QuietRemembers DEF WaveEnds
  <2>2. CASE mode' = "running"
    BY <1>2, <2>2, NextWaveRemembers DEF WaveEnds
  <2> QED
    BY <2>1, <2>2
<1>3. CASE Abort
  BY <1>3, QuietRemembers DEF Abort
<1>4. CASE Crash
  BY <1>4, QuietRemembers DEF Crash
<1>5. CASE \E n \in Nodes : Answer(n)
  BY <1>5, AnswerRemembers
<1>6. CASE UNCHANGED vars
  BY <1>6, QuietRemembers DEF vars
<1> QED
  BY <1>1, <1>2, <1>3, <1>4, <1>5, <1>6 DEF Next

\* While a node runs, of what it depends on the last result is known, and good
\* unless it may fail.
LEMMA DependenciesKnown ==
  ASSUME IInv, Remembered, Passed, starts <= 2, NEW n \in running, NEW d \in graph.deps[n]
  PROVE  results[d] # NoResult /\ (outcome[d] = "ok" \/ d \in graph.cof)
<1>1. mode = "running" /\ wave \in 1..N /\ n \in Wave(graph, wave)
  BY DEF IInv, Barrier, Remembered
<1>2. /\ d \in DoneAfter(graph)[wave - 1]
      /\ DoneAfter(graph)[wave] = DoneAfter(graph)[wave - 1] \cup Wave(graph, wave)
      /\ Wave(graph, wave) \cap DoneAfter(graph)[wave - 1] = {}
  BY <1>1, WaveFacts
<1>3. wave \in 0..N /\ DoneAfter(graph)[wave] \subseteq Nodes
  BY <1>1, WaveFacts
<1>4. d \in Nodes /\ settled[d] # NoResult
  BY <1>1, <1>2, <1>3 DEF IInv, Barrier
<1>5. settled[d] = results[d]
  BY <1>1, <1>4 DEF Remembered
<1>6. results[d] = outcome[d] /\ settled[d] \in ResultOrNone
  BY <1>4, <1>5 DEF IInv, Truthful, Typed, ResultMap
<1>7. settled[d] # "failed" \/ d \in graph.cof
  BY <1>1, <1>2 DEF Passed
<1> QED
  BY <1>4, <1>5, <1>6, <1>7 DEF ResultOrNone, Results

\* The results are remembered for one run and one resume.
LEMMA RememberedAlways == Spec => [](IInv /\ Remembered /\ Passed)
BY InitRemembers, NextRemembers, EngineInvariant, AbortTyped, PTL DEF Spec

\* In the first run on a session and in the first resume, a node that runs finds
\* the output of every dependency (buildUpstreamOutputs, graph-engine.ts:120-122).
THEOREM UpstreamAvailableForOneResume == Spec => [](starts <= 2 => UpstreamAvailable)
<1>1. IInv /\ Remembered /\ Passed => (starts <= 2 => UpstreamAvailable)
  BY DependenciesKnown DEF UpstreamAvailable
<1> QED
  BY <1>1, RememberedAlways, PTL

\* In the first run and in the first resume, no node runs whose dependency has
\* failed without continue_on_failure, in whichever of the two that was.
THEOREM FailureStopsForOneResume == Spec => [](starts <= 2 => FailureStops)
<1>1. IInv /\ Remembered /\ Passed => (starts <= 2 => FailureStops)
  BY DependenciesKnown DEF FailureStops
<1> QED
  BY <1>1, RememberedAlways, PTL
=============================================================================
