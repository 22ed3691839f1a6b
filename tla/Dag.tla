--------------------------------- MODULE Dag ---------------------------------
(***************************************************************************)
(* graph/dag.ts: cycle detection (Kahn's algorithm) over the full          *)
(* dependency map, as validateGraphDefinition calls it, and then the       *)
(* execution waves over the declared dependencies, as GraphRunner.init     *)
(* calls it.  The declared map is part of the full one, which adds the     *)
(* route sources and the edges.                                            *)
(*                                                                         *)
(* The worklist is a set: the order in which the code takes nodes from it  *)
(* does not reach either result.                                           *)
(***************************************************************************)
EXTENDS Naturals, Sequences, FiniteSets

CONSTANTS Nodes,    \* keys of the dependency map
          Names,    \* Nodes, and names that a definition may mention wrongly
          Inputs    \* the pairs [full, declared] to consider

ASSUME NodesAssumption == IsFiniteSet(Names) /\ Nodes \subseteq Names
ASSUME InputsAssumption ==
  Inputs \subseteq {i \in [full : [Nodes -> SUBSET Names], declared : [Nodes -> SUBSET Names]] :
                      \A n \in Nodes : i.declared[n] \subseteq i.full[n]}

VARIABLES input,      \* the definition
          phase,      \* "index", "sort", "waves", or how it ended
          inDegree,   \* of each node
          queue,      \* nodes of in-degree 0 not yet taken
          sorted,     \* nodes taken, in order
          waves,      \* the waves built so far
          completed   \* the nodes in them
vars == <<input, phase, inDegree, queue, sorted, waves, completed>>

Final == {"rejected", "built", "deadlock"}
full == input.full
declared == input.declared
Dependents(n) == {m \in Nodes : n \in full[m]}
Taken == {sorted[i] : i \in 1..Len(sorted)}

Init == /\ input \in Inputs
        /\ phase = "index"
        /\ inDegree = [n \in Nodes |-> 0]
        /\ queue = {} /\ sorted = <<>>
        /\ waves = <<>> /\ completed = {}

\* The first pass of detectCycles, and the queue it fills.
Index ==
  /\ phase = "index"
  /\ phase' = "sort"
  /\ inDegree' = [n \in Nodes |-> Cardinality(full[n])]
  /\ queue' = {n \in Nodes : inDegree'[n] = 0}
  /\ UNCHANGED <<input, sorted, waves, completed>>

\* Faulty: a dependent is queued by its first dependency.
TakeEager(n) ==
  /\ phase = "sort" /\ n \in queue
  /\ sorted' = Append(sorted, n)
  /\ inDegree' = [m \in Nodes |-> IF m \in Dependents(n) THEN 0 ELSE inDegree[m]]
  /\ queue' = (queue \ {n}) \cup {m \in Dependents(n) : inDegree[m] > 0}
  /\ UNCHANGED <<input, phase, waves, completed>>

\* One node leaves the queue; its dependents lose one.
Take(n) ==
  /\ phase = "sort" /\ n \in queue
  /\ sorted' = Append(sorted, n)
  /\ inDegree' = [m \in Nodes |-> IF m \in Dependents(n) THEN inDegree[m] - 1 ELSE inDegree[m]]
  /\ queue' = (queue \ {n}) \cup {m \in Dependents(n) : inDegree'[m] = 0}
  /\ UNCHANGED <<input, phase, waves, completed>>

\* Faulty: the verdict overlooks a single node.
VerdictOffByOne ==
  /\ phase = "sort" /\ queue = {}
  /\ phase' = IF Len(sorted) + 1 < Cardinality(Nodes) THEN "rejected" ELSE "waves"
  /\ UNCHANGED <<input, inDegree, queue, sorted, waves, completed>>

\* detectCycles returns: nodes are left over, or null.
Verdict ==
  /\ phase = "sort" /\ queue = {}
  /\ phase' = IF Len(sorted) < Cardinality(Nodes) THEN "rejected" ELSE "waves"
  /\ UNCHANGED <<input, inDegree, queue, sorted, waves, completed>>

\* Faulty: a node is ready beside a dependency of its own wave.
ReadySameWave(done) ==
  {n \in Nodes \ done : \A d \in declared[n] : d \in done \/ declared[d] = {}}

\* Nodes that go into the next wave.
Ready(done) == {n \in Nodes \ done : declared[n] \subseteq done}

\* One round of the loop of buildExecutionWaves; without a ready node it throws
\* "Deadlock: ... This indicates a bug in cycle detection."
NextWave ==
  /\ phase = "waves" /\ completed # Nodes
  /\ phase' = IF Ready(completed) = {} THEN "deadlock" ELSE "waves"
  /\ waves' = IF Ready(completed) = {} THEN waves ELSE Append(waves, Ready(completed))
  /\ completed' = completed \cup Ready(completed)
  /\ UNCHANGED <<input, inDegree, queue, sorted>>

ReturnWaves ==
  /\ phase = "waves" /\ completed = Nodes
  /\ phase' = "built"
  /\ UNCHANGED <<input, inDegree, queue, sorted, waves, completed>>

Next == \/ Index \/ Verdict \/ NextWave \/ ReturnWaves
        \/ \E n \in Nodes : Take(n)

Spec == Init /\ [][Next]_vars

-----------------------------------------------------------------------------
TypeOK ==
  /\ input \in Inputs
  /\ phase \in {"index", "sort", "waves"} \cup Final
  /\ inDegree \in [Nodes -> Nat]
  /\ queue \subseteq Nodes /\ completed \subseteq Nodes
  /\ sorted \in Seq(Nodes)
  /\ waves \in Seq(SUBSET Nodes)

\* A set of nodes that wait for each other, or for a name that is no node.
Knot(C) == /\ C # {}
           /\ \A n \in C : \E d \in full[n] : d \in C \/ d \notin Nodes
HasKnot == \E C \in SUBSET Nodes : Knot(C)

\* A definition is rejected exactly if some nodes wait for each other (or for
\* a node that does not exist); all others are accepted.
VerdictExact ==
  /\ phase = "rejected" => HasKnot
  /\ phase \in {"waves", "built", "deadlock"} => ~HasKnot

\* The internal error of buildExecutionWaves cannot be raised on a definition
\* that passed cycle detection (dag.ts:79).
NeverDeadlocks == phase # "deadlock"

\* A wave holds the nodes whose dependencies are all in earlier waves, and at
\* least one in the wave before: nobody runs too early, nobody waits longer.
EarliestWave ==
  \A k \in 1..Len(waves) :
    LET before == UNION {waves[j] : j \in 1..(k - 1)}
    IN  /\ waves[k] # {} /\ waves[k] \cap before = {}
        /\ \A n \in waves[k] :
             /\ declared[n] \subseteq before
             /\ k > 1 => declared[n] \cap waves[k - 1] # {}

\* When the waves are returned they hold every node.
WavesComplete == phase = "built" => UNION {waves[k] : k \in 1..Len(waves)} = Nodes
=============================================================================
