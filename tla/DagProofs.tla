------------------------------ MODULE DagProofs ------------------------------
(***************************************************************************)
(* For every dependency map: detectCycles rejects it exactly if some nodes *)
(* wait for each other or for an unknown name, and buildExecutionWaves     *)
(* never raises its internal error on a map that was accepted.             *)
(*                                                                         *)
(* The argument is that `sorted` is a topological order (Topological): a   *)
(* node is taken when its in-degree, the number of its dependencies not    *)
(* yet taken, is zero.  The first node of that order that is in no wave    *)
(* has all its dependencies in waves, so there is always a next wave; and  *)
(* the first node of that order in a knot would have to depend on an       *)
(* earlier one.  Each wave is what the loop computed from those before it  *)
(* (WaveInv), so a node of a later wave was not ready one round earlier.   *)
(*                                                                         *)
(* The second part is about TaskQueue, the dependency map the agents of a  *)
(* stage work from, for every set of tasks, agents and plans.  There the   *)
(* inductive invariant adds to the properties that the ids of a loaded     *)
(* plan are its own and wait for each other in no circle, which is what    *)
(* load has checked.                                                       *)
(***************************************************************************)
EXTENDS Dag, TaskQueue, FiniteSetTheorems, WellFoundedInduction, TLAPS

\* The dependencies of a node that have not been taken.
Missing(n) == full[n] \ Taken

Topological ==
  \A i \in 1..Len(sorted) : full[sorted[i]] \subseteq {sorted[j] : j \in 1..(i - 1)}

SortInv ==
  /\ phase = "index" => queue = {} /\ sorted = <<>>
  /\ phase # "index" =>
       \A m \in Nodes : /\ inDegree[m] = Cardinality(Missing(m))
                        /\ inDegree[m] = 0 <=> m \in queue \cup Taken
  /\ queue \cap Taken = {}
  /\ Len(sorted) = Cardinality(Taken)
  /\ Topological
  /\ phase = "rejected" => queue = {} /\ Taken # Nodes
  /\ phase \in {"waves", "built"} => Taken = Nodes

IInv == TypeOK /\ SortInv /\ phase # "deadlock"

-----------------------------------------------------------------------------
\* A nonempty set of numbers has a least one.
LEMMA LeastOf ==
  ASSUME NEW T, T \subseteq Nat, T # {}
  PROVE  \E x \in T : \A y \in T : x <= y
<1>1. PICK x \in T : \A y \in T : <<y, x>> \notin OpToRel(<, Nat)
  BY WFMin, NatLessThanWellFounded, Zenon
<1>2. \A y \in T : ~ (y < x)
  BY <1>1 DEF OpToRel
<1> QED BY <1>2

\* The dependency sets of an admitted definition are finite sets of names.
LEMMA InputFacts ==
  ASSUME TypeOK
  PROVE  /\ input = [full |-> full, declared |-> declared]
         /\ full \in [Nodes -> SUBSET Names] /\ declared \in [Nodes -> SUBSET Names]
         /\ \A n \in Nodes : declared[n] \subseteq full[n]
         /\ \A n \in Nodes : IsFiniteSet(full[n])
         /\ IsFiniteSet(Nodes)
<1>1. input \in {i \in [full : [Nodes -> SUBSET Names], declared : [Nodes -> SUBSET Names]] :
                      \A n \in Nodes : i.declared[n] \subseteq i.full[n]}
  BY InputsAssumption DEF TypeOK
<1>2. /\ full \in [Nodes -> SUBSET Names] /\ declared \in [Nodes -> SUBSET Names]
      /\ \A n \in Nodes : declared[n] \subseteq full[n]
      /\ input = [full |-> full, declared |-> declared]
  BY <1>1 DEF full, declared
<1>3. \A n \in Nodes : full[n] \subseteq Names
  BY <1>2
<1>4. \A n \in Nodes : IsFiniteSet(full[n])
  BY <1>3, NodesAssumption, FS_Subset
<1>5. IsFiniteSet(Nodes)
  BY NodesAssumption, FS_Subset
<1> QED BY <1>2, <1>4, <1>5

\* Appending a node to the order adds it to the nodes taken.
LEMMA TakenAppend ==
  ASSUME sorted \in Seq(Nodes), NEW n \in Nodes, sorted' = Append(sorted, n)
  PROVE  /\ Taken' = Taken \cup {n}
         /\ Len(sorted') = Len(sorted) + 1
         /\ \A i \in 1..Len(sorted) : sorted'[i] = sorted[i]
         /\ sorted'[Len(sorted) + 1] = n
<1>1. /\ Len(sorted') = Len(sorted) + 1 /\ Len(sorted) \in Nat
      /\ \A i \in 1..Len(sorted) : sorted'[i] = sorted[i]
      /\ sorted'[Len(sorted) + 1] = n
  OBVIOUS
<1>2. Taken' \subseteq Taken \cup {n}
  BY <1>1 DEF Taken
<1>3. Taken \subseteq Taken'
  BY <1>1 DEF Taken
<1>4. n \in Taken'
  BY <1>1 DEF Taken
<1> QED BY <1>1, <1>2, <1>3, <1>4

\* The nodes taken are a finite set of nodes.
LEMMA TakenFinite ==
  ASSUME TypeOK
  PROVE  Taken \subseteq Nodes /\ IsFiniteSet(Taken)
<1>1. Taken \subseteq Nodes
  BY DEF TypeOK, Taken
<1> QED BY <1>1, InputFacts, FS_Subset

-----------------------------------------------------------------------------
\* The first pass counts the dependencies; nothing is taken yet.
LEMMA IndexStep ==
  ASSUME IInv, Index
  PROVE  IInv'
<1> USE DEF IInv
<1>1. /\ phase = "index" /\ phase' = "sort" /\ queue = {} /\ sorted = <<>> /\ sorted' = <<>>
      /\ inDegree' = [n \in Nodes |-> Cardinality(full[n])]
      /\ queue' = {n \in Nodes : inDegree'[n] = 0}
      /\ input' = input /\ waves' = waves /\ completed' = completed
  BY DEF Index, SortInv
<1>2. Taken' = {} /\ full' = full
  BY <1>1 DEF Taken, full
<1>3. \A n \in Nodes : Missing(n)' = full[n] /\ inDegree'[n] = Cardinality(full[n])
                     /\ Cardinality(full[n]) \in Nat
  BY <1>1, <1>2, InputFacts, FS_CardinalityType DEF Missing
<1>4. TypeOK'
  BY <1>1, <1>3 DEF TypeOK
<1>5. Topological' /\ Len(sorted') = 0
  BY <1>1 DEF Topological
<1>6. Cardinality(Taken') = 0
  BY <1>2, FS_EmptySet
<1>7. SortInv'
  BY <1>1, <1>2, <1>3, <1>5, <1>6 DEF SortInv
<1> QED BY <1>1, <1>4, <1>7

\* Taking a node keeps the in-degrees equal to the number of dependencies not
\* taken, and the order topological.
LEMMA TakeStep ==
  ASSUME IInv, NEW n \in Nodes, Take(n)
  PROVE  IInv'
<1> USE DEF IInv
<1>1. /\ phase = "sort" /\ phase' = "sort" /\ n \in queue
      /\ sorted' = Append(sorted, n)
      /\ inDegree' = [m \in Nodes |-> IF m \in Dependents(n) THEN inDegree[m] - 1 ELSE inDegree[m]]
      /\ queue' = (queue \ {n}) \cup {m \in Dependents(n) : inDegree'[m] = 0}
      /\ input' = input /\ waves' = waves /\ completed' = completed
  BY DEF Take
<1>2. full' = full
  BY <1>1 DEF full
<1>3. sorted \in Seq(Nodes)
  BY DEF TypeOK
<1>4. /\ Taken' = Taken \cup {n}
      /\ Len(sorted') = Len(sorted) + 1
      /\ \A i \in 1..Len(sorted) : sorted'[i] = sorted[i]
      /\ sorted'[Len(sorted) + 1] = n
  BY <1>1, <1>3, TakenAppend
<1>5. n \notin Taken
  BY <1>1 DEF SortInv
<1>6. /\ \A m \in Nodes : inDegree[m] = Cardinality(Missing(m)) /\ inDegree[m] \in Nat
      /\ \A m \in Nodes : inDegree[m] = 0 <=> m \in queue \cup Taken
  BY <1>1 DEF SortInv, TypeOK
<1>7. \A m \in Nodes : IsFiniteSet(Missing(m))
  BY InputFacts, FS_Subset DEF Missing
<1>8. full[n] \subseteq Taken
  <2>1. Cardinality(Missing(n)) = 0
    BY <1>1, <1>6
  <2>2. Missing(n) = {}
    BY <2>1, <1>7, FS_EmptySet
  <2> QED BY <2>2 DEF Missing
<1>9. ASSUME NEW m \in Nodes
      PROVE  /\ inDegree'[m] = Cardinality(Missing(m)') /\ inDegree'[m] \in Nat
             /\ m \in Dependents(n) => m \notin queue \cup Taken
             /\ m \notin Dependents(n) => inDegree'[m] = inDegree[m]
  <2>1. Missing(m)' = Missing(m) \ {n}
    BY <1>2, <1>4 DEF Missing
  <2>2. CASE m \in Dependents(n)
    <3>1. n \in Missing(m)
      BY <2>2, <1>5 DEF Dependents, Missing
    <3>2. /\ Cardinality(Missing(m) \ {n}) = Cardinality(Missing(m)) - 1
          /\ Cardinality(Missing(m) \ {n}) \in Nat
      BY <3>1, <1>7, FS_RemoveElement, FS_Subset, FS_CardinalityType
    <3>3. inDegree[m] # 0
      BY <3>2, <1>6
    <3> QED BY <2>1, <2>2, <3>2, <3>3, <1>1, <1>6
  <2>3. CASE m \notin Dependents(n)
    <3>1. Missing(m) \ {n} = Missing(m)
      BY <2>3 DEF Dependents, Missing
    <3> QED BY <2>1, <2>3, <3>1, <1>1, <1>6
  <2> QED BY <2>2, <2>3
<1>10. ASSUME NEW m \in Nodes
       PROVE  inDegree'[m] = 0 <=> m \in queue' \cup Taken'
  <2>1. CASE m \in Dependents(n)
    <3>1. m # n
      BY <2>1, <1>1, <1>9
    <3> QED BY <2>1, <3>1, <1>1, <1>4, <1>9
  <2>2. CASE m \notin Dependents(n)
    BY <2>2, <1>1, <1>4, <1>6, <1>9
  <2> QED BY <2>1, <2>2
<1>11. queue' \cap Taken' = {}
  <2>1. queue \cap Taken = {}
    BY DEF SortInv
  <2>2. n \notin Dependents(n)
    BY <1>1, <1>9
  <2>3. Dependents(n) \subseteq Nodes
    BY DEF Dependents
  <2> QED BY <1>1, <1>4, <1>9, <2>1, <2>2, <2>3
<1>12. Len(sorted') = Cardinality(Taken')
  <2>1. Cardinality(Taken \cup {n}) = Cardinality(Taken) + 1
    BY <1>5, TakenFinite, FS_AddElement
  <2> QED BY <1>4, <2>1 DEF SortInv
<1>13. Topological'
  <2>1. Len(sorted) \in Nat
    BY <1>3
  <2>2. SUFFICES ASSUME NEW i \in 1..(Len(sorted) + 1)
                 PROVE  full[sorted'[i]] \subseteq {sorted'[j] : j \in 1..(i - 1)}
    BY <1>2, <1>4 DEF Topological
  <2>3. CASE i \in 1..Len(sorted)
    <3>1. {sorted'[j] : j \in 1..(i - 1)} = {sorted[j] : j \in 1..(i - 1)}
      BY <1>4, <2>1, <2>3
    <3> QED BY <3>1, <2>3, <1>4 DEF Topological, SortInv
  <2>4. CASE i = Len(sorted) + 1
    <3>1. {sorted'[j] : j \in 1..(i - 1)} = Taken
      BY <1>4, <2>1, <2>4 DEF Taken
    <3> QED BY <3>1, <2>4, <1>4, <1>8
  <2> QED BY <2>1, <2>3, <2>4
<1>14. TypeOK'
  <2>1. inDegree' \in [Nodes -> Nat]
    BY <1>1, <1>9
  <2>2. queue' \subseteq Nodes
    BY <1>1 DEF Dependents, TypeOK
  <2> QED BY <1>1, <2>1, <2>2 DEF TypeOK
<1>15. SortInv'
  BY <1>1, <1>9, <1>10, <1>11, <1>12, <1>13 DEF SortInv
<1> QED BY <1>1, <1>14, <1>15

\* With an empty queue, as many nodes taken as there are means all of them.
LEMMA VerdictStep ==
  ASSUME IInv, Verdict
  PROVE  IInv'
<1> USE DEF IInv
<1>1. /\ phase = "sort" /\ queue = {}
      /\ phase' = IF Len(sorted) < Cardinality(Nodes) THEN "rejected" ELSE "waves"
      /\ UNCHANGED <<input, inDegree, queue, sorted, waves, completed>>
  BY DEF Verdict
<1>2. /\ Taken' = Taken /\ Topological' = Topological
      /\ \A m \in Nodes : Missing(m)' = Missing(m)
  BY <1>1 DEF Taken, Topological, Missing, full
<1>3. /\ Taken \subseteq Nodes /\ IsFiniteSet(Nodes)
      /\ Cardinality(Taken) \in Nat /\ Cardinality(Nodes) \in Nat
      /\ Cardinality(Taken) <= Cardinality(Nodes)
      /\ Cardinality(Taken) = Cardinality(Nodes) => Taken = Nodes
  BY TakenFinite, InputFacts, FS_Subset, FS_CardinalityType
<1>4. Len(sorted) = Cardinality(Taken)
  BY DEF SortInv
<1>5. phase' = "rejected" => Taken # Nodes
  BY <1>1, <1>3, <1>4
<1>6. phase' = "waves" => Taken = Nodes
  BY <1>1, <1>3, <1>4
<1>7. phase' \in {"rejected", "waves"}
  BY <1>1
<1>8. TypeOK'
  BY <1>1, <1>7 DEF TypeOK, Final
<1>9. SortInv'
  BY <1>1, <1>2, <1>5, <1>6, <1>7 DEF SortInv
<1> QED BY <1>7, <1>8, <1>9

\* The first node of the order that is in no wave can go into the next one.
LEMMA SomebodyReady ==
  ASSUME IInv, phase = "waves", completed # Nodes
  PROVE  Ready(completed) # {}
<1> DEFINE Left == {i \in 1..Len(sorted) : sorted[i] \notin completed}
<1>1. Taken = Nodes /\ Topological
  BY DEF IInv, SortInv
<1>2. completed \subseteq Nodes /\ sorted \in Seq(Nodes) /\ Len(sorted) \in Nat
  BY DEF IInv, TypeOK
<1>3. Left # {} /\ Left \subseteq Nat
  <2>1. PICK n \in Nodes : n \notin completed
    BY <1>2
  <2>2. PICK i \in 1..Len(sorted) : sorted[i] = n
    BY <1>1, <2>1 DEF Taken
  <2> QED BY <2>1, <2>2
<1>4. PICK i \in Left : \A j \in Left : i <= j
  <2> HIDE DEF Left
  <2> QED BY <1>3, LeastOf
<1>5. \A j \in 1..(i - 1) : sorted[j] \in completed
  BY <1>2, <1>4
<1>6. full[sorted[i]] \subseteq completed
  <2>1. i \in 1..Len(sorted)
    BY <1>4
  <2>2. full[sorted[i]] \subseteq {sorted[j] : j \in 1..(i - 1)}
    BY <1>1, <2>1 DEF Topological
  <2> HIDE DEF Left
  <2> QED BY <1>5, <2>2
<1>7. sorted[i] \in Nodes \ completed
  BY <1>2, <1>4
<1>8. declared[sorted[i]] \subseteq completed
  BY <1>6, <1>7, InputFacts DEF IInv
<1> QED BY <1>7, <1>8 DEF Ready

\* Building waves touches nothing of the sort and finds a ready node.
LEMMA WaveStep ==
  ASSUME IInv, NextWave \/ ReturnWaves
  PROVE  IInv'
<1> USE DEF IInv
<1>1. /\ phase = "waves" /\ phase' \in {"waves", "built"}
      /\ UNCHANGED <<input, inDegree, queue, sorted>>
      /\ completed' \subseteq Nodes /\ waves' \in Seq(SUBSET Nodes)
  <2>1. CASE NextWave
    <3>1. Ready(completed) # {}
      BY <2>1, SomebodyReady DEF NextWave
    <3>2. Ready(completed) \subseteq Nodes
      BY DEF Ready
    <3>3. waves' = Append(waves, Ready(completed)) /\ phase' = "waves"
      BY <2>1, <3>1 DEF NextWave
    <3>4. waves' \in Seq(SUBSET Nodes)
      BY <3>2, <3>3 DEF TypeOK
    <3> QED BY <2>1, <3>2, <3>3, <3>4 DEF NextWave, TypeOK
  <2>2. CASE ReturnWaves
    BY <2>2 DEF ReturnWaves, TypeOK
  <2> QED BY <2>1, <2>2
<1>2. /\ Taken' = Taken /\ Topological' = Topological
      /\ \A m \in Nodes : Missing(m)' = Missing(m)
  BY <1>1 DEF Taken, Topological, Missing, full
<1>3. TypeOK'
  BY <1>1 DEF TypeOK, Final
<1>4. SortInv'
  BY <1>1, <1>2 DEF SortInv
<1> QED BY <1>1, <1>3, <1>4

\* The invariant is inductive.
THEOREM InductiveInvariant == Spec => []IInv
<1>1. Init => IInv
  <2> SUFFICES ASSUME Init PROVE IInv
    OBVIOUS
  <2>1. Taken = {} /\ Len(sorted) = 0 /\ Topological
    BY DEF Init, Taken, Topological
  <2>2. Cardinality(Taken) = 0
    BY <2>1, FS_EmptySet
  <2> QED BY <2>1, <2>2 DEF Init, IInv, TypeOK, SortInv
<1>2. IInv /\ [Next]_vars => IInv'
  <2> SUFFICES ASSUME IInv, [Next]_vars PROVE IInv'
    OBVIOUS
  <2>1. CASE Index
    BY <2>1, IndexStep
  <2>2. CASE \E n \in Nodes : Take(n)
    BY <2>2, TakeStep
  <2>3. CASE Verdict
    BY <2>3, VerdictStep
  <2>4. CASE NextWave \/ ReturnWaves
    BY <2>4, WaveStep
  <2>5. CASE UNCHANGED vars
    <3>1. /\ Taken' = Taken /\ Topological' = Topological
          /\ \A m \in Nodes : Missing(m)' = Missing(m)
      BY <2>5 DEF vars, Taken, Topological, Missing, full
    <3> QED BY <3>1, <2>5 DEF vars, IInv, TypeOK, SortInv
  <2> QED BY <2>1, <2>2, <2>3, <2>4, <2>5 DEF Next
<1> QED BY <1>1, <1>2, PTL DEF Spec

\* Every variable keeps its type; in-degrees never become negative.
THEOREM TypeCorrect == Spec => []TypeOK
<1>1. IInv => TypeOK
  BY DEF IInv
<1> QED BY <1>1, InductiveInvariant, PTL

\* The internal error of buildExecutionWaves is unreachable, for every map.
THEOREM NeverRaised == Spec => []NeverDeadlocks
<1>1. IInv => NeverDeadlocks
  BY DEF IInv, NeverDeadlocks
<1> QED BY <1>1, InductiveInvariant, PTL

\* A topological order leaves no room for a knot.
LEMMA NoKnotInOrder ==
  ASSUME IInv, Taken = Nodes
  PROVE  ~HasKnot
<1> SUFFICES ASSUME NEW C \in SUBSET Nodes, Knot(C) PROVE FALSE
  BY DEF HasKnot
<1> DEFINE Places == {i \in 1..Len(sorted) : sorted[i] \in C}
<1>1. Topological /\ sorted \in Seq(Nodes) /\ Len(sorted) \in Nat
  BY DEF IInv, SortInv, TypeOK
<1>2. Places # {} /\ Places \subseteq Nat
  <2>1. PICK n \in Nodes : n \in C
    BY DEF Knot
  <2>2. PICK i \in 1..Len(sorted) : sorted[i] = n
    BY <2>1 DEF Taken
  <2>3. i \in Places
    BY <2>1, <2>2
  <2> QED BY <1>1, <2>3
<1>3. PICK i \in Places : \A j \in Places : i <= j
  <2> HIDE DEF Places
  <2> QED BY <1>2, LeastOf
<1>4. PICK d \in full[sorted[i]] : d \in C \/ d \notin Nodes
  BY <1>3 DEF Knot
<1>5. PICK j \in 1..(i - 1) : d = sorted[j]
  BY <1>1, <1>3, <1>4 DEF Topological
<1>6. j \in 1..Len(sorted) /\ sorted[j] \in Nodes
  BY <1>1, <1>3, <1>5
<1>7. j \in Places
  BY <1>4, <1>5, <1>6
<1> QED BY <1>1, <1>3, <1>5, <1>7

\* What is left when the queue is empty is a knot.
LEMMA LeftIsKnot ==
  ASSUME IInv, phase = "rejected"
  PROVE  HasKnot
<1> DEFINE C == Nodes \ Taken
<1>1. C # {}
  BY TakenFinite DEF IInv, SortInv
<1>2. ASSUME NEW n \in C PROVE \E d \in full[n] : d \in C \/ d \notin Nodes
  <2>1. Cardinality(Missing(n)) # 0
    BY <1>2 DEF IInv, SortInv
  <2>2. Missing(n) # {}
    BY <2>1, FS_EmptySet
  <2> QED BY <2>2 DEF Missing
<1>3. Knot(C)
  BY <1>1, <1>2 DEF Knot
<1> QED BY <1>3 DEF HasKnot

\* A definition is rejected exactly if some of its nodes wait for each other or
\* for a name that is no node.
THEOREM RejectsExactlyKnots == Spec => []VerdictExact
<1>1. IInv => VerdictExact
  <2> SUFFICES ASSUME IInv PROVE VerdictExact
    OBVIOUS
  <2>1. phase = "rejected" => HasKnot
    BY LeftIsKnot
  <2>2. phase \in {"waves", "built", "deadlock"} => Taken = Nodes
    BY DEF IInv, SortInv
  <2>3. phase \in {"waves", "built", "deadlock"} => ~HasKnot
    BY <2>2, NoKnotInOrder
  <2> QED BY <2>1, <2>3 DEF VerdictExact
<1> QED BY <1>1, InductiveInvariant, PTL

-----------------------------------------------------------------------------
\* The nodes of the waves before wave k.
Before(k) == UNION {waves[j] : j \in 1..(k - 1)}

\* Each wave is what the loop computed from the waves before it.
WaveInv ==
  /\ completed = Before(Len(waves) + 1)
  /\ \A k \in 1..Len(waves) : waves[k] # {} /\ waves[k] = Ready(Before(k))
  /\ phase = "built" => completed = Nodes

\* A wave appended to the list leaves those before it alone.
LEMMA BeforeAppend ==
  ASSUME TypeOK, NEW W, waves' = Append(waves, W)
  PROVE  /\ Len(waves) \in Nat /\ Len(waves') = Len(waves) + 1
         /\ \A j \in 1..Len(waves) : waves'[j] = waves[j]
         /\ waves'[Len(waves) + 1] = W
         /\ \A k \in 1..(Len(waves) + 1) : Before(k)' = Before(k)
         /\ Before(Len(waves) + 1)' = Before(Len(waves) + 1) \cup W
<1>1. /\ Len(waves) \in Nat /\ Len(waves') = Len(waves) + 1
      /\ \A j \in 1..Len(waves) : waves'[j] = waves[j]
      /\ waves'[Len(waves) + 1] = W
  BY DEF TypeOK
<1>2. \A k \in 1..(Len(waves) + 1) : Before(k)' = Before(k)
  <2> SUFFICES ASSUME NEW k \in 1..(Len(waves) + 1) PROVE Before(k)' = Before(k)
    OBVIOUS
  <2>1. \A j \in 1..(k - 1) : waves'[j] = waves[j]
    BY <1>1
  <2> QED BY <2>1 DEF Before
<1>3. 1..(Len(waves') + 1 - 1) = 1..(Len(waves) + 1 - 1) \cup {Len(waves) + 1}
  BY <1>1
<1>4. \A j \in 1..(Len(waves) + 1 - 1) : waves'[j] = waves[j]
  BY <1>1
<1>5. Before(Len(waves) + 1)' = Before(Len(waves) + 1) \cup W
  BY <1>1, <1>3, <1>4 DEF Before
<1> QED BY <1>1, <1>2, <1>5

\* A round of the loop adds what is ready.
LEMMA NextWaveKeepsWaves ==
  ASSUME IInv, WaveInv, NextWave, Ready(completed) # {}
  PROVE  WaveInv'
<1> DEFINE W == Ready(completed)
<1>1. /\ waves' = Append(waves, W) /\ completed' = completed \cup W
      /\ input' = input /\ phase' = "waves"
  BY DEF NextWave
<1>2. TypeOK
  BY DEF IInv
<1>3. /\ Len(waves) \in Nat /\ Len(waves') = Len(waves) + 1
      /\ \A j \in 1..Len(waves) : waves'[j] = waves[j]
      /\ waves'[Len(waves) + 1] = W
      /\ \A k \in 1..(Len(waves) + 1) : Before(k)' = Before(k)
      /\ Before(Len(waves) + 1)' = Before(Len(waves) + 1) \cup W
  <2> HIDE DEF W
  <2> QED BY <1>1, <1>2, BeforeAppend
<1>4. \A k \in 1..(Len(waves) + 1) : Ready(Before(k))' = Ready(Before(k))
  BY <1>1, <1>3 DEF Ready, declared
<1>5. completed' = Before(Len(waves) + 1)'
  BY <1>1, <1>3 DEF WaveInv
<1>6. ASSUME NEW k \in 1..Len(waves')
      PROVE  waves'[k] # {} /\ waves'[k] = Ready(Before(k))'
  <2>1. CASE k \in 1..Len(waves)
    BY <2>1, <1>3, <1>4 DEF WaveInv
  <2>2. CASE k = Len(waves) + 1
    <3>1. waves'[k] = W /\ Ready(Before(k))' = Ready(Before(k)) /\ Before(k) = completed
      BY <2>2, <1>3, <1>4 DEF WaveInv
    <3> QED BY <3>1
  <2> QED BY <2>1, <2>2, <1>3
<1> QED BY <1>1, <1>5, <1>6 DEF WaveInv

\* Steps that leave the waves alone.
LEMMA OtherStepsKeepWaves ==
  ASSUME WaveInv, input' = input, waves' = waves, completed' = completed,
         phase' = "built" => completed = Nodes
  PROVE  WaveInv'
<1>1. \A k : Before(k)' = Before(k) /\ Ready(Before(k))' = Ready(Before(k))
  BY DEF Before, Ready, declared
<1> QED BY <1>1 DEF WaveInv

\* The loop keeps WaveInv; the sort does not touch it.
LEMMA WaveInvariant == Spec => []WaveInv
<1>1. Init => WaveInv
  BY DEF Init, WaveInv, Before
<1>2. IInv /\ IInv' /\ WaveInv /\ [Next]_vars => WaveInv'
  <2> SUFFICES ASSUME IInv, IInv', WaveInv, [Next]_vars PROVE WaveInv'
    OBVIOUS
  <2>1. CASE Index
    BY <2>1, OtherStepsKeepWaves DEF Index
  <2>2. CASE Verdict
    BY <2>2, OtherStepsKeepWaves DEF Verdict
  <2>3. CASE NextWave
    <3>1. Ready(completed) # {}
      BY <2>3 DEF NextWave, IInv
    <3> QED BY <2>3, <3>1, NextWaveKeepsWaves
  <2>4. CASE ReturnWaves
    BY <2>4, OtherStepsKeepWaves DEF ReturnWaves
  <2>5. ASSUME NEW n \in Nodes, Take(n) PROVE WaveInv'
    BY <2>5, OtherStepsKeepWaves DEF Take
  <2>6. CASE UNCHANGED vars
    BY <2>6, OtherStepsKeepWaves DEF vars, WaveInv
  <2> QED BY <2>1, <2>2, <2>3, <2>4, <2>5, <2>6 DEF Next
<1> QED BY <1>1, <1>2, InductiveInvariant, PTL DEF Spec

\* Nobody is put in a wave before its dependencies are in earlier ones, and
\* nobody is put in a later wave than that demands: a node of wave k was not
\* ready for wave k - 1, so one of its dependencies is in that wave.
THEOREM WavesAreEarliest == Spec => []EarliestWave
<1>1. IInv /\ WaveInv => EarliestWave
  <2> SUFFICES ASSUME IInv, WaveInv, NEW k \in 1..Len(waves)
               PROVE  /\ waves[k] # {} /\ waves[k] \cap Before(k) = {}
                      /\ \A n \in waves[k] :
                           /\ declared[n] \subseteq Before(k)
                           /\ k > 1 => declared[n] \cap waves[k - 1] # {}
    BY DEF EarliestWave, Before
  <2>1. Len(waves) \in Nat
    BY DEF IInv, TypeOK
  <2>2. waves[k] # {} /\ waves[k] = Ready(Before(k))
    BY DEF WaveInv
  <2>3. /\ waves[k] \cap Before(k) = {}
        /\ \A n \in waves[k] : n \in Nodes /\ declared[n] \subseteq Before(k)
    BY <2>2 DEF Ready
  <2>4. ASSUME NEW n \in waves[k], k > 1
        PROVE  declared[n] \cap waves[k - 1] # {}
    <3>1. k - 1 \in 1..Len(waves) /\ 1..(k - 1) = 1..(k - 1 - 1) \cup {k - 1}
      BY <2>1, <2>4
    <3>2. Before(k) = Before(k - 1) \cup waves[k - 1]
      BY <3>1 DEF Before
    <3>3. waves[k - 1] = Ready(Before(k - 1))
      BY <3>1 DEF WaveInv
    <3>4. n \in Nodes /\ n \notin Before(k - 1) /\ n \notin Ready(Before(k - 1))
      BY <2>3, <3>2, <3>3
    <3>5. PICK d \in declared[n] : d \notin Before(k - 1)
      BY <3>4 DEF Ready
    <3> QED BY <3>2, <3>5, <2>3
  <2> QED BY <2>2, <2>3, <2>4
<1> QED BY <1>1, InductiveInvariant, WaveInvariant, PTL

\* The waves that are returned leave no node out.
THEOREM WavesHoldEveryNode == Spec => []WavesComplete
<1>1. IInv /\ WaveInv => WavesComplete
  <2> SUFFICES ASSUME IInv, WaveInv, phase = "built"
               PROVE  UNION {waves[k] : k \in 1..Len(waves)} = Nodes
    BY DEF WavesComplete
  <2>1. Len(waves) \in Nat
    BY DEF IInv, TypeOK
  <2>2. Len(waves) + 1 - 1 = Len(waves) /\ completed = Nodes
    BY <2>1 DEF WaveInv
  <2> QED BY <2>2 DEF WaveInv, Before
<1> QED BY <1>1, InductiveInvariant, WaveInvariant, PTL

-----------------------------------------------------------------------------
(* The task queue.                                                         *)

\* What a load that returned has established of the tasks in the table.
Table == {t \in Tasks : status[t] # "absent"}
NoCircle ==
  sound => \A S \in SUBSET Table : S # {} => \E t \in S : deps[t] \cap S = {}
Closed == sound => \A t \in Table : deps[t] \subseteq Table

QueueInv == QueueTypeOK /\ ReadyExact /\ HeldByAssignee /\ NoCircle /\ Closed

\* Every operation but load leaves the ids in the table and their dependencies.
SameTable == deps' = deps /\ sound' = sound /\ Table' = Table

-----------------------------------------------------------------------------
\* The empty queue.
LEMMA QueueInitInv == QueueInit => QueueInv
<1> SUFFICES ASSUME QueueInit PROVE QueueInv
  OBVIOUS
<1>1. QueueTypeOK
  BY QueueAssumption DEF QueueInit, QueueTypeOK, Statuses, Nobody
<1>2. ReadyExact
  BY DEF QueueInit, ReadyExact, Startable
<1>3. HeldByAssignee
  BY DEF QueueInit, HeldByAssignee, Nobody
<1>4. Table = {}
  BY DEF QueueInit, Table
<1>5. NoCircle /\ Closed
  BY <1>4 DEF NoCircle, Closed
<1> QED
  BY <1>1, <1>2, <1>3, <1>5 DEF QueueInv

\* Type correctness: each operation keeps the tables total and in range.
LEMMA QueueTypeStep == QueueTypeOK /\ [QueueNext]_queueVars => QueueTypeOK'
<1> SUFFICES ASSUME QueueTypeOK, [QueueNext]_queueVars PROVE QueueTypeOK'
  OBVIOUS
<1> USE QueueAssumption
<1>1. CASE UNCHANGED queueVars
  BY <1>1 DEF QueueTypeOK, queueVars
<1>2. ASSUME NEW p \in Plans, Load(p) PROVE QueueTypeOK'
  <2>1. readyTasks' \subseteq Tasks
    BY <1>2 DEF Load, Startable
  <2>2. sound' \in BOOLEAN
    BY <1>2 DEF Load, Loadable
  <2> QED
    BY <1>2, <2>1, <2>2 DEF Load, QueueTypeOK, Statuses, Nobody
<1>3. ASSUME NEW a \in Agents, Claim(a) PROVE QueueTypeOK'
  BY <1>3 DEF Claim, QueueTypeOK, Statuses
<1>4. ASSUME NEW t \in Tasks, NEW who \in Agents \cup {NoAgent}, Complete(t, who)
      PROVE  QueueTypeOK'
  <2>1. readyTasks' \subseteq Tasks
    BY <1>4 DEF Complete, Startable
  <2>2. completedTasks' \in Seq(Tasks)
    BY <1>4 DEF Complete, QueueTypeOK
  <2> QED
    BY <1>4, <2>1, <2>2 DEF Complete, QueueTypeOK, Statuses
<1>5. ASSUME NEW t \in Tasks, NEW who \in Agents \cup {NoAgent}, Block(t, who)
      PROVE  QueueTypeOK'
  <2>1. readyTasks' \subseteq Tasks
    BY <1>5 DEF Block, Startable
  <2> QED
    BY <1>5, <2>1 DEF Block, QueueTypeOK, Statuses
<1>6. ASSUME NEW t \in Tasks, Unblock(t) PROVE QueueTypeOK'
  <2>1. readyTasks' \subseteq Tasks
    BY <1>6 DEF Unblock, Startable
  <2> QED
    BY <1>6, <2>1 DEF Unblock, QueueTypeOK, Statuses
<1>7. ASSUME NEW t \in Tasks, Release(t) PROVE QueueTypeOK'
  <2>1. readyTasks' \subseteq Tasks
    BY <1>7 DEF Release, Startable
  <2> QED
    BY <1>7, <2>1 DEF Release, QueueTypeOK, Statuses
<1> QED
  BY <1>1, <1>2, <1>3, <1>4, <1>5, <1>6, <1>7 DEF QueueNext

-----------------------------------------------------------------------------
\* A claim takes a task out of the queue and makes it unstartable: the two
\* change together, and the claim completes nothing.
LEMMA ClaimStartable ==
  ASSUME QueueTypeOK, NEW t \in Tasks, status[t] = "pending"
  PROVE  Startable([status EXCEPT ![t] = "in_progress"], deps) = Startable(status, deps) \ {t}
BY DEF QueueTypeOK, Startable

\* The ready queue follows the task table through every operation.
LEMMA QueueReadyStep == QueueInv /\ [QueueNext]_queueVars => ReadyExact'
<1> SUFFICES ASSUME QueueInv, [QueueNext]_queueVars PROVE ReadyExact'
  OBVIOUS
<1> USE QueueAssumption DEF QueueInv
<1>1. CASE UNCHANGED queueVars
  BY <1>1 DEF ReadyExact, Startable, queueVars
<1>2. ASSUME NEW p \in Plans, Load(p) PROVE ReadyExact'
  BY <1>2 DEF Load, ReadyExact
<1>3. ASSUME NEW a \in Agents, Claim(a) PROVE ReadyExact'
  <2>1. PICK t \in readyTasks : /\ readyTasks' = readyTasks \ {t}
                                /\ status' = [status EXCEPT ![t] = "in_progress"]
                                /\ deps' = deps /\ sound' = sound
    BY <1>3 DEF Claim
  <2>2. t \in Tasks /\ status[t] = "pending"
    BY DEF ReadyExact, Startable
  <2>3. Startable(status', deps') = Startable(status, deps) \ {t}
    BY <2>1, <2>2, ClaimStartable
  <2> QED
    BY <2>1, <2>3 DEF ReadyExact
<1>4. ASSUME NEW t \in Tasks, NEW who \in Agents \cup {NoAgent}, Complete(t, who)
      PROVE  ReadyExact'
  BY <1>4 DEF Complete, ReadyExact
<1>5. ASSUME NEW t \in Tasks, NEW who \in Agents \cup {NoAgent}, Block(t, who)
      PROVE  ReadyExact'
  BY <1>5 DEF Block, ReadyExact
<1>6. ASSUME NEW t \in Tasks, Unblock(t) PROVE ReadyExact'
  BY <1>6 DEF Unblock, ReadyExact
<1>7. ASSUME NEW t \in Tasks, Release(t) PROVE ReadyExact'
  BY <1>7 DEF Release, ReadyExact
<1> QED
  BY <1>1, <1>2, <1>3, <1>4, <1>5, <1>6, <1>7 DEF QueueNext

-----------------------------------------------------------------------------
\* The map of tasks in progress follows the task table.
LEMMA HeldStep == QueueInv /\ [QueueNext]_queueVars => HeldByAssignee'
<1> SUFFICES ASSUME QueueInv, [QueueNext]_queueVars PROVE HeldByAssignee'
  OBVIOUS
<1> USE QueueAssumption DEF QueueInv, HeldByAssignee, QueueTypeOK
<1>1. CASE UNCHANGED queueVars
  BY <1>1 DEF queueVars
<1>2. ASSUME NEW p \in Plans, Load(p) PROVE HeldByAssignee'
  BY <1>2 DEF Load, Nobody
<1>3. ASSUME NEW a \in Agents, Claim(a) PROVE HeldByAssignee'
  BY <1>3 DEF Claim
<1>4. ASSUME NEW t \in Tasks, NEW who \in Agents \cup {NoAgent}, Complete(t, who)
      PROVE  HeldByAssignee'
  BY <1>4 DEF Complete
<1>5. ASSUME NEW t \in Tasks, NEW who \in Agents \cup {NoAgent}, Block(t, who)
      PROVE  HeldByAssignee'
  BY <1>5 DEF Block
<1>6. ASSUME NEW t \in Tasks, Unblock(t) PROVE HeldByAssignee'
  BY <1>6 DEF Unblock
<1>7. ASSUME NEW t \in Tasks, Release(t) PROVE HeldByAssignee'
  BY <1>7 DEF Release
<1> QED
  BY <1>1, <1>2, <1>3, <1>4, <1>5, <1>6, <1>7 DEF QueueNext

-----------------------------------------------------------------------------
\* Only load changes which tasks there are and what they depend on.
LEMMA TableStep ==
  ASSUME QueueInv, QueueNext, \A p \in Plans : ~Load(p) PROVE SameTable
<1> USE QueueAssumption DEF QueueInv, QueueTypeOK, SameTable, Table
<1>1. ASSUME NEW a \in Agents, Claim(a) PROVE SameTable
  BY <1>1 DEF Claim, ReadyExact, Startable
<1>2. ASSUME NEW t \in Tasks, NEW who \in Agents \cup {NoAgent}, Complete(t, who)
      PROVE  SameTable
  BY <1>2 DEF Complete, MayReport
<1>3. ASSUME NEW t \in Tasks, NEW who \in Agents \cup {NoAgent}, Block(t, who)
      PROVE  SameTable
  BY <1>3 DEF Block, MayReport
<1>4. ASSUME NEW t \in Tasks, Unblock(t) PROVE SameTable
  BY <1>4 DEF Unblock
<1>5. ASSUME NEW t \in Tasks, Release(t) PROVE SameTable
  BY <1>5 DEF Release
<1> QED
  BY <1>1, <1>2, <1>3, <1>4, <1>5 DEF QueueNext

\* What load has checked stays true of the table until the next load.
LEMMA CircleStep == QueueInv /\ [QueueNext]_queueVars => NoCircle' /\ Closed'
<1> SUFFICES ASSUME QueueInv, [QueueNext]_queueVars PROVE NoCircle' /\ Closed'
  OBVIOUS
<1>1. CASE UNCHANGED queueVars
  BY <1>1 DEF QueueInv, NoCircle, Closed, Table, queueVars
<1>2. ASSUME NEW p \in Plans, Load(p) PROVE NoCircle' /\ Closed'
  <2>1. Table' = p.tasks
    BY <1>2, QueueAssumption DEF Load, Table
  <2>2. deps' = p.deps /\ (sound' => Loadable(p))
    BY <1>2 DEF Load
  <2> QED
    BY <2>1, <2>2 DEF NoCircle, Closed, Loadable
<1>3. CASE QueueNext /\ \A p \in Plans : ~Load(p)
  <2>1. SameTable
    BY <1>3, TableStep
  <2> QED
    BY <2>1 DEF QueueInv, NoCircle, Closed, SameTable
<1> QED
  BY <1>1, <1>2, <1>3

\* The invariant is inductive.
LEMMA QueueInvStep == QueueInv /\ [QueueNext]_queueVars => QueueInv'
BY QueueTypeStep, QueueReadyStep, HeldStep, CircleStep DEF QueueInv

\* The invariant holds in every reachable state.
LEMMA QueueInvariance == QueueSpec => []QueueInv
BY QueueInitInv, QueueInvStep, PTL DEF QueueSpec

-----------------------------------------------------------------------------
\* Type correctness of the task table, its maps and its queues.
THEOREM QueueTypeCorrect == QueueSpec => []QueueTypeOK
BY QueueInvariance, PTL DEF QueueInv

\* The ready queue is exactly what may start (task-queue.ts:271-290).
THEOREM QueueIsReady == QueueSpec => []ReadyExact
BY QueueInvariance, PTL DEF QueueInv

\* A task is held exactly while in progress, by its assignee.
THEOREM HolderIsAssignee == QueueSpec => []HeldByAssignee
BY QueueInvariance, PTL DEF QueueInv

\* A task among those left that waits for none of them can be started: this
\* is where the cycle check of load is needed.
LEMMA SomeTaskCanStart == QueueInv => NoStall
<1> SUFFICES ASSUME QueueInv, sound,
                    ~(\A t \in Tasks : status[t] \in {"absent", "completed"}),
                    ~(\E t \in Tasks : status[t] \in {"in_progress", "blocked"})
             PROVE  readyTasks # {}
  BY DEF NoStall
<1> DEFINE Left == {t \in Tasks : status[t] = "pending"}
<1>1. \A t \in Tasks : t \in Left \/ status[t] \in {"absent", "completed"}
  BY DEF QueueInv, QueueTypeOK, Statuses
<1>2. Left # {} /\ Left \in SUBSET Table
  BY <1>1 DEF Table
<1>3. PICK t \in Left : deps[t] \cap Left = {}
  BY <1>2 DEF QueueInv, NoCircle
<1>4. t \in Table /\ deps[t] \subseteq Table
  BY <1>2 DEF QueueInv, Closed
<1>5. \A u \in deps[t] : status[u] = "completed"
  BY <1>1, <1>3, <1>4 DEF Table
<1>6. t \in Startable(status, deps)
  BY <1>5 DEF Startable
<1> QED
  BY <1>6 DEF QueueInv, ReadyExact

\* The queue cannot run dry while a task is left that nobody works on or
\* blocks, whatever the plan that load accepted.
THEOREM NeverStalls == QueueSpec => []NoStall
BY QueueInvariance, SomeTaskCanStart, PTL

\* Only a claim starts a task, and it takes one that may start.
LEMMA StartStep ==
  ASSUME QueueInv, [QueueNext]_queueVars,
         NEW t \in Tasks, status[t] # "in_progress", status'[t] = "in_progress"
  PROVE  \A u \in deps[t] : status[u] = "completed"
<1> USE QueueAssumption DEF QueueInv, QueueTypeOK
<1>1. CASE UNCHANGED queueVars
  BY <1>1 DEF queueVars
<1>2. ASSUME NEW p \in Plans, Load(p) PROVE FALSE
  BY <1>2 DEF Load
<1>3. ASSUME NEW a \in Agents, Claim(a) PROVE t \in readyTasks
  BY <1>3 DEF Claim
<1>4. ASSUME NEW v \in Tasks, NEW who \in Agents \cup {NoAgent}, Complete(v, who)
      PROVE  FALSE
  BY <1>4 DEF Complete
<1>5. ASSUME NEW v \in Tasks, NEW who \in Agents \cup {NoAgent}, Block(v, who)
      PROVE  FALSE
  BY <1>5 DEF Block
<1>6. ASSUME NEW v \in Tasks, Unblock(v) PROVE FALSE
  BY <1>6 DEF Unblock
<1>7. ASSUME NEW v \in Tasks, Release(v) PROVE FALSE
  BY <1>7 DEF Release
<1>8. t \in readyTasks => t \in Startable(status, deps)
  BY DEF ReadyExact
<1> QED
  BY <1>1, <1>2, <1>3, <1>4, <1>5, <1>6, <1>7, <1>8 DEF QueueNext, Startable

\* No task is started before what it depends on is completed.
THEOREM DepsFirst == QueueSpec => StartsAfterDeps
<1>1. QueueInv /\ [QueueNext]_queueVars =>
        [\A t \in Tasks : status[t] # "in_progress" /\ status'[t] = "in_progress"
           => \A u \in deps[t] : status[u] = "completed"]_queueVars
  BY StartStep
<1> QED
  BY <1>1, QueueInvariance, PTL DEF QueueSpec, StartsAfterDeps
=============================================================================
