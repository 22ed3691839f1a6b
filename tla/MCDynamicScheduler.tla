------------------------- MODULE MCDynamicScheduler -------------------------
(* Graphs of four nodes in YAML order.  Shapes: every dependency graph, a   *)
(* routing node with every choice of targets, and conditional edges.        *)
EXTENDS DynamicScheduler

MCNodes == 1..4
NoDeps == [n \in MCNodes |-> {}]
G(deps, edges, routes, cof) ==
  [deps |-> deps, edges |-> edges,
   routes |-> [n \in MCNodes |-> IF n = 1 THEN routes ELSE NoRoutes], cof |-> cof]
Route(ok, default) == [cases |-> <<[when |-> "ok", to |-> ok]>>, default |-> default]

MCDeps == {d \in [MCNodes -> SUBSET MCNodes] :
             \A n \in MCNodes : \A m \in d[n] : m < n}

\* Plain graphs in which at most one node may not fail.
Plain == {G(d, {}, NoRoutes, c) : d \in MCDeps, c \in {MCNodes, MCNodes \ {1}, MCNodes \ {2}}}
\* Node 1 routes; the other nodes may depend on each other.
Routed == {G(d, {}, Route(2, x), MCNodes) : d \in MCDeps, x \in {3, None}}
\* Node 1 has conditional edges to 2 and 3.
CondEdges == {[from |-> 1, to |-> 2, when |-> "ok"], [from |-> 1, to |-> 3, when |-> "failed"]}
Edged == {G(d, CondEdges, NoRoutes, MCNodes) : d \in {e \in MCDeps : 4 \notin e[3] /\ e[2] = {}}}
MCAllGraphs == Plain \cup Routed \cup Edged
MCAllQuick == SUBSET MCNodes

MCHardFailure == {G([NoDeps EXCEPT ![2] = {1}], {}, NoRoutes, {})}
MCNoneQuick == {{}}
=============================================================================
