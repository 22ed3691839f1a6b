--------------------------- MODULE MCGraphEngine ---------------------------
(* Every graph of up to three nodes, where the failure of one node may be  *)
(* tolerated: up to renaming, dependencies and edges point from smaller to *)
(* larger numbers, and a pair is in depends_on, an edge only, or neither.  *)
EXTENDS GraphEngine

MCNodes == 1..3
MCDeps == {d \in [MCNodes -> SUBSET MCNodes] :
             \A n \in MCNodes : \A m \in d[n] : m < n}
MCEdges(d) == {e \in [from : MCNodes, to : MCNodes, when : {Always}] :
                 e.from < e.to /\ e.from \notin d[e.to]}
MCGraph(deps, edges, cof) ==
  [deps |-> deps, edges |-> edges,
   routes |-> [n \in MCNodes |-> NoRoutes], cof |-> cof]
MCGraphs ==
  UNION {{MCGraph(d, {}, c) : c \in {{}, {1}, {2}}}
           \cup {MCGraph(d, es, {1}) : es \in SUBSET MCEdges(d)} : d \in MCDeps}
=============================================================================
