---------------------------- MODULE TheatreGraph ----------------------------
(***************************************************************************)
(* A validated GraphDefinition (graph/schema.ts, graph/types.ts) as data,  *)
(* and what graph/graph-engine.ts computes from it: the dependency map,    *)
(* the routing sources, the route decision of a node and the conditional   *)
(* gate.  A graph is                                                       *)
(*                                                                         *)
(*   [deps   |-> depends_on of each node,                                  *)
(*    edges  |-> set of [from, to, when],                                  *)
(*    routes |-> for each node [cases |-> <<[when, to], ...>>, default],   *)
(*    cof    |-> the nodes with continue_on_failure]                       *)
(*                                                                         *)
(* A condition is one about the success of the node it hangs on ("ok" or   *)
(* "failed", e.g. `${build}.exitCode == 0`); an edge without condition has *)
(* when = Always.  A node without routes has no cases.                     *)
(***************************************************************************)
EXTENDS Naturals, Sequences, FiniteSets

CONSTANTS Nodes,
          None     \* no default route, no selected target

Always == "always"
NoResult == "none"
Results == {"ok", "failed"}
NoRoutes == [cases |-> <<>>, default |-> None]

HasRoutes(g, n) == g.routes[n] # NoRoutes
RouteSources(g) == {n \in Nodes : HasRoutes(g, n)}

Targets(g, s) ==
  IF HasRoutes(g, s)
  THEN {g.routes[s].cases[i].to : i \in 1..Len(g.routes[s].cases)}
         \cup ({g.routes[s].default} \ {None})
  ELSE {}

\* buildDependencyMap: depends_on, route sources, edge sources.
DependencyMap(g) ==
  [n \in Nodes |-> g.deps[n] \cup {s \in Nodes : n \in Targets(g, s)}
                             \cup {e.from : e \in {x \in g.edges : x.to = n}}]

\* #usesConditionalRouting, without the explicit `strategy: dynamic`.
UsesRouting(g) == RouteSources(g) # {} \/ \E e \in g.edges : e.when # Always

\* evaluateNodeRoutes on the result of the routing node: first match wins.
Decision(g, s, result) ==
  LET cases == g.routes[s].cases
      hits == {i \in 1..Len(cases) : cases[i].when = result}
  IN  IF hits = {} THEN g.routes[s].default
      ELSE cases[CHOOSE i \in hits : \A j \in hits : i <= j].to

RoutedBy(g, n) == {s \in Nodes : n \in Targets(g, s)}
ConditionalInto(g, n) == {e \in g.edges : e.to = n /\ e.when # Always}

\* Faulty: the default target runs whatever the cases say.
GateDefaultOpen(g, n, results) ==
  \/ \E s \in RoutedBy(g, n) :
       results[s] # NoResult /\ n \in {Decision(g, s, results[s]), g.routes[s].default}
  \/ RoutedBy(g, n) = {} /\ (ConditionalInto(g, n) = {}
         \/ \E e \in ConditionalInto(g, n) : results[e.from] = e.when)

\* The gate of buildConditionalGate: a route target runs if some settled
\* source selected it; otherwise the target of conditional edges runs if one
\* of them holds; every other node runs.
Gate(g, n, results) ==
  IF RoutedBy(g, n) # {}
  THEN \E s \in RoutedBy(g, n) :
         results[s] # NoResult /\ Decision(g, s, results[s]) = n
  ELSE ConditionalInto(g, n) = {}
         \/ \E e \in ConditionalInto(g, n) : results[e.from] = e.when

\* A node whose failure does not end the run.
Tolerated(g, n) == n \in g.cof \/ n \in RouteSources(g)

-----------------------------------------------------------------------------
\* No nodes of a dependency map wait for each other: of any of them, one depends on
\* none of the others.
IsAcyclic(deps) == \A S \in (SUBSET Nodes) \ {{}} : \E n \in S : deps[n] \cap S = {}
=============================================================================
