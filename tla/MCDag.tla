-------------------------------- MODULE MCDag --------------------------------
(* Every full map over three nodes, self loops and cycles included, with     *)
(* some of the nodes declaring nothing themselves; and maps in which a node   *)
(* mentions an unknown name.                                                 *)
EXTENDS Dag

MCNodes == {"a", "b", "c"}
MCNames == MCNodes \cup {"missing"}
MCMaps == [MCNodes -> SUBSET MCNodes]
Only(f, S) == [n \in MCNodes |-> IF n \in S THEN f[n] ELSE {}]
MCPairs == {[full |-> f, declared |-> Only(f, S)] : f \in MCMaps, S \in SUBSET MCNodes}
MCUnknown == {[full |-> [f EXCEPT !["a"] = @ \cup {"missing"}],
               declared |-> f] : f \in MCMaps}
MCInputs == MCPairs \cup MCUnknown
=============================================================================
