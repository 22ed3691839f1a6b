---------------------------- MODULE MCTaskQueue ----------------------------
(* Three tasks and two agents: a chain with a side task, two independent   *)
(* tasks, a cycle, and a plan that depends on a task it does not hold.     *)
EXTENDS TaskQueue, TLC

CONSTANTS a, b, c
MCRank == (a :> 1) @@ (b :> 2) @@ (c :> 3)
MCPlan(tasks, da, db, dc) == [tasks |-> tasks, deps |-> (a :> da) @@ (b :> db) @@ (c :> dc)]
MCPlans == {MCPlan({a, b, c}, {}, {a}, {a, b}),
            MCPlan({a, b, c}, {c}, {}, {}),
            MCPlan({a, b, c}, {b}, {a}, {}),
            MCPlan({a, b}, {}, {c}, {})}
=============================================================================
