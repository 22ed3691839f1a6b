------------------------------- MODULE DagRun -------------------------------
(***************************************************************************)
(* What running a dependency graph promises, whatever the strategy.  A     *)
(* node is waiting, running or settled; it leaves "waiting" only when all  *)
(* its dependencies have settled, and settles once.  When the process is   *)
(* restarted, what was not made durable starts over and what was durable   *)
(* is never run again.                                                     *)
(***************************************************************************)
CONSTANT Nodes
VARIABLES deps,     \* [Nodes -> SUBSET Nodes], fixed
          run,      \* [Nodes -> {"waiting", "running", "settled"}]
          durable   \* nodes whose completion is on disk

NodePhases == {"waiting", "running", "settled"}

Init == /\ deps \in [Nodes -> SUBSET Nodes]
        /\ run = [n \in Nodes |-> "waiting"]
        /\ durable = {}

\* From the phases `before`, nodes move on to the phases run'.
Advance(before) ==
  /\ run' \in [Nodes -> NodePhases]
  /\ \A n \in Nodes :
       /\ before[n] = "waiting" /\ run'[n] # "waiting" =>
            \A d \in deps[n] : run'[d] = "settled"
       /\ before[n] = "waiting" /\ run'[n] = "running" => n \notin durable
       /\ before[n] = "running" => run'[n] \in {"running", "settled"}
       /\ before[n] = "settled" => run'[n] = "settled"
  /\ UNCHANGED deps

Progress == /\ Advance(run)
            /\ durable \subseteq durable'
            /\ durable' \ durable \subseteq {n \in Nodes : run'[n] = "settled"}

\* The process is gone; a new one starts from what is durable.
Restart == /\ Advance([n \in Nodes |-> "waiting"])
           /\ UNCHANGED durable

Spec == Init /\ [][Progress \/ Restart]_<<deps, run, durable>>
=============================================================================
