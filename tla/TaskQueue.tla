----------------------------- MODULE TaskQueue -----------------------------
(***************************************************************************)
(* The shared task queue of the stage phase (graph/task-queue.ts): tasks   *)
(* with dependencies, a queue of those that may start, and the agents that *)
(* hold one.  Stage nodes load a plan, agents claim, complete and release, *)
(* a reviewer (cross-check) blocks what it wants reworked.                 *)
(*                                                                         *)
(* The ready queue is rebuilt in alphabetical order by every operation but *)
(* claim, which takes its head; it is the set of its members here, and the *)
(* head is the member of the lowest Rank.                                  *)
(***************************************************************************)
EXTENDS Naturals, Sequences, FiniteSets

CONSTANTS Tasks,         \* every task id a plan may use
          Agents,
          NoAgent,       \* no assignee; a caller that names no agent
          Plans,         \* plans a stage may load: [tasks, deps]
          Rank,          \* the alphabetical order of the ids
          MaxCompletions \* bound on the completions recorded by a load

ASSUME QueueAssumption ==
  /\ NoAgent \notin Agents
  /\ Rank \in [Tasks -> Nat] /\ \A t, u \in Tasks : Rank[t] = Rank[u] => t = u
  /\ \A p \in Plans : p.tasks \subseteq Tasks /\ p.deps \in [Tasks -> SUBSET Tasks]
  /\ MaxCompletions \in Nat

VARIABLES status,       \* of each task; "absent" when the plan has no such task
          deps,         \* dependsOn
          assignedTo,
          readyTasks,
          holder,       \* the inProgress map: the agent, or NoAgent
          completedTasks, \* the ids in the order they were completed
          sound         \* the last load returned; it threw otherwise
queueVars == <<status, deps, assignedTo, readyTasks, holder, completedTasks, sound>>

Nobody == [t \in Tasks |-> NoAgent]

Statuses == {"absent", "pending", "in_progress", "completed", "blocked"}

\* #rebuildReadyQueue.
Startable(st, d) ==
  {t \in Tasks : st[t] = "pending" /\ \A u \in d[t] : st[u] = "completed"}

\* Faulty: the cycle check is left out.
LoadableUnchecked(p) == \A t \in p.tasks : p.deps[t] \subseteq p.tasks

\* The checks of load: dependencies exist, and Kahn's algorithm reaches every
\* task, that is, no tasks wait for each other.
Loadable(p) ==
  /\ \A t \in p.tasks : p.deps[t] \subseteq p.tasks
  /\ \A S \in SUBSET p.tasks : S # {} => \E t \in S : p.deps[t] \cap S = {}

QueueInit ==
  /\ status = [t \in Tasks |-> "absent"]
  /\ deps = [t \in Tasks |-> {}]
  /\ assignedTo = Nobody /\ holder = Nobody
  /\ readyTasks = {} /\ completedTasks = <<>> /\ sound = TRUE

-----------------------------------------------------------------------------
\* load: the tables are emptied and filled before the checks; the ready queue
\* is built after them.
Load(p) ==
  /\ status' = [t \in Tasks |-> IF t \in p.tasks THEN "pending" ELSE "absent"]
  /\ deps' = p.deps
  /\ assignedTo' = Nobody /\ holder' = Nobody
  /\ completedTasks' = <<>>
  /\ sound' = Loadable(p)
  /\ readyTasks' = IF Loadable(p) THEN Startable(status', p.deps) ELSE {}

Claim(a) ==
  \E t \in readyTasks :
    /\ \A u \in readyTasks : Rank[t] <= Rank[u]
    /\ readyTasks' = readyTasks \ {t}
    /\ status' = [status EXCEPT ![t] = "in_progress"]
    /\ assignedTo' = [assignedTo EXCEPT ![t] = a]
    /\ holder' = [holder EXCEPT ![t] = a]
    /\ UNCHANGED <<deps, completedTasks, sound>>

\* complete and block refuse an agent that is not the assignee; a caller that
\* names none is not checked, nor is the status.
MayReport(t, who) == status[t] # "absent" /\ (who = NoAgent \/ assignedTo[t] = who)

Complete(t, who) ==
  /\ MayReport(t, who) /\ Len(completedTasks) < MaxCompletions
  /\ status' = [status EXCEPT ![t] = "completed"]
  /\ holder' = [holder EXCEPT ![t] = NoAgent]
  /\ completedTasks' = Append(completedTasks, t)
  /\ readyTasks' = Startable(status', deps)
  /\ UNCHANGED <<deps, assignedTo, sound>>

Block(t, who) ==
  /\ MayReport(t, who)
  /\ status' = [status EXCEPT ![t] = "blocked"]
  /\ holder' = [holder EXCEPT ![t] = NoAgent]
  /\ readyTasks' = Startable(status', deps)
  /\ UNCHANGED <<deps, assignedTo, completedTasks, sound>>

\* Faulty: an unblocked task is queued by the next completion only.
UnblockAlone(t) ==
  /\ status[t] = "blocked"
  /\ status' = [status EXCEPT ![t] = "pending"]
  /\ UNCHANGED <<readyTasks, deps, assignedTo, holder, completedTasks, sound>>

Unblock(t) ==
  /\ status[t] = "blocked"
  /\ status' = [status EXCEPT ![t] = "pending"]
  /\ readyTasks' = Startable(status', deps)
  /\ UNCHANGED <<deps, assignedTo, holder, completedTasks, sound>>

\* Faulty: the map of tasks in progress is forgotten.
ReleaseHeld(t) ==
  /\ status[t] = "in_progress"
  /\ status' = [status EXCEPT ![t] = "pending"]
  /\ assignedTo' = [assignedTo EXCEPT ![t] = NoAgent]
  /\ readyTasks' = Startable(status', deps)
  /\ UNCHANGED <<deps, holder, completedTasks, sound>>

Release(t) ==
  /\ status[t] = "in_progress"
  /\ status' = [status EXCEPT ![t] = "pending"]
  /\ assignedTo' = [assignedTo EXCEPT ![t] = NoAgent]
  /\ holder' = [holder EXCEPT ![t] = NoAgent]
  /\ readyTasks' = Startable(status', deps)
  /\ UNCHANGED <<deps, completedTasks, sound>>

QueueNext ==
  \/ \E p \in Plans : Load(p)
  \/ \E a \in Agents : Claim(a)
  \/ \E t \in Tasks : \/ \E who \in Agents \cup {NoAgent} : Complete(t, who) \/ Block(t, who)
                      \/ Unblock(t) \/ Release(t)

QueueSpec == QueueInit /\ [][QueueNext]_queueVars

-----------------------------------------------------------------------------
QueueTypeOK ==
  /\ status \in [Tasks -> Statuses]
  /\ deps \in [Tasks -> SUBSET Tasks]
  /\ assignedTo \in [Tasks -> Agents \cup {NoAgent}]
  /\ holder \in [Tasks -> Agents \cup {NoAgent}]
  /\ readyTasks \subseteq Tasks
  /\ completedTasks \in Seq(Tasks)
  /\ sound \in BOOLEAN

\* The queue the agents are served from never lags behind the task table: a
\* task is in it exactly if it may start now.  After a load that threw it may
\* miss tasks (task-queue.ts:84-114), but holds none that may not start.
ReadyExact ==
  /\ readyTasks \subseteq Startable(status, deps)
  /\ sound => readyTasks = Startable(status, deps)

\* The map of tasks in progress and the task table agree: a task is held
\* exactly while it is in progress, and by its assignee.
HeldByAssignee ==
  \A t \in Tasks : IF status[t] = "in_progress"
                   THEN holder[t] \in Agents /\ holder[t] = assignedTo[t]
                   ELSE holder[t] = NoAgent

\* The queue cannot run dry: as long as tasks are left, one may start, is being
\* worked on, or is blocked.
NoStall ==
  sound =>
    \/ \A t \in Tasks : status[t] \in {"absent", "completed"}
    \/ readyTasks # {}
    \/ \E t \in Tasks : status[t] \in {"in_progress", "blocked"}

\* A task starts only when everything it depends on is completed, also after
\* the review of one of those took its completion back.
StartsAfterDeps ==
  [][\A t \in Tasks : status[t] # "in_progress" /\ status'[t] = "in_progress"
       => \A u \in deps[t] : status[u] = "completed"]_queueVars
=============================================================================
