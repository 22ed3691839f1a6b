----------------------------- MODULE SpawnTree -----------------------------
(***************************************************************************)
(* A tree of subagents that run under two levels of semaphores: the one    *)
(* shared provider semaphore, taken for a single LLM request at a time     *)
(* (wrapStreamFnWithProviderConcurrency), and each session's own spawn     *)
(* semaphore, held for the whole run of a child (TaskTool.#runSyncSpawns). *)
(* A parent waits for its children between its two LLM turns, so slots are *)
(* held while waiting for agents that need slots themselves.               *)
(*                                                                         *)
(* A call of the task tool ends in one of three ways: every worker has     *)
(* ended; the signal of the calling agent fires and the workers unwind; or *)
(* a worker throws, and the call rejects at once (mapWithConcurrencyLimit  *)
(* fails fast) while the other workers, whose signal it has fired, are     *)
(* still unwinding beside the parent's next turn.                          *)
(*                                                                         *)
(* provider-concurrency.ts:4-11 claims that the narrow bracket cannot      *)
(* deadlock however deep or wide the tree is; TreeFinishes is that claim.  *)
(***************************************************************************)
EXTENDS SemaphoreOps, FiniteSets

CONSTANTS Agents,         \* every agent of the tree
          Root,           \* the session the user talks to
          Children,       \* [Agents -> Seq(Agents)], items of the task call
          ProviderLimit,  \* providers.<id>.maxConcurrency
          SpawnLimit      \* task.maxConcurrency

ChildSet(a) == {Children[a][i] : i \in 1..Len(Children[a])}

\* Each item of a task call gets an agent of its own.
ASSUME TreeAssumption ==
  /\ IsFiniteSet(Agents) /\ Root \in Agents
  /\ Children \in [Agents -> Seq(Agents)]
  /\ \A a \in Agents : a # Root <=> \E p \in Agents : a \in ChildSet(p)
  /\ \A p, q \in Agents : \A i \in 1..Len(Children[p]), j \in 1..Len(Children[q]) :
       Children[p][i] = Children[q][j] => p = q /\ i = j
ASSUME LimitAssumption == ProviderLimit \in Nat \ {0} /\ SpawnLimit \in Nat \ {0}

VARIABLES provider,   \* the provider's semaphore
          spawn,      \* each session's spawn semaphore
          pc,         \* what each agent does
          turn,       \* the LLM turn an agent is in
          aborted     \* the agents whose abort signal has fired
treeVars == <<provider, spawn, pc, turn, aborted>>

\* Everybody in the sequence cs calls acquire, in that order: the first are
\* served as far as there is room and the others queue.  Nobody waits while a
\* slot is free, so this is FoldLeft(Acquire, s, cs).
AcquireAll(s, cs) ==
  LET r == [s EXCEPT !.queue = @ \o cs] IN Admit(r, Admissible(r))

ParentOf(c) == CHOOSE p \in Agents : c \in ChildSet(p)

\* The descendants of p: the signal of a worker reaches the whole tree below it.
Below(p) ==
  {d \in Agents : \A S \in SUBSET Agents :
     ChildSet(p) \cup UNION {ChildSet(x) : x \in S} \subseteq S => d \in S}

\* The agents D leave the queue of s, each by its own abort listener; the others
\* keep their order.
WithdrawAll(s, D) ==
  LET kept == {i \in 1..Len(s.queue) : s.queue[i] \notin D}
      At(k) == CHOOSE i \in kept : Cardinality({j \in kept : j <= i}) = k
  IN  [s EXCEPT !.queue = [k \in 1..Cardinality(kept) |-> @[At(k)]]]

\* The continuations of the waiters that left the queue between s and t.
Resume(phases, s, t, phase) ==
  [a \in Agents |-> IF a \in Waiters(s) \ Waiters(t) THEN phase ELSE phases[a]]

TreeInit == /\ provider = NewSemaphore(ProviderLimit)
            /\ spawn = [a \in Agents |-> NewSemaphore(SpawnLimit)]
            /\ pc = [a \in Agents |-> IF a = Root THEN "thinking" ELSE "unborn"]
            /\ turn = [a \in Agents |-> 1]
            /\ aborted = {}

\* await semaphore.acquire(options.signal) before the provider request.
RequestLLM(a) ==
  /\ pc[a] = "thinking"
  /\ IF a \in aborted
     THEN pc' = [pc EXCEPT ![a] = "finishing"] /\ UNCHANGED provider
     ELSE /\ provider' = Acquire(provider, a)
          /\ pc' = [pc EXCEPT ![a] = IF a \in Waiters(provider') THEN "llmWait"
                                     ELSE "streaming"]
  /\ UNCHANGED <<spawn, turn, aborted>>

\* stream.result().then(release, release): the slot goes back as soon as the
\* provider has finished producing, before any tool call runs.
AfterStream(a) == IF turn[a] = 1 /\ Children[a] # <<>> /\ a \notin aborted
                  THEN "tools" ELSE "finishing"

\* Faulty: the slot is kept across the tool calls (the bug of issue #3749).
StreamEndsKeepsSlot(a) ==
  /\ pc[a] = "streaming"
  /\ provider' = IF AfterStream(a) = "tools" THEN provider ELSE Release(provider)
  /\ pc' = Resume([pc EXCEPT ![a] = AfterStream(a)], provider, provider', "streaming")
  /\ UNCHANGED <<spawn, turn, aborted>>

StreamEnds(a) ==
  /\ pc[a] = "streaming"
  /\ provider' = Release(provider)
  /\ pc' = Resume([pc EXCEPT ![a] = AfterStream(a)], provider, provider', "streaming")
  /\ UNCHANGED <<spawn, turn, aborted>>

\* The task tool starts one worker per item, and every worker acquires a spawn
\* slot in the same tick.
SpawnChildren(a) ==
  /\ pc[a] = "tools"
  /\ a \notin aborted
  /\ \A c \in ChildSet(a) : pc[c] = "unborn"
  /\ spawn' = [spawn EXCEPT ![a] = AcquireAll(@, Children[a])]
  /\ pc' = [c \in Agents |->
              IF c \notin ChildSet(a) THEN pc[c]
              ELSE IF c \in Waiters(spawn'[a]) THEN "spawnWait" ELSE "thinking"]
  /\ UNCHANGED <<provider, turn, aborted>>

\* Promise.all(workers): every worker has ended without a failure of its own, and
\* the parent's next turn starts.  After an abort the workers of unborn children
\* end at once.
ChildrenDone(a) ==
  /\ pc[a] = "tools"
  /\ \A c \in ChildSet(a) : pc[c] = "done" \/ (a \in aborted /\ pc[c] = "unborn")
  /\ pc' = [pc EXCEPT ![a] = IF a \in aborted THEN "finishing" ELSE "thinking"]
  /\ turn' = [turn EXCEPT ![a] = 2]
  /\ UNCHANGED <<provider, spawn, aborted>>

\* The run is over; a child's worker returns its spawn slot in its finally.
Finish(a) ==
  /\ pc[a] = "finishing"
  /\ IF a = Root
     THEN pc' = [pc EXCEPT ![a] = "done"] /\ UNCHANGED spawn
     ELSE LET p == ParentOf(a) IN
          /\ spawn' = [spawn EXCEPT ![p] = Release(Resize(@, SpawnLimit))]
          /\ pc' = Resume([pc EXCEPT ![a] = "done"], spawn[p], spawn'[p], "thinking")
  /\ UNCHANGED <<provider, turn, aborted>>

\* What the abort of the agents D does to their phases: whoever waits stops
\* waiting, and who waited for a spawn slot ends without having had one.
Unwound(phases, D) ==
  [a \in Agents |-> CASE a \in D /\ phases[a] = "llmWait" -> "finishing"
                       [] a \in D /\ phases[a] = "spawnWait" -> "done"
                       [] OTHER -> phases[a]]

\* Faulty: the waiters of the provider stay queued after the abort.
CancelLeavesWaiters ==
  /\ Root \notin aborted /\ pc[Root] # "done"
  /\ aborted' = Agents
  /\ spawn' = [a \in Agents |-> WithdrawAll(spawn[a], Agents)]
  /\ pc' = Unwound(pc, Agents)
  /\ UNCHANGED <<provider, turn>>

\* The user aborts: the signals of all agents fire, and every waiter's listener
\* leaves its queue in the same tick.
Cancel ==
  /\ Root \notin aborted /\ pc[Root] # "done"
  /\ aborted' = Agents
  /\ provider' = WithdrawAll(provider, Agents)
  /\ spawn' = [a \in Agents |-> WithdrawAll(spawn[a], Agents)]
  /\ pc' = Unwound(pc, Agents)
  /\ UNCHANGED turn

\* Faulty: the failing worker does not fire the signal of the others.
ChildFailsAlone(c) ==
  LET p == ParentOf(c)
      freed == [spawn EXCEPT ![p] = Release(Resize(@, SpawnLimit))]
      phases == Resume([pc EXCEPT ![c] = "done"], spawn[p], freed[p], "thinking")
  IN /\ c # Root /\ pc[c] = "thinking" /\ turn[c] = 1 /\ c \notin aborted
     /\ spawn' = freed
     /\ pc' = [phases EXCEPT ![p] = "thinking"]
     /\ turn' = [turn EXCEPT ![p] = 2]
     /\ UNCHANGED <<provider, aborted>>

\* The worker of the child c throws before the child has started to run: the
\* agents cannot be discovered or the plan cannot be read.  Its finally returns
\* the slot, then the signal of all the workers fires and the call rejects
\* without waiting for them: the parent goes on with the error.  Once the signal
\* has fired, a throw only ends its own worker.
ChildFails(c) ==
  LET p == ParentOf(c)
      freed == [spawn EXCEPT ![p] = Release(Resize(@, SpawnLimit))]
      phases == Resume([pc EXCEPT ![c] = "done"], spawn[p], freed[p], "thinking")
  IN /\ c # Root /\ pc[c] = "thinking" /\ turn[c] = 1 /\ c \notin aborted
     /\ aborted' = aborted \cup Below(p)
     /\ provider' = WithdrawAll(provider, Below(p))
     /\ spawn' = [a \in Agents |-> WithdrawAll(freed[a], Below(p))]
     /\ pc' = [Unwound(phases, Below(p)) EXCEPT ![p] = "thinking"]
     /\ turn' = [turn EXCEPT ![p] = 2]

AgentStep(a) == \/ RequestLLM(a) \/ StreamEnds(a) \/ SpawnChildren(a)
                \/ ChildrenDone(a) \/ Finish(a)

Finished == pc[Root] = "done" /\ UNCHANGED treeVars

TreeNext == (\E a \in Agents : AgentStep(a) \/ ChildFails(a)) \/ Cancel \/ Finished

TreeSpec == TreeInit /\ [][TreeNext]_treeVars

\* The event loop runs every continuation, and every request ends (providers
\* time out).  Cancelling is the user's choice, and nothing has to fail.
FairTreeSpec == TreeSpec /\ \A a \in Agents : WF_treeVars(AgentStep(a))

-----------------------------------------------------------------------------
Running(a) == pc[a] \notin {"unborn", "spawnWait", "done"}

\* Both levels count exactly the agents that hold their slots, also while an
\* abort unwinds the tree: a slot lost here would throttle every later session.
SlotAccounting ==
  /\ provider.current = Cardinality({a \in Agents : pc[a] = "streaming"})
  /\ \A p \in Agents :
       spawn[p].current = Cardinality({c \in ChildSet(p) : Running(c)})

\* What a task call leaves behind is on its way out.  Below an agent that is not
\* in its task call, whoever still runs has had its signal, also after a worker
\* threw and the call rejected before the others had unwound; and an agent that
\* has had its signal waits in no queue, where it would take the slot of a live one.
NoOrphans ==
  /\ \A a \in Agents : pc[a] # "tools" =>
       \A d \in Below(a) : Running(d) \/ pc[d] = "spawnWait" => d \in aborted
  /\ \A a \in aborted : /\ pc[a] \notin {"llmWait", "spawnWait"}
                        /\ a \notin Waiters(provider)
                        /\ \A p \in Agents : a \notin Waiters(spawn[p])

\* Whatever the depth and width of the tree and however small the limits, the
\* agents do not wait for each other's slots forever (issue #3749): the root ends,
\* and so does every agent a failed call has left behind.
TreeFinishes == <>(pc[Root] = "done" /\ \A a \in Agents : ~Running(a))
=============================================================================
