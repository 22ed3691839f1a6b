# SatoPi in TLA+

SatoPi is a coding agent that runs other agents: a main conversation spawns
subagents, agents write to each other, commands run in the background, a
*theatre graph* (a DAG written in YAML) drives whole teams through phases with
checkpoints and retries, and a session can be shared live with guests. Most of
the repository is I/O: providers, tools, terminal, language servers. What is
hard to get right is the coordination, in
`packages/coding-agent/src/{graph,task,registry,irc,async,collab}` and the part
of `session/agent` that connects them. This directory models that.

All paths below are relative to `packages/coding-agent/src/`.

## Inventory

| Part | State | Operations | Interacts with | What is hard, and what makes it correct |
|---|---|---|---|---|
| Semaphore (`task/parallel.ts`) | ceiling, slots taken, FIFO of waiters | acquire, release, resize, abort of a waiter | provider streams (`task/provider-concurrency.ts`), spawns (`task/index.ts`) | abort, resize and release in any order; no slot lost, counted twice or idle while somebody waits; first come, first served |
| Spawn tree (`task/index.ts`) | one spawn semaphore per session, one provider semaphore per provider | spawn children, request, finish, cancel | Semaphore | agents hold slots while their children queue: deadlock; one child fails while its siblings run; an aborted tree must return every slot |
| Dependency maps (`graph/dag.ts`) | in-degrees, queue, waves | detectCycles, buildExecutionWaves | schema validation, wave scheduler | rejects exactly what cannot be ordered; waves complete, ordered, early |
| Graph definition (`graph/schema.ts`, `types.ts`, `condition.ts`) | the graph | dependency map, routes, conditional edges | both schedulers | edges and `depends_on` are two relations |
| Graph engine, wave scheduler (`graph/graph-engine.ts`, `graph-executor.ts`, `checkpoint.ts`) | results in memory, last checkpoint on disk | run, node returns or throws, checkpoint, resume | graph runner executes nodes; session store keeps checkpoints | crash or abort at any point, failed writes, resume; nothing durable is repeated, no dependent starts without its inputs |
| Dynamic scheduler (`graph-executor.ts`) | statuses, enqueued set, settled counter, microtasks | schedule, try to start, node returns, cascade, abort | gate for conditional edges | callbacks and microtasks interleave; every node settles once; nothing starts after an abort |
| Task queue (`graph/task-queue.ts`) | task table, ready list, map of tasks in progress, completed list | load, claim, complete, block, unblock, release | stage and cross-check behaviours | several tables that must agree after any order of reports; no plan gets stuck |
| Agent registry and lifecycle (`registry/`, registration in `sdk.ts`, finalisation in `task/executor.ts`) | refs with status and session, adopted agents with timers, parking set, revivals | register, attach, detach, unregister, adopt, park, ensureLive, release | sessions, messaging, task tool | every operation awaits a disposal or a revival in the middle; two sessions on one transcript, a session nobody can reach, a caller never answered |
| Messaging (`irc/bus.ts`, `tools/irc.ts`, `session/agent/agent-session.ts`) | mailboxes, waiters, asides of a session, auto-replies due | send, send and await, wait, inbox, broadcast, collect responses | registry, lifecycle, agent loop | a recipient that is parked, revived or aborted between send and hand-off; a full mailbox; waiting for agents that have stopped |
| Background jobs and yield queue (`async/job-manager.ts`, `session/agent/yield-queue.ts`, `tools/job.ts`, `tools/bash.ts`) | jobs, deliveries, suppressed and watched ids, retention timers; staged entries, idle flush | register, cancel, settle, acknowledge, resume, drain, poll, wait in the foreground | agent loop, sessions | a result shown by a tool and delivered as well; a result lost between loop, drain and poll; ids reused after eviction |
| Collaboration (`collab/host.ts`, `guest.ts`, `relay-client.ts`) | the host's log, writers and dialogs; the guests' replicas; the sockets' buffers | hello, welcome, snapshot chunks, live entries, dialogs, prompts, reconnect | relay, session | snapshot and live frames overlap; slow and broken sockets; a room lost and reopened |
| Graph runner and phases (`graph/graph-runner.ts`, `behaviors/`), gates (`gate-controller.ts`), region locks (`coordination/`), state tracker (`swarm/`) | | | | see *Not modelled* |

The other parts (providers, session files, tools, terminal and web UI, language
servers, launch broker, memory files, native crates, Python clients,
benchmarks) are listed with a reason in PROJECT.json under `components`.

Everything above runs on one JavaScript event loop. An action is the code
between two awaits, and concurrency is the order in which callbacks, timers,
microtasks, messages and resumed awaits run.

## Modules

    SemaphoreOps <- Semaphore        -- implements -> CountingLimiter
                 <- SpawnTree
    TheatreGraph <- GraphEngine      -- implements -> DagRun
                 <- DynamicScheduler -- implements -> DagRun
    JobManager   <- JobDelivery      manager composed with session, loop and tools
    IrcBus       <- AgentMessaging   bus composed with turns, tools and lifecycle
    Dag   TaskQueue   AgentLifecycle   CollabSession
    <module>Proofs: theorems (SemaphoreProofs: of SpawnTree too, DagProofs: of TaskQueue)    MC<module>: instances for TLC

**SemaphoreOps** has the semaphore as a record and one operator per method.
`Admit` is the loop of `resize` that wakes waiters, `Withdraw` the abort handler.
**Semaphore** adds the callers: a request resizes to its own session's limit,
acquires, streams, releases; a spawn resizes on release too. A waiter that was
admitted has still to be resumed (`Wake`), and an abort may come before that.
**CountingLimiter** is what a user may rely on: no admission exceeds the
ceiling of the moment. A lowered ceiling leaves those inside alone.

**SpawnTree** is the `task` tool: an agent makes one model request at a time
under the provider's semaphore, spawns children under its own session's
semaphore, waits for the call (`mapWithConcurrencyLimit`), and finishes. The call is over when
all workers are (`ChildrenDone`), or at once when one throws (`ChildFails`): it then fails fast
(`parallel.ts:19, 56-63, 74`), its siblings get their abort signal, and so does all that runs `Below`
them, but they unwind while the parent goes on. The whole tree may be aborted at any time. The workers of one call
acquire in one tick (`AcquireAll`, a closed form that `MCSpawnTree` compares with one `Acquire` after the other).

**Dag** is `detectCycles` and `buildExecutionWaves`, one step per loop iteration.
The input is a pair: the full map that cycle detection sees and the smaller
declared map that the waves are built from (`schema.ts` adds edges and routes,
`graph-runner.ts:167` does not).

**TheatreGraph** is the static side: dependency map, the decision of a routing
node, the gate of a node behind conditional edges, tolerated failures.
**GraphEngine** is `GraphEngine.run` with the wave scheduler. `Start(saved)` is
the recovery and the first checkpoint, `NodeReturns(n, r, saved)` the end of a
node's runner with its checkpoint (`saved` says whether the write succeeded),
`NodeThrows` an executor that throws, `WaveEnds` the end of `Promise.all`.
`Crash` and `Abort` may come at any time. The disk is the last checkpoint. The waves are built from
`depends_on` alone (`graph-runner.ts:167-171`); `Ordered` is what they make a node wait for.
**DynamicScheduler** has the microtask queue. A step is one macrotask (a node
returns) or one microtask (`Retry`). What `#tryStart` does synchronously, down to
the cascade through nodes that are answered at once, is one step.
**DagRun** is the abstract run both schedulers implement: a node runs when its
dependencies have settled, and never after its completion has become durable.

**TaskQueue** is the class of that name. `Load` fills its tables before it checks
the plan, as the code does; `sound` records whether it threw. A caller of
`complete` or `block` may name no agent, and then nothing is checked.

**AgentLifecycle** is one agent id. The ref objects, sessions and registrations
are numbered; a coroutine that awaits `dispose()` is a member of `tasks` and holds
the number it started with. `Resume` is what follows that await in `park`,
`release` and `finalizeSubagentLifecycle`. `EnsureLive`, `FactoryAnswers`,
`Reregister`, `Reattached` and `Revived` are the steps of a revival, `ReviveFails`,
`SetupFails` and `SetupFailed` the ways it ends early; `Reregister` is where
`createAgentSession` registers the parked id again, which drops its adoption.
The registry tells its listeners of a status change before anything else runs,
so `SetStatus` includes `OnStatus`.

**IrcBus** has the bus, with the registry's statuses and the hand-off to a session, as
operators on one record; `Settle` is what follows a step in its microtasks (a
failed or answered `send await` returns, a collector starts to listen or is
done). What a session holds for its next step is in two parts: the steers of its
parent, which only a step boundary takes (`steered`), and the messages of peers, which
`wait` and `inbox` take too (`asides`).
**AgentMessaging** adds the turns of the agents, the irc tool, auto-replies,
`collectResponses`, and the lifecycle of the recipients. A turn may run several
tools at once, so an agent can send while it is blocked in a wait.

**JobManager** has one operator per method of the manager. The delivery loop is a state:
sleeping for a retry, waiting for a delivery, or at its end, where something may
be queued once more. **JobDelivery** composes it with `onJobComplete`, the yield
queue and its idle flush, the step boundaries of the agent loop, polls, and a
bash command that is waited for before it goes to the background.

**CollabSession** has a host with its socket, the frames the relay brings it, and
the guests with theirs. The relay is external: it numbers peers, forwards frames
in order and tells the host who left. Snapshots come in chunks and are loaded
over an await, during which live frames queue up behind it. Loading may fail (`LoadFails`): a joining guest
then gives up, and one that has joined before only logs the error and stays connected (`guest.ts:291-296`).

Operators under a comment that begins with *Faulty* are wrong variants of the
definition below them. They are there to see that a property notices the mistake.

## Runs

| Run | Instance | What it shows |
|---|---|---|
| `semaphore` | 5 callers; limits unlimited, 1 and 2 | `SlotsAreHolders`, `NoIdleSlot`: the counter is exact and no slot idles beside a waiter; `ArrivalOrder`; `EveryWaiterServed`; `ImplementsLimiter` |
| `spawn_tree` | root, two agents, three leaves; provider limit 1, spawn limit 2 | `TreeFinishes`: no deadlock between the two levels; `SlotAccounting`, `NoOrphans`: every slot comes back, after failures and aborts too, and whoever still runs below an agent that has left its task call has had its abort signal |
| `dag` | every map of 3 nodes, cycles and unknown names included, with smaller declared maps | `VerdictExact`, `NeverDeadlocks` (the internal error is unreachable), `EarliestWave` |
| `graph_engine` | every graph of 3 nodes, with and without an edge that `depends_on` does not repeat, one tolerated failure or none, 2 runs | `ImplementsDagRun` (the order that `depends_on` gives, and no edge by itself), `UpstreamAvailable`, `FailureStops`, `CheckpointTruthful` over crash, abort, failed write and resume; `RunEnds` |
| `dynamic_scheduler` | every plain, routed and conditional graph of 4 nodes, every set of instantly answered nodes, 2 slots | `CountersExact` (what both counters number, before and after a hard failure, double settlements included), `RoutingHonoured`, `NoStartAfterAbort`, `ImplementsDagRun`; `StopsOnlyWhenDone`: in exactly which states a run at rest has returned, and in which it hangs |
| `task_queue` | chain with a side task, independent tasks, a cycle, a dangling dependency; 2 agents, 4 completions | `ReadyExact`, `HeldByAssignee`, `NoStall` over every order of reports, reloads and rejected plans |
| `agent_lifecycle` | 2 callers, 3 registrations | `OneWriter` (one undisposed session), `TimerFollowsStatus` (a resting agent has a timer exactly if it is adopted, and is adopted exactly until its first revival), `RegistryTruthful` (nothing live is out of reach), `CallersAnswered` |
| `agent_messaging` | parent and child, 2 messages, mailbox of 1, 1 park | `NothingLost`, `ShownOnce`, `NobodyWaitsInVain`, `CallsReturn`, `AsidesArrive` |
| `job_delivery` | 2 jobs, 2 polls, 1 failing delivery | `NothingLost`, `NoEcho` (what was shown is not injected again), `ResultsArrive` (idle agents included, with the one exception described below) |
| `collab_session` | a writing and a reading guest, chunks of 1, a buffer of 2; 2 entries, 1 dialog, 1 prompt, 2 connections, 2 rooms | `NoGap`, `NothingMissing` (replicas are the log, unless a frame was dropped or a snapshot failed to load), `DialogsMatch`, `RefusedWhenCutOff` |

Two runs show the code disagree with what it says of itself:

| Run | Property | What happens |
|---|---|---|
| `graph_engine_resume_twice` | `FailureStops` | the first checkpoint of a resumed run omits the recorded results (`graph-engine.ts:363`); interrupted again, the third run takes a failed node for a good one and starts its dependents |
| `dynamic_scheduler_abort` | `AbortedRunEnds` | after a hard failure, dependents that were never enqueued never settle (`graph-executor.ts:201`) and `schedule()` hangs |

**Bounds.** Five callers with limits up to two leave three waiters, enough for every
order of abort, wake and resize. Three nodes make every shape of two and three
waves; the fourth in the dynamic scheduler allows a routing node, two alternatives
and a join. Two runs of the engine are one interruption and one resume; the finding
needs three, hence its `MaxStarts = 3`. Three registrations are a spawn and two
revivals; the code allows the second only if `release` came during the first, since a revived agent is otherwise not adopted and
never parked. Two jobs are the least in which
an id is reused while the old job's delivery or timer is under way, two polls the least in
which they overlap. Two messages and a mailbox of one (`MAILBOX_CAP` is 100) make it
overflow; the safety properties have also been checked with three. Two entries in chunks
of one make a snapshot with a chunk before and after a live entry; a
buffer of two frames (`MAX_PENDING_SENDS` is 256) overflows; two connections and two rooms are a
reconnect and a room lost. The caps (`MaxRegs`, `MaxStarts`, `MaxJobs`, `MaxThrows`,
`MaxMessages`, `MaxParks`, `MaxCompletions`, and the five of CollabSession) are in the
guards of the actions that count. Besides, an agent is spawned or found on disk once
and released once.

**Deadlock** is checked for the semaphore, the spawn tree and the task queue. Elsewhere
`CHECK_DEADLOCK FALSE` is set because the program may stop: a graph run ends or hangs, an
agent is gone, a definition is rejected or ordered, the bounds on messages, jobs and
connections are used up.

**Fairness.** No fairness is assumed of users, models, aborts, crashes, parks, polls
that are opened or connections.

| Model | Fairness | Why |
|---|---|---|
| Semaphore | WF of the end of a stream | providers have time limits |
| SpawnTree | WF of each agent's step | the event loop runs every continuation; requests end |
| GraphEngine | WF of `WaveEnds` and of each node's answer | the runner polls a node with a deadline |
| DynamicScheduler | WF of `Schedule`, `Retry` and each node's return | microtasks run; a return is possible only when the event loop gets to I/O |
| AgentLifecycle | WF of disposals and of the steps of a revival | `dispose()` is bounded (`untilAborted`), opening a transcript is I/O that ends |
| JobDelivery | WF of the loop, of deliveries, foreground waits and poll ends, of `Unwound` and `IdleFlush`; SF of `StepBoundary` | timers and callbacks that are scheduled; an aborted run unwinds; an agent that runs again and again is not aborted each time before its first step |
| AgentMessaging | WF of timeouts, parks and revivals; SF of each agent's `StepBoundary` | timers; between two batches of tools there is always a boundary, so a turn gets to it |

Dag, TaskQueue and CollabSession have safety properties only: nothing in the code obliges a
caller, a guest or a network to go on.

Every property has at least one faulty variant of a definition that TLC shows to
violate it (`mutants` in PROJECT.json).

## Proofs

The theorems hold for every value of the constants, under the assumptions named in
the modules (`ASSUME`), which TLC evaluates on the instances. Leaves that are left
to Zenon and take it more than a second or two give it a longer limit (`ZenonT`), so that
a slow machine does not lose them.

**SemaphoreProofs** (any callers, any limits). The invariant: the holders are exactly
the callers in a holding state and number the counter, the queue holds each waiting
caller once, and nobody waits while there is room. The last part needs the first
two: a release that hands its slot over keeps the count, and a resize stops admitting exactly
when room or queue is used up. Theorems: `TypeCorrect`, `SlotsNeverLeak`, `QueueFaithful`,
`NoLostWakeup`. From it follow `RefinesLimiter` (each method serves nobody or leaves the
counter within the ceiling, so the two methods of one step do too), `ServedInOrder` (each
method serves a prefix of the queue, and two prefixes in a row are a prefix) and
`FastPathIsFair`.

The second half of the module is about SpawnTree (any tree, any limits); both rest on what `Admit` takes
off a queue (`AdmitTakesFirst`). A semaphore is `Exact` for its holders and its waiters when the counter is the
number of the ones, the queue holds the others once each, and nobody is both; every operator keeps that
with the sets it should. The phases of the agents give these sets at each level. An abort takes a whole set of
agents out of a queue at once; that what remains keeps its order is `WithdrawAllExact`. Since a call may be over before its children are,
what is inductive is not that children under way have a parent inside its call, but that they have or have had their signal
(`ParentsInCall`), and that a signal reaches everything below the agent it fires from and takes it off every queue (`SignalsReach`). Theorems: `TreeInvariant`, `SlotsExact`, `NobodyOrphaned`.

**DagProofs** (any finite set of names, any map). The in-degree of a node is the
number of its dependencies not yet sorted, and the queue is the set of unsorted nodes of
degree zero. When the queue is empty, either all is sorted or the unsorted nodes
each wait for another of them or for an unknown name: a *knot*. No knot can ever
lose its first member, so what is sorted is ordered. A wave is empty only if the
rest is a knot of the declared map, hence of the full one. Theorems: `TypeCorrect`,
`RejectsExactlyKnots`, `NeverRaised`, and by `WaveInv` (each wave is what the loop
computed from those before it) `WavesAreEarliest` and `WavesHoldEveryNode`.

The second half of the module is about TaskQueue (any tasks, agents and plans). `QueueTypeCorrect`, `QueueIsReady` and `HolderIsAssignee` are
inductive with the types. `NeverStalls` needs that the plan in force has no circle (`NoCircle`)
and mentions only its own tasks (`Closed`), which a load that returned establishes and nothing else
touches: the pending tasks, if none may start, would each wait for another of them. `DepsFirst` is the
action property that a task is claimed only when everything it depends on is complete.

**AgentLifecycleProofs** (any callers, any number of registrations). `OneWriter` is not
inductive: `Reattached`, the step that brings a second session to life, consults nothing.
It is safe because a revive begins only where the registry shows no session, because the
registry shows a session until its disposal has ended (`LastActive`), because nothing but
the revive registers the id again meanwhile (`RevivedAlone`), and because no park or isolated
end that would detach a later session is then under way (`OneDetaches`). Theorems:
`LifecycleInvariant`, `OneWriterAlways`. The other two properties rest on a second invariant,
`Seen`, inductive once the first is known. Before a release at most one coroutine is under way, of
the newest session, and it knows what became of the registration while it awaited the disposal (`OneTask`); an agent
is forgotten only together with all its sessions (`Reachable`); the timer runs only for an
idle agent, and never while a park is under way (`TimerArmed`), it does run while an adopted agent rests
(`TimerRests`), and before a release an agent that was revived is not adopted, so not parked nor revived again (`FirstOwned`). Theorems: `SeenAlways`, `TimerFollowsStatusAlways`, `RegistryIsTruthful`.

**GraphEngineProofs** (any finite set of nodes, any graphs, any number of runs). That the
recursive function of the waves has a value at all is an induction, done by a least counterexample
(`Smallest`, `GrowthExists`); then each wave is what the one before allows (`WaveFacts`). The
invariant: the process knows at least what the disk says, both only repeat what nodes
returned, and the settled and running nodes are those of the waves begun. Theorems:
`EngineInvariant`, `CheckpointsAreTruthful`, and `EngineRefinesDagRun`, on every validated graph without
routing, edges included. The order it states is `Ordered`: a node waits for its `depends_on`, and for the source of an edge only where
that is in an earlier wave anyway. It rests on `WaveWaits` (a wave holds only nodes whose waits are in the waves
before) and `DoneGrows`. `FailureStops` and
`UpstreamAvailable` do not hold for every number of runs: the code breaks them in the third, as the
finding shows. What holds, for graphs of any size, is `UpstreamAvailableForOneResume` and
`FailureStopsForOneResume`: while `starts <= 2`, which is a run and its first resume. The first run
records every result, the second begins with them although the disk has lost them again
(`Remembered`), and no hard failure is behind the wave that runs (`Passed`).

**DynamicSchedulerProofs** (any finite set of nodes, any validated graphs, any slot limit, any set
of quick nodes). One step of this model is a callback that changes the local variables of `schedule()` in several
calls, so the invariant is stated of a record of these variables (`Sound`): it also holds
between the calls, up to one settlement that is owed and one node that is in no queue yet. One
lemma per call shows that it keeps `Sound`; the loops are recursive functions, whose
rounds exist by a least counterexample (`Climb`, `LoopExists`). Skipping a node is final because the gate of an
enqueued node no longer changes (`GateStable`). The last part gives a reason for each node that is not
enqueued: something it depends on is pending, running or skipped (`HeldBack`). As the full map has no cycle
(`GraphsAssumption`, which validation establishes), the reasons end somewhere, so a scheduler that rests
without having failed hard has either returned or left a ready node stranded behind a skipped one. After a hard failure the counter runs ahead by the
nodes settled twice, which `Sound` tracks by what is left of the retry queue. Theorems: `SchedulerInvariant`, `CountersAreExact`,
`RoutesAreHonoured`, `NoNodeIsForgotten`, `SchedulerRefinesDagRun`, and `NothingStartsAfterAbort`, an
action property. With that every safety property of the two schedulers is proved.

**CollabSessionProofs** (any guests and writers, any chunk and buffer size, any number of entries,
dialogs, prompts, connections and rooms). Neither `NoGap` nor `NothingMissing` says anything of the frames on their way,
and everything depends on those. The proof follows one guest's *stream*: its inbox and, behind it, what the
host's buffer holds for it. A *mark* is what a guest has been told (welcomed or not, the length of the log it
was promised, how much of the snapshot it has, which dialogs are open). A frame `Fits` a mark and leads to
the one `After` it, and `Leads` chains these steps along a sequence. `InSync`: each guest in the room that the
host has not given up `Agrees` with some mark, and its stream leads from there to a mark that has
`Caught` up with the host, or that knows nothing while the guest's hello is still in the queue. So a host step has to
show that what it sends leads on from what it had to what it has now (`Follows`; a hello's answer leads from
nothing to everything, `ChunksLead` and `PendingLead`), wherever the socket puts the frames (`SendDelivers`); a
guest step takes one frame off the path (`LeadsTail`, `AppliedSteps`). `Main`, the inductive invariant, adds what
this needs: peers have numbers of their own and leave when the relay says so (`Peers`), no frame is of a
connection or a dialog still to come (`NoFuture`; otherwise a snapshot of an old connection could pass for one of
the new), guests say truthfully who they are (`HonestGuests`), a prompt that was not late stands behind a hello
(`Introduced`, which makes `RefusedWhenCutOff` inductive), and the buffer is empty behind a quick socket
(`Socket`; otherwise a frame could overtake). `CollabAssumption` and `NoneAssumption` (no snapshot, and no
connection, is the model value for none) are all that is assumed. Theorems: `CollabInvariant`, `NoGapHolds`,
`DialogsMatchHolds`, `RefusedWhenCutOffHolds`, `NothingMissingHolds`.

**AgentMessagingProofs** (any finite set of agents, any mailbox cap, any number of messages). A step of the bus is a chain
of calls: a send resolves a waiter, that ends a call, a call that ends frees a collector, a session that wakes or rests
ends the waits of others. The properties say nothing of the points in between, so the invariant is stated of
the record of the whole bus, with the set `R` of the messages that have a number and are not yet sent:
`Whole(n, R)`. In it the receipt of a message says where the message is, and what is held has not been shown
(`Placed`); it is in one queue, once (`Single`); it has its receipt as soon as it is out of `R` (`Counted`), and what the
receipt promises is kept (`Promised`). An agent's tool call has one waiter at most, which is there only while the
call is open (`Calling`); messages await a revival of parked agents only, a running agent has its session and a
parked or aborted one has none (`Living`). `Settled` holds
besides when the microtasks of a step are done: no reply is between its waiter and its call. It is needed for
`NothingLost`: a call has room for one reply, and a second one would overwrite it. What rules that out is that a
waiter leaves its list as it is resolved, and that the call is open only as long as its waiter is there.
One lemma per call of the bus says what it does to `Whole`; `SendKeeps` takes a message out of `R`, and
`SendEach`, a recursive function whose rounds exist by a least counterexample (`EachRound`), empties it.
`SettleKeeps` restores `Settled`. The filters of the code (which waiter fits, what a `wait` takes, who withdraws) are described
by the position they select, which is why a call's waiter is removed by position (`Withdraw`). `BusAssumption`
is all that is assumed; the registry's agents are finitely many because it is a map in memory. Theorems:
`MessagingInvariant`, `NothingLostHolds`, `ShownOnceHolds`, `NobodyWaitsInVainHolds`.

**JobDeliveryProofs** (any number of jobs, polls and failing deliveries). The manager knows a result by the id of
its job only, ids are given out again, and suppression hangs on ids too. So the invariant first ties ids to
jobs: an id stands for the last job that got it (`Registered`), and is given up only when its
job has ended and the result has gone out, unless a job of that id was cancelled, whose process may end at any
later time and arm the retention timer once more (`Retained`, `Placed`). On these books rest the two halves. `NoEcho`: a
result is in one place at most, and in none once the model was told it (`InOnePlace`); what a tool has shown stays
suppressed while the id stands for it (`Silenced`). `NothingLost` needs the converse: an id is suppressed only
because a tool waits for the job it stands for or has shown it (`Justified`), or because an open poll tracks it
(`Watching`); so whatever drops a suppressed result drops one that is accounted for (`Accounted`).
Each operator of the manager `Carries` the results on: it loses none that is not suppressed, repeats none, and leaves the
records alone. For that, what filtering and removal leave of a queue is described by its positions (`PickedFrom`,
`KeptFacts`), which is why `Acknowledge` filters by a set of positions. The assumption that the
retention of minutes outlasts deliveries, polls and waits is in the guard of `RetentionEnds`. Theorems:
`DeliveryInvariant`, `NothingLostHolds`, `NoEchoHolds`.

With that every invariant and action property the runs check is proved, except the two of GraphEngine that hold up to
the first resume only, which are proved as far as that.

Only model-checked: every liveness property (`EveryWaiterServed`, `TreeFinishes`, `RunEnds`, `CallersAnswered`,
`ResultsArrive`, `CallsReturn`, `AsidesArrive`), as liveness under fairness and `ENABLED` are out of the
prover's reach. On the way there are inductions over data (the rounds of a loop, the messages of a broadcast), which the
provers do not do either; the proofs replace each by a least counterexample.

## Known weaknesses without a run of their own

The models contain all of these, and the properties state them as the exact exceptions they are. For some of them a
comment, a prompt or a document of the repository says otherwise; it is then quoted here and at the property.

Against what the repository says:

* A node the dynamic scheduler skips settles "so the master wait can complete" (`graph-executor.ts:314-315`), but
  nothing cascades from it: a dependent that became ready by the skip is never asked to start, and the wait does not
  complete. `StopsOnlyWhenDone` says that a run without a hard failure hangs exactly then.
* `done` should be "resolved when settledCount === totalCount" (`graph-executor.ts:175`). After a hard failure `onAbort` settles a node
  that waits for a slot (201-206) and its queued retry settles it again (308-311), so the counter runs ahead, and `schedule()` may
  throw while other nodes still run. `CountersExact` counts the second settlements.
* "Edge from -> to means `to` depends on `from`" (`graph/schema.ts:439`; also 402). Cycle detection and the dynamic strategy read edges
  so; the wave strategy builds its waves from `depends_on` alone (`graph-runner.ts:167-171`), and `to` may start beside `from` or
  before it. `ImplementsDagRun` of GraphEngine states what order is left (`Ordered`).
* A revived agent has lost its adoption, because the registration of its session unregisters the parked entry
  (`agent-registry.ts:114`). Its return to idle does not re-arm the timer, as `agent-lifecycle.ts:249` says, it does not rejoin "the
  normal idle-parked lifecycle" (184-186), and it does not stay adopted (`executor.ts:2055-2057`): it is never parked again.
  `TimerFollowsStatus` says exactly when an agent is adopted.
* "Background tasks deliver their results automatically the moment they finish. You NEVER need to poll" (`prompts/tools/job.md:3`;
  also `tools/bash.ts:341` and line 117 of the repository's `docs/tools/bash.md`). A result staged after a run's last poll or while a run unwinds, or whose idle flush
  `abort()` has cancelled (`#idleFlushPending` stays true, `yield-queue.ts:139`), waits for the next run, which may never come
  (`agent-session.ts:2057-2074`). `ResultsArrive` says that an idle agent is told every result but these (`Missed`), and that its
  next runs are told these too.
* A welcome "(re)syncs the replica" (`guest.ts:243-246`). A guest that has joined and cannot load a later snapshot stays connected,
  is not welcomed, and drops every live frame (`guest.ts:291-296`, `398-431`) until it reconnects. `NothingMissing` names it (`failed`).
* `peek` lists messages "without consuming them" (`tools/irc.ts:60`; line 29 of the repository's `docs/tools/irc.md`). It leaves the mailbox
  alone but takes the asides of the session. `ShownOnce` and `NothingLost` hold nevertheless: the caller is shown what it takes.

Not denied anywhere we have read:

* A node without a slot retries as a microtask without end, ahead of the I/O that would free one (`graph-executor.ts:324`).
* `release` ignores a revival in flight. `ensureLive` may hand out a session that is being disposed of.
* A cancelled job that ends late arms the eviction of an id that may belong to another job by then (`job-manager.ts:517`; `Haunted`), so
  what `NothingLost` says of results excludes an id that a cancelled job has had, and one that went to a later job.
* `collectResponses` registers its waiters after its sends (`bus.ts:108`); a reply that is faster goes to the
  session and the collector waits for its timeout.
* `TaskQueue.load` throws after it has replaced the tables (`task-queue.ts:84`); `block` of a completed task
  leaves its id in the completed list, and a completion reported twice is listed twice.
* The host drops frames when its buffer is full (`relay-client.ts:109`, documented in line 22); the guest keeps the gap until it
  reconnects, and `NoGap` excludes it (`lost` in CollabSession). What a guest writes while disconnected is sent before its hello and
  refused as read-only (`RefusedWhenCutOff` allows exactly that). The `bye` of a stopping host is dropped,
  because the socket is closed in the same tick (`host.ts:292`).

## Not modelled, and abstractions to know of

* The greater part of the repository is generated protocol code, wire formats, rendering
  and adapters to the operating system: it has no protocol of its own to check.
* *Graph runner*: a sequence around one engine run. `pauseStage` and `resumeGraphRun` guard against
  nothing (a paused run goes on to the curtain; the stored status is always `running`, `graph-runner.ts:776,788`,
  so that the test in line 788, which should refuse a run that is not resumable, never does); GraphEngine assumes one engine at a time. *Gates* are a counted
  loop inside a node, and nobody calls `resolveHumanGate`. *Region locks* are used by tests only. The
  *state tracker* is display. `StageBehavior` never claims a task (`stage-behavior.ts:427`);
  TaskQueue is checked for any callers.
* A node of a graph is anything that returns success, failure or an exception. The decision of a routing node depends on
  its own result; the code evaluates its conditions over all results so far (`graph-engine.ts:234-246`).
* AgentLifecycle: a disposal ends before the idle timer and the five-second limit of the executor fire; an agent
  that was released is not found on disk again; profile agents (`graph/agent-helpers.ts`), which
  register a live session a second time, are left out; a message that wakes a turn between the end of a run
  and its finalisation is not told apart from the run.
* JobDelivery: the retention of five minutes outlasts deliveries, polls and foreground waits; `dispose()` at shutdown,
  progress updates and a failing `injectIdle` are left out. `ForegroundAborted` takes the end of an aborted foreground wait and
  the cancellation of its job as one step (`tools/bash.ts:681-697, 888-890`).
* AgentMessaging: the timeout of the irc tool is positive; relays to the screen and advisors are left out, and so is what plan mode does
  with a message (`agent-session.ts:2088-2102`); the early return of the drain while an abort is in progress (2059) is not told
  apart from the abort itself.
* CollabSession: state, event, bus and agent frames, transcripts, agent commands, abort and key
  handling are left out, and a snapshot that is still being loaded after its guest has left.
