---------------------------- MODULE JobDelivery -----------------------------
(***************************************************************************)
(* How the result of a background job reaches the model: the job manager   *)
(* (JobManager), onJobComplete (sdk.ts), the YieldQueue of the session and *)
(* its idle flush, the agent loop that takes asides at step boundaries,    *)
(* and the two tools that show a result themselves: `job` polls and a bash *)
(* command that is waited for before it goes to the background.            *)
(*                                                                         *)
(* One event loop; a step is the code between two awaits.  The promise of  *)
(* a job is seen by those who wait for it before any timer of minutes.     *)
(***************************************************************************)
EXTENDS JobManager

CONSTANTS Polls,        \* calls of the job tool that may be open at once
          MaxThrows     \* bound on failing deliveries

ASSUME MaxThrowsAssumption == MaxThrows \in Nat

VARIABLES m,        \* the manager, see NoJobs
          staged,   \* YieldQueue entries of kind async-result (jobs)
          flush,    \* idle flush: [pending, task: none, scheduled or cancelled]
          missed,   \* history: staged results for which no wake-up may be left
          phase,    \* the session: idle, streaming, or unwinding after the last poll
          poll,     \* the open polls: the jobs tracked ({} for none), the ids watched,
                    \* the retention timers that were armed when it began
          waiting,  \* the job a bash call waits for, or None
          timedOut, \* its wait is over, the call has still to go on
          throws,   \* failed deliveries so far
          shown     \* how each result was shown: [tool, messages]
session == <<staged, flush, missed, phase>>
tools == <<poll, waiting, timedOut>>
vars == <<m, staged, flush, missed, phase, poll, waiting, timedOut, throws, shown>>

NoPoll == [tracked |-> {}, watches |-> {}, armed |-> {}]
Unseen == [tool |-> FALSE, messages |-> 0]

Init == /\ m = NoJobs
        /\ staged = {} /\ flush = [pending |-> FALSE, task |-> "none"] /\ missed = {}
        /\ phase = "streaming"
        /\ poll = [p \in Polls |-> NoPoll] /\ waiting = None /\ timedOut = FALSE
        /\ throws = 0
        /\ shown = [j \in Jobs |-> Unseen]

Done(j) == j \in Finished(m)
IsStreaming == phase # "idle"
ShownByTool(S) == shown' = [j \in Jobs |-> IF j \in S THEN [shown[j] EXCEPT !.tool = TRUE]
                                           ELSE shown[j]]

-----------------------------------------------------------------------------
\* A tool registers a background job.
Start ==
  /\ phase = "streaming" /\ m.last < MaxJobs
  /\ m' = Register(m)
  /\ UNCHANGED <<session, tools, throws, shown>>

\* bash starts a managed job and waits for it with its delivery suppressed.
WaitInForeground ==
  /\ phase = "streaming" /\ m.last < MaxJobs /\ waiting = None
  /\ LET started == Register(m)
     IN  /\ m' = Acknowledge(started, {started.job[started.last].id})
         /\ waiting' = started.last
  /\ UNCHANGED <<session, poll, timedOut, throws, shown>>

\* It finished while waited for: the call returns the result.
ForegroundShows ==
  /\ waiting \in Finished(m) /\ ~timedOut
  /\ ShownByTool({waiting}) /\ waiting' = None
  /\ UNCHANGED <<m, session, poll, timedOut, throws>>

\* The wait is over; when the call goes on, a few microtasks later, the job may
\* have finished.
ForegroundTimesOut ==
  /\ waiting # None /\ waiting \notin Finished(m) /\ ~timedOut
  /\ timedOut' = TRUE
  /\ UNCHANGED <<m, session, poll, waiting, throws, shown>>

GoesToBackground ==
  /\ timedOut
  /\ m' = ResumeDeliveries(m, m.job[waiting].id)
  /\ waiting' = None /\ timedOut' = FALSE
  /\ UNCHANGED <<session, poll, throws, shown>>

ForegroundAborted ==
  /\ waiting # None /\ waiting \notin Finished(m) /\ ~timedOut
  /\ m' = IF waiting \in Running(m) THEN Cancel(m, waiting) ELSE m
  /\ waiting' = None
  /\ UNCHANGED <<session, poll, timedOut, throws, shown>>

\* The user or the job tool cancels a job; its process ends later.
CancelJob(j) ==
  /\ j \in Running(m) /\ Listed(m, j)
  /\ m' = Cancel(m, j)
  /\ UNCHANGED <<session, tools, throws, shown>>

JobSettles(j) ==
  /\ m.job[j].status \in {"running", "cancelled"}
  /\ m' = Settle(m, j)
  /\ UNCHANGED <<session, tools, throws, shown>>

\* The retention of five minutes outlasts the delivery of a result, polls and
\* foreground waits: while they last, only timers armed before can fire.
RetentionEnds(id) ==
  /\ id \in m.timers /\ ~OnItsWay(m, id)
  /\ \A p \in Polls : poll[p].tracked # {} => id \in poll[p].armed
  /\ waiting # None => m.job[waiting].id # id
  /\ m' = Evict(m, id)
  /\ poll' = [p \in Polls |-> [poll[p] EXCEPT !.armed = @ \ {id}]]
  /\ UNCHANGED <<session, waiting, timedOut, throws, shown>>

-----------------------------------------------------------------------------
\* The record a poll shows for a job it tracks: the one its id stands for now.
Latest(j) == IF m.at[m.job[j].id] # None THEN m.at[m.job[j].id] ELSE j
Over(j) == j \notin Running(m)
IdsOf(S) == {m.job[j].id : j \in S}

\* The job tool shows what is over and acknowledges it.
ShowAndAcknowledge(manager, S) ==
  LET over == {j \in {Latest(i) : i \in S} : Over(j)}
  IN  m' = Acknowledge(manager, IdsOf(over)) /\ ShownByTool(over)

PollStarts(p, S) ==
  /\ phase = "streaming" /\ ~timedOut /\ poll[p] = NoPoll /\ S # {}
  /\ \A j \in S : m.job[j].status # "none" /\ Listed(m, j)
  /\ LET running == S \cap Running(m)
     IN  IF running = {}
         THEN ShowAndAcknowledge(m, S) /\ UNCHANGED poll
         ELSE /\ m' = Watch(m, IdsOf(running))
              /\ poll' = [poll EXCEPT ![p] = [tracked |-> S, watches |-> IdsOf(running),
                                                 armed |-> m.timers]]
              /\ UNCHANGED shown
  /\ UNCHANGED <<session, waiting, timedOut, throws>>

\* A watched job is over, the time is up, or the call is aborted.
PollEnds(p) ==
  /\ poll[p] # NoPoll /\ ~timedOut
  /\ ShowAndAcknowledge(Unwatch(m, poll[p].watches), poll[p].tracked)
  /\ poll' = [poll EXCEPT ![p] = NoPoll]
  /\ UNCHANGED <<session, waiting, timedOut, throws>>

-----------------------------------------------------------------------------
\* Faulty: a session is woken only for the first entry that is staged.
StageFirstWakes(j) ==
  /\ staged' = staged \cup {j}
  /\ flush' = IF IsStreaming \/ flush.pending \/ staged # {} THEN flush
              ELSE [pending |-> TRUE, task |-> "scheduled"]
  /\ missed' = IF phase = "unwinding" \/ (phase = "idle" /\ flush.task = "cancelled")
               THEN missed \cup {j} ELSE missed

\* YieldQueue.enqueue: an idle session is to be woken, once.  Nothing is left to wake it
\* for what comes after the last poll of a run, or while a flush that was cancelled
\* still counts as pending.
Stage(j) ==
  /\ staged' = staged \cup {j}
  /\ flush' = IF IsStreaming \/ flush.pending THEN flush
              ELSE [pending |-> TRUE, task |-> "scheduled"]
  /\ missed' = IF phase = "unwinding" \/ (phase = "idle" /\ flush.task = "cancelled")
               THEN missed \cup {j} ELSE missed

\* onJobComplete has formatted the result: stage it unless it was shown meanwhile.
Delivered(j) ==
  /\ j \in m.flight
  /\ IF IsSuppressed(m, m.job[j].id) THEN UNCHANGED <<staged, flush, missed>> ELSE Stage(j)
  /\ m' = Land(m, j)
  /\ UNCHANGED <<phase, tools, throws, shown>>

DeliveryThrows(j) ==
  /\ j \in m.flight /\ throws < MaxThrows
  /\ m' = Rejected(m, j)
  /\ throws' = throws + 1
  /\ UNCHANGED <<session, tools, shown>>

LoopGoesOn ==
  /\ \/ m.loop.state = "sleeping" /\ m' = LoopWakes(m)
     \/ m.loop.state = "ending" /\ m' = LoopEnds(m)
  /\ UNCHANGED <<session, tools, throws, shown>>

\* A drain of one owner's deliveries (drainAsyncJobDeliveriesForAcp).
Drain(k) ==
  /\ k \in DOMAIN m.deliveries /\ ~IsSuppressed(m, m.deliveries[k].id)
  /\ m' = TakeOut(m, k)
  /\ UNCHANGED <<session, tools, throws, shown>>

-----------------------------------------------------------------------------
\* Faulty: entries are injected whether or not they have been shown.
FreshAll == staged

\* isStale: what has been shown or is being waited for is dropped.
Fresh == {j \in staged : ~IsSuppressed(m, m.job[j].id)}

Inject(S) ==
  /\ staged' = {} /\ missed' = {}
  /\ shown' = [j \in Jobs |-> IF j \in S THEN [shown[j] EXCEPT !.messages = @ + 1] ELSE shown[j]]

NoToolRuns == waiting = None /\ \A p \in Polls : poll[p] = NoPoll

\* The agent loop takes asides between two steps.
StepBoundary ==
  /\ phase = "streaming" /\ NoToolRuns
  /\ Inject(Fresh)
  /\ UNCHANGED <<m, flush, phase, tools, throws>>

\* Before it stops it takes them once more, and goes on if there are any.
LastPoll ==
  /\ phase = "streaming" /\ NoToolRuns
  /\ Inject(Fresh)
  /\ phase' = IF Fresh = {} THEN "unwinding" ELSE "streaming"
  /\ UNCHANGED <<m, flush, tools, throws>>

\* abort() cancels the post-prompt tasks, a scheduled flush with them.
FlushCancelled == IF flush.task = "scheduled" THEN [flush EXCEPT !.task = "cancelled"] ELSE flush

\* An abort, an error or a deadline ends the run without that poll.
RunAborted ==
  /\ phase = "streaming" /\ NoToolRuns
  /\ phase' = "unwinding" /\ missed' = staged
  /\ flush' \in {flush, FlushCancelled}
  /\ UNCHANGED <<m, staged, tools, throws, shown>>

AbortedIdle ==
  /\ phase # "streaming" /\ flush.task = "scheduled"
  /\ flush' = FlushCancelled /\ missed' = staged
  /\ UNCHANGED <<m, staged, phase, tools, throws, shown>>

\* The prompt has unwound: maintenance is over, isStreaming turns false.
Unwound ==
  /\ phase = "unwinding"
  /\ phase' = "idle"
  /\ UNCHANGED <<m, staged, flush, missed, tools, throws, shown>>

Prompted ==
  /\ phase = "idle"
  /\ phase' = "streaming"
  /\ UNCHANGED <<m, staged, flush, missed, tools, throws, shown>>

\* The scheduled idle flush: the fresh entries become a prompt.
IdleFlush ==
  /\ flush.task = "scheduled"
  /\ flush' = [pending |-> FALSE, task |-> "none"]
  /\ IF IsStreaming THEN UNCHANGED <<staged, missed, phase, shown>>
     ELSE Inject(Fresh) /\ phase' = IF Fresh = {} THEN "idle" ELSE "streaming"
  /\ UNCHANGED <<m, tools, throws>>

Next == \/ Start \/ WaitInForeground
        \/ ForegroundShows \/ ForegroundTimesOut \/ GoesToBackground \/ ForegroundAborted
        \/ \E j \in Jobs : CancelJob(j) \/ JobSettles(j) \/ Delivered(j) \/ DeliveryThrows(j)
        \/ \E id \in Ids : RetentionEnds(id)
        \/ \E p \in Polls : PollEnds(p) \/ \E S \in SUBSET Jobs : PollStarts(p, S)
        \/ LoopGoesOn \/ \E k \in Jobs : Drain(k)
        \/ StepBoundary \/ LastPoll \/ RunAborted \/ AbortedIdle
        \/ Unwound \/ Prompted \/ IdleFlush

Spec == Init /\ [][Next]_vars

\* Sleeps end, deliveries are formatted, timeouts end a wait, a prompt unwinds and a
\* scheduled flush runs.  An agent that runs again and again is not aborted every
\* time before it gets to a step boundary.
FairSpec == /\ Spec
            /\ WF_vars(LoopGoesOn) /\ WF_vars(Unwound) /\ WF_vars(IdleFlush)
            /\ \A j \in Jobs : WF_vars(Delivered(j))
            /\ WF_vars(ForegroundShows \/ ForegroundTimesOut \/ GoesToBackground)
            /\ \A p \in Polls : WF_vars(PollEnds(p))
            /\ SF_vars(StepBoundary)

-----------------------------------------------------------------------------
\* Its id stands for a later job by now, or was that of an earlier job that was
\* cancelled, whose process may end late and arm the retention timer of the id again.
Superseded(j) == \E k \in Jobs : k > j /\ m.job[k].id = m.job[j].id
Haunted(j) == \E k \in Jobs : /\ k < j /\ m.job[k].id = m.job[j].id
                              /\ m.job[k].status \in {"cancelled", "cancelled_ended"}

\* A result that was shown is not injected again (yield-queue.ts:6), and none is
\* injected twice, as long as the manager remembers the job: across retries,
\* drains beside the loop, polls of staged results and foreground waits.
NoEcho ==
  [][\A j \in Jobs : shown'[j].messages > shown[j].messages
                     => shown[j] = Unseen \/ ~Listed(m, j)]_vars

\* A finished result nobody has seen is still on its way: queued, in flight,
\* staged, or in the hands of a tool that will show it.
NothingLost ==
  \A j \in Jobs :
    Done(j) /\ shown[j] = Unseen /\ ~Superseded(j) /\ ~Haunted(j)
    => \/ j \in m.flight \cup staged \cup {waiting}
       \/ \E k \in DOMAIN m.deliveries : m.deliveries[k].of = j
       \/ \E p \in Polls : j \in poll[p].tracked

\* The result waits in the session, nothing runs, and nothing will wake it.
Missed(j) == j \in missed /\ phase = "idle" /\ flush.task # "scheduled"

\* "Background tasks deliver their results automatically the moment they finish"
\* (prompts/tools/job.md:3; also tools/bash.ts:341).  To an idle agent, which nobody
\* prompts, and to one that runs, if the tools of a step come to an end, every finished
\* result is shown, with one exception, against these lines: the session has lost the
\* wake-up.  That happens
\* when the result is staged after the last poll of a run or in a run that is aborted
\* (agent-session.ts:2057 looks at steers and messages only), and when abort() has
\* cancelled the idle flush: #idleFlushPending stays true (yield-queue.ts:139), and no
\* flush is ever scheduled again.  Even then the next runs of the agent show it.
ResultsArrive ==
  \A j \in Jobs :
    LET Answered == shown[j] # Unseen \/ Superseded(j) \/ Haunted(j)
    IN  /\ []<>(phase = "streaming" => NoToolRuns) => (Done(j) ~> (Answered \/ Missed(j)))
        /\ []<>(phase = "streaming" /\ NoToolRuns) => (Done(j) ~> Answered)
=============================================================================
