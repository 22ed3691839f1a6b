----------------------------- MODULE JobManager -----------------------------
(***************************************************************************)
(* AsyncJobManager (async/job-manager.ts): the background jobs of a        *)
(* session, the deliveries of their results, and the two ways to hold a    *)
(* delivery back: an id is suppressed when its result has been shown (or   *)
(* somebody waits for it in the foreground), and watched while a poll      *)
(* blocks on it.  The manager is a record; one operator per method.        *)
(*                                                                         *)
(* A job is an object with a number; its id is a slot of the #jobs map and *)
(* is given out again when the job has been evicted.  A delivery belongs   *)
(* to an id and carries the text of a job.                                 *)
(***************************************************************************)
EXTENDS Naturals, FiniteSets, SequencesExt

CONSTANT MaxJobs      \* bound on the number of jobs ever registered

ASSUME MaxJobsAssumption == MaxJobs \in Nat \ {0}

Jobs == 1..MaxJobs
Ids == 1..MaxJobs     \* bg_1, bg_2, ...
None == 0

\* at[id]: the job in #jobs; job: the job objects; loop: where the delivery
\* loop is, with the delivery it sleeps or waits for.
NoJobs == [at         |-> [i \in Ids |-> None],
           last       |-> None,
           job        |-> [j \in Jobs |-> [status |-> "none", id |-> None]],
           deliveries |-> <<>>,
           flight     |-> {},
           loop       |-> [state |-> "none", of |-> None],
           suppressed |-> {},
           watched    |-> {},
           timers     |-> {}]

IsSuppressed(m, id) == id \in m.suppressed \cup m.watched
Listed(m, j) == m.at[m.job[j].id] = j
OnItsWay(m, id) == \/ \E k \in 1..Len(m.deliveries) : m.deliveries[k].id = id
                   \/ \E j \in m.flight : m.job[j].id = id
Running(m) == {j \in Jobs : m.job[j].status = "running"}
Finished(m) == {j \in Jobs : m.job[j].status = "finished"}

-----------------------------------------------------------------------------
\* #runDeliveryLoop up to its next await: suppressed heads are dropped, a head
\* that is due goes out, one that is not is slept for.
RunLoop(m) ==
  LET live == {k \in 1..Len(m.deliveries) : ~IsSuppressed(m, m.deliveries[k].id)}
      rest == IF live = {} THEN <<>>
              ELSE SubSeq(m.deliveries, Min(live), Len(m.deliveries))
  IN  IF rest = <<>>
      THEN [m EXCEPT !.deliveries = rest, !.loop = [state |-> "ending", of |-> None]]
      ELSE IF Head(rest).due
           THEN [m EXCEPT !.deliveries = Tail(rest), !.flight = @ \cup {Head(rest).of},
                          !.loop = [state |-> "delivering", of |-> Head(rest).of]]
           ELSE [m EXCEPT !.deliveries = rest,
                          !.loop = [state |-> "sleeping", of |-> Head(rest).of]]

EnsureLoop(m) == IF m.loop.state = "none" THEN RunLoop(m) ELSE m

\* Faulty: the end of the loop forgets what was queued meanwhile.
LoopEndsDeaf(m) == [m EXCEPT !.loop = [state |-> "none", of |-> None]]

\* The .finally() of the loop: it starts again if something was queued meanwhile.
LoopEnds(m) ==
  LET ended == [m EXCEPT !.loop = [state |-> "none", of |-> None]]
  IN  IF m.deliveries = <<>> THEN ended ELSE RunLoop(ended)

EnqueueDelivery(m, j) ==
  LET id == m.job[j].id
  IN  IF IsSuppressed(m, id) THEN m
      ELSE EnsureLoop([m EXCEPT !.deliveries = Append(@, [id |-> id, of |-> j, due |-> TRUE])])

ScheduleEviction(m, id) == [m EXCEPT !.timers = @ \cup {id}]

\* The retention timer of an id fires.
Evict(m, id) == [m EXCEPT !.timers = @ \ {id}, !.at[id] = None,
                          !.suppressed = @ \ {id}, !.watched = @ \ {id}]

-----------------------------------------------------------------------------
\* register(): the first free id, whatever was suppressed under it before.
Register(m) ==
  LET j  == m.last + 1
      id == Min({i \in Ids : m.at[i] = None})
  IN  [m EXCEPT !.last = j, !.at[id] = j, !.suppressed = @ \ {id},
                !.job[j] = [status |-> "running", id |-> id]]

\* The job's run function returned or threw.
Settle(m, j) ==
  LET id == m.job[j].id
  IN  IF m.job[j].status = "cancelled"
      THEN ScheduleEviction([m EXCEPT !.job[j].status = "cancelled_ended"], id)
      ELSE ScheduleEviction(EnqueueDelivery([m EXCEPT !.job[j].status = "finished"], j), id)

Cancel(m, j) == ScheduleEviction([m EXCEPT !.job[j].status = "cancelled"], m.job[j].id)

\* What is left of a queue when only the positions in K are kept.
Kept(q, K) ==
  [i \in 1..Cardinality(K) |-> q[CHOOSE k \in K : Cardinality({l \in K : l <= k}) = i]]

Acknowledge(m, ids) ==
  LET muted == [m EXCEPT !.suppressed = @ \cup ids]
      heard == {k \in DOMAIN m.deliveries : ~IsSuppressed(muted, m.deliveries[k].id)}
  IN  IF ids = {} THEN m ELSE [muted EXCEPT !.deliveries = Kept(@, heard)]

\* Faulty: the suppression is lifted, a result that came meanwhile is not queued.
ResumeSilently(m, id) == [m EXCEPT !.suppressed = @ \ {id}]

\* resumeDeliveries(): a job that finished while suppressed is queued now.
ResumeDeliveries(m, id) ==
  LET lifted == [m EXCEPT !.suppressed = @ \ {id}]
  IN  IF /\ id \in m.suppressed /\ m.at[id] # None
         /\ m.job[m.at[id]].status = "finished" /\ ~OnItsWay(m, id)
      THEN EnqueueDelivery(lifted, m.at[id])
      ELSE lifted

Watch(m, ids) == [m EXCEPT !.watched = @ \cup ids]
Unwatch(m, ids) == [m EXCEPT !.watched = @ \ ids]

-----------------------------------------------------------------------------
\* The sleep for a retry is over; the head may be another one by now.
LoopWakes(m) ==
  LET now(d) == IF d.of = m.loop.of THEN [d EXCEPT !.due = TRUE] ELSE d
  IN  RunLoop([m EXCEPT !.deliveries = [k \in DOMAIN @ |-> now(@[k])]])

\* #deliverNextFiltered(): a drain takes a delivery past the loop.
TakeOut(m, k) == [m EXCEPT !.deliveries = RemoveAt(@, k),
                           !.flight = @ \cup {m.deliveries[k].of}]

\* #deliverDelivery() is over; the loop goes on if it waited for this one.
Land(m, j) ==
  LET landed == [m EXCEPT !.flight = @ \ {j}]
  IN  IF m.loop.state = "delivering" /\ m.loop.of = j THEN RunLoop(landed)
      ELSE IF m.deliveries # <<>> THEN EnsureLoop(landed) ELSE landed

\* The same after onJobComplete threw: the delivery is queued again, for later.
Rejected(m, j) ==
  LET id == m.job[j].id
      later == [id |-> id, of |-> j, due |-> FALSE]
  IN  IF IsSuppressed(m, id) THEN Land(m, j)
      ELSE Land([m EXCEPT !.deliveries = Append(@, later)], j)
=============================================================================
