----------------------------- MODULE Semaphore -----------------------------
(***************************************************************************)
(* One shared Semaphore (task/parallel.ts) and the callers that compete    *)
(* for its slots.  Two kinds of caller exist in the source and both are    *)
(* here:                                                                   *)
(*                                                                         *)
(*  - an LLM request of wrapStreamFnWithProviderConcurrency               *)
(*    (task/provider-concurrency.ts): it resizes the provider's semaphore  *)
(*    to the limit of ITS session's settings, acquires, and releases when  *)
(*    the stream has ended;                                                *)
(*  - a spawn of TaskTool (task/index.ts): both its acquire and its        *)
(*    release go through #getSpawnSemaphore(), which resizes to the        *)
(*    setting of that moment.                                              *)
(*                                                                         *)
(* Sessions with different settings share a provider semaphore and the     *)
(* user may edit task.maxConcurrency, so every resize takes any value of   *)
(* Limits.  A caller is reused for its next request after it finished.     *)
(***************************************************************************)
EXTENDS SemaphoreOps, FiniteSets

CONSTANTS Callers,   \* requests that can be outstanding at once
          Limits     \* raw values of the concurrency setting

ASSUME CallersAssumption == IsFiniteSet(Callers)
ASSUME LimitsAssumption == Limits \subseteq Int /\ Limits # {}

VARIABLES sem,    \* the semaphore
          call    \* what each caller is doing
vars == <<sem, call>>

CallStates == {"idle", "waiting", "holding"}
Holding == {c \in Callers : call[c] = "holding"}
Waiting == {c \in Callers : call[c] = "waiting"}

\* After a step of the semaphore, the callers it took off the queue hold a slot.
Wake(s, calls) ==
  [c \in Callers |-> IF calls[c] = "waiting" /\ c \notin Waiters(s)
                     THEN "holding" ELSE calls[c]]

Init == /\ \E limit \in Limits : sem = NewSemaphore(limit)
        /\ call = [c \in Callers |-> "idle"]

\* getProviderSemaphore / #getSpawnSemaphore, then acquire() with a live signal.
Request(c, limit) ==
  /\ call[c] = "idle"
  /\ sem' = Acquire(Resize(sem, limit), c)
  /\ call' = Wake(sem', [call EXCEPT ![c] = "waiting"])

\* The same with a signal that is already aborted: acquire() throws, but the
\* resize has happened.
RequestAborted(c, limit) ==
  /\ call[c] = "idle"
  /\ sem' = Resize(sem, limit)
  /\ call' = Wake(sem', call)

\* The signal of a waiter fires.
Abandon(c) ==
  /\ call[c] = "waiting"
  /\ sem' = Withdraw(sem, c)
  /\ call' = [call EXCEPT ![c] = "idle"]

\* The provider stream has ended or base() threw: release() on the semaphore.
EndStream(c) ==
  /\ call[c] = "holding"
  /\ sem' = Release(sem)
  /\ call' = Wake(sem', [call EXCEPT ![c] = "idle"])

\* The spawn has ended: #releaseSpawnSemaphore() resizes, then releases.
EndSpawn(c, limit) ==
  /\ call[c] = "holding"
  /\ sem' = Release(Resize(sem, limit))
  /\ call' = Wake(sem', [call EXCEPT ![c] = "idle"])

Next == \E c \in Callers :
          \/ Abandon(c)
          \/ EndStream(c)
          \/ \E limit \in Limits : \/ Request(c, limit)
                                   \/ RequestAborted(c, limit)
                                   \/ EndSpawn(c, limit)

Spec == Init /\ [][Next]_vars

\* A request that was sent ends: providers time out, subagents have budgets.
\* Nothing obliges a caller to send a request or to give up waiting.
FairSpec == Spec /\ \A c \in Callers : WF_vars(EndStream(c))

-----------------------------------------------------------------------------
TypeOK ==
  /\ sem \in [max : Nat, current : Nat, queue : Seq(Callers)]
  /\ call \in [Callers -> CallStates]

\* The counter is the number of callers that hold a slot: no path, in
\* particular not an abort that races a hand-over, leaks a slot or returns
\* one twice ("permanently shrinking effective concurrency", parallel.ts:111).
SlotsAreHolders == sem.current = Cardinality(Holding)

\* The queue lists every waiting caller once.
QueueIsWaiting ==
  /\ Waiters(sem) = Waiting
  /\ \A i, j \in 1..Len(sem.queue) : sem.queue[i] = sem.queue[j] => i = j

\* Nobody waits while a slot is free, whatever sequence of resizes, aborts and
\* releases led here: a waiter is only ever woken by a later release or resize.
NoIdleSlot == sem.queue # <<>> => ~HasRoom(sem)

\* Slots are handed out in the order of the requests: a waiter that gets a
\* slot leaves nobody behind who was ahead of it (acquire() has a fast path
\* that does not look at the queue, so this rests on NoIdleSlot).
ArrivalOrder ==
  [][\A i, j \in 1..Len(sem.queue) :
       i < j /\ call'[sem.queue[j]] = "holding" => call'[sem.queue[i]] # "waiting"]_vars

\* A newcomer never gets a slot in the step in which an older waiter stays.
NoOvertaking ==
  [][\A c \in Callers :
       call[c] = "idle" /\ call'[c] = "holding" => sem'.queue = <<>>]_vars

\* A waiting request is eventually served or abandoned.
EveryWaiterServed ==
  \A c \in Callers : call[c] = "waiting" ~> call[c] # "waiting"

Limiter == INSTANCE CountingLimiter
             WITH cap <- sem.max, members <- Holding

\* The semaphore implements the abstract limiter: admission never takes the
\* number of holders past the ceiling in force, including a ceiling that was
\* just lowered under holders that still drain.
ImplementsLimiter == Limiter!Spec
=============================================================================
