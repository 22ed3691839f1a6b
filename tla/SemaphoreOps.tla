---------------------------- MODULE SemaphoreOps ----------------------------
(***************************************************************************)
(* The counting semaphore of task/parallel.ts as operators on a value      *)
(*                                                                         *)
(*     [max |-> ceiling, current |-> slots taken, queue |-> waiters]       *)
(*                                                                         *)
(* Every operator is one synchronous method (or one listener) of the class *)
(* Semaphore: nothing can run between its lines, so each is one step of    *)
(* the modules that use it.  A waiter is admitted by being taken off the   *)
(* queue while its slot is counted; its promise continuation runs later.   *)
(*                                                                         *)
(* The source's POSITIVE_INFINITY ceiling is Unlimited, the value 0 that   *)
(* normalizeConcurrencyLimit itself uses for it.                           *)
(***************************************************************************)
EXTENDS Integers, Sequences

Unlimited == 0

Normalize(limit) == IF limit > 0 THEN limit ELSE Unlimited

NewSemaphore(limit) == [max |-> Normalize(limit), current |-> 0, queue |-> <<>>]

\* Faulty: off by one at the ceiling.
HasRoomInclusive(s) == s.max = Unlimited \/ s.current <= s.max

HasRoom(s) == s.max = Unlimited \/ s.current < s.max

Waiters(s) == {s.queue[i] : i \in 1..Len(s.queue)}

\* Faulty: serves the youngest waiters (pop instead of shift).
AdmitYoungest(s, k) == [s EXCEPT !.current = @ + k,
                                 !.queue = SubSeq(@, 1, Len(@) - k)]

\* The first k waiters leave the queue with a slot each.
Admit(s, k) == [s EXCEPT !.current = @ + k,
                         !.queue = SubSeq(@, k + 1, Len(@))]

\* How many waiters the loop of resize() takes before the ceiling or the
\* end of the queue stops it.
Admissible(s) ==
  IF s.max = Unlimited \/ Len(s.queue) <= s.max - s.current THEN Len(s.queue)
  ELSE IF s.current < s.max THEN s.max - s.current ELSE 0

Acquire(s, c) == IF HasRoom(s) THEN [s EXCEPT !.current = @ + 1]
                 ELSE [s EXCEPT !.queue = Append(@, c)]

GiveBack(s) == [s EXCEPT !.current = IF @ > 0 THEN @ - 1 ELSE @]

\* Faulty: the freed slot is not handed to a waiter.
ReleaseWithoutHandOver(s) == GiveBack(s)

Release(s) ==
  LET r == GiveBack(s)
  IN  Admit(r, IF HasRoom(r) /\ r.queue # <<>> THEN 1 ELSE 0)

WithCeiling(s, limit) == [s EXCEPT !.max = Normalize(limit)]

\* Faulty: a raised ceiling does not admit those who already wait.
ResizeCeilingOnly(s, limit) == WithCeiling(s, limit)

Resize(s, limit) ==
  LET r == WithCeiling(s, limit) IN Admit(r, Admissible(r))

\* queue.splice(index, 1)
Splice(q, i) == [k \in 1..(Len(q) - 1) |-> IF k < i THEN q[k] ELSE q[k + 1]]

\* Faulty: rejects the promise and leaves the waiter queued (issue #3464).
WithdrawNothing(s, c) == s

\* The abort listener of a waiter; without effect once the waiter left the queue.
Withdraw(s, c) ==
  IF c \in Waiters(s)
  THEN [s EXCEPT !.queue = Splice(@, CHOOSE i \in 1..Len(@) : @[i] = c)]
  ELSE s
=============================================================================
