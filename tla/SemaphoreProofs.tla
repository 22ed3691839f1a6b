-------------------------- MODULE SemaphoreProofs --------------------------
(***************************************************************************)
(* The safety properties of Semaphore for every number of callers and      *)
(* every set of limits, and of SpawnTree, its other user, for every tree.  *)
(* The first argument: each method of the semaphore keeps Consistent,      *)
(* which ties the semaphore to what the callers are doing, and leaves      *)
(* NoIdle behind.  Request and EndSpawn are two methods in a row: waking   *)
(* once at the end is the same as waking after each of them.               *)
(***************************************************************************)
EXTENDS Semaphore, SpawnTree, FiniteSetTheorems, FunctionTheorems, SequenceTheorems, TLAPS

-----------------------------------------------------------------------------
(* What the operators of SemaphoreOps do to a queue of members of U.       *)

\* The semaphores with waiters in U.
SemsOf(U) == [max : Nat, current : Nat, queue : Seq(U)]

NoRepeats(q) == \A i, j \in 1..Len(q) : q[i] = q[j] => i = j
Members(q) == {q[i] : i \in 1..Len(q)}

\* A queue without repeats that loses its first k entries loses exactly those
\* members.
LEMMA SuffixMembers ==
  ASSUME NEW U, NEW q \in Seq(U), NoRepeats(q), NEW k \in 0..Len(q),
         NEW r \in Seq(U), Len(r) = Len(q) - k,
         \A i \in 1..Len(r) : r[i] = q[k + i]
  PROVE  /\ NoRepeats(r)
         /\ Members(r) \subseteq Members(q)
         /\ Members(q) \ Members(r) = {q[i] : i \in 1..k}
<1>1. Len(q) \in Nat /\ Len(r) \in Nat /\ k \in Nat
  OBVIOUS
<1>2. NoRepeats(r)
  <2> SUFFICES ASSUME NEW i \in 1..Len(r), NEW j \in 1..Len(r), r[i] = r[j]
               PROVE  i = j
    BY DEF NoRepeats
  <2>1. k + i \in 1..Len(q) /\ k + j \in 1..Len(q) /\ q[k + i] = q[k + j]
    BY <1>1
  <2>2. k + i = k + j
    BY <2>1 DEF NoRepeats
  <2> QED BY <1>1, <2>2
<1>3. \A x : x \in Members(r) <=> \E i \in (k + 1)..Len(q) : x = q[i]
  <2> TAKE x
  <2>1. ASSUME NEW i \in 1..Len(r), x = r[i]
        PROVE  \E n \in (k + 1)..Len(q) : x = q[n]
    BY <1>1, <2>1, k + i \in (k + 1)..Len(q)
  <2>2. ASSUME NEW i \in (k + 1)..Len(q), x = q[i]
        PROVE  \E n \in 1..Len(r) : x = r[n]
    <3>1. i - k \in 1..Len(r) /\ k + (i - k) = i
      BY <1>1
    <3> QED BY <2>2, <3>1
  <2> QED BY <2>1, <2>2 DEF Members
<1>4. Members(r) \subseteq Members(q)
  BY <1>1, <1>3 DEF Members
<1>5. Members(q) \ Members(r) = {q[i] : i \in 1..k}
  <2>1. ASSUME NEW x \in Members(q) \ Members(r)
        PROVE  x \in {q[i] : i \in 1..k}
    <3>1. PICK i \in 1..Len(q) : x = q[i]
      BY <2>1 DEF Members
    <3>2. i \in 1..k
      BY <1>1, <1>3, <2>1, <3>1
    <3> QED BY <3>1, <3>2
  <2>2. ASSUME NEW i \in 1..k
        PROVE  q[i] \in Members(q) \ Members(r)
    <3>1. i \in 1..Len(q)
      BY <1>1
    <3>2. ASSUME NEW n \in (k + 1)..Len(q), q[i] = q[n]
          PROVE  FALSE
      <4>1. n \in 1..Len(q) /\ n # i
        BY <1>1
      <4> QED BY <3>1, <3>2, <4>1 DEF NoRepeats
    <3> QED BY <1>3, <3>1, <3>2 DEF Members
  <2> QED BY <2>1, <2>2
<1> QED BY <1>2, <1>4, <1>5

\* The semaphore t is s without the first k waiters, who have a slot.
TakesFirst(U, s, t, k) ==
  /\ t \in SemsOf(U)
  /\ t.max = s.max
  /\ t.current = s.current + k
  /\ Len(t.queue) = Len(s.queue) - k
  /\ \A i \in 1..(Len(s.queue) - k) : t.queue[i] = s.queue[k + i]
  /\ NoRepeats(t.queue)
  /\ Waiters(t) \subseteq Waiters(s)
  /\ Waiters(s) \ Waiters(t) = {s.queue[i] : i \in 1..k}

\* Admitting k waiters takes exactly the first k off the queue.
LEMMA AdmitTakesFirst ==
  ASSUME NEW U, NEW s \in SemsOf(U), NoRepeats(s.queue), NEW k \in 0..Len(s.queue)
  PROVE  TakesFirst(U, s, Admit(s, k), k)
<1>1. /\ s.queue \in Seq(U) /\ Len(s.queue) \in Nat
      /\ \A i \in 1..Len(s.queue) : s.queue[i] \in U
  BY DEF SemsOf
<1>2. PICK r : r = SubSeq(s.queue, k + 1, Len(s.queue))
  OBVIOUS
<1>3. PICK t : t = Admit(s, k)
  OBVIOUS
<1>4. /\ r \in Seq(U)
      /\ Len(r) = Len(s.queue) - k
      /\ \A i \in 1..Len(r) : r[i] = s.queue[k + i]
  <2>1. PICK q : q = s.queue
    OBVIOUS
  <2>2. q \in Seq(U) /\ Len(q) \in Nat /\ k \in 0..Len(q)
    BY <1>1, <2>1
  <2>3. \A i \in (k + 1)..Len(q) : q[i] \in U
    BY <2>2
  <2>4. /\ SubSeq(q, k + 1, Len(q)) \in Seq(U)
        /\ Len(SubSeq(q, k + 1, Len(q))) =
             IF k + 1 <= Len(q) THEN Len(q) - (k + 1) + 1 ELSE 0
        /\ \A i \in 1..(Len(q) - (k + 1) + 1) :
             SubSeq(q, k + 1, Len(q))[i] = q[k + 1 + i - 1]
    BY <2>2, <2>3, SubSeqProperties
  <2> QED BY <1>2, <2>1, <2>2, <2>4
<1>5. /\ t.queue = r /\ t.max = s.max /\ t.current = s.current + k
      /\ t \in SemsOf(U)
  <2>1. t = [max |-> s.max, current |-> s.current + k, queue |-> r]
    BY <1>2, <1>3 DEF Admit, SemsOf
  <2> QED BY <1>1, <1>4, <2>1 DEF SemsOf
<1>6. /\ NoRepeats(r)
      /\ Members(r) \subseteq Members(s.queue)
      /\ Members(s.queue) \ Members(r) = {s.queue[i] : i \in 1..k}
  BY <1>1, <1>4, SuffixMembers
<1>7. Waiters(s) = Members(s.queue) /\ Waiters(t) = Members(r)
  BY <1>5 DEF Waiters, Members
<1>8. TakesFirst(U, s, t, k)
  BY <1>4, <1>5, <1>6, <1>7 DEF TakesFirst
<1> QED BY <1>3, <1>8

\* A prefix of a sequence without repeats has as many members as positions.
LEMMA PrefixCardinality ==
  ASSUME NEW U, NEW q \in Seq(U), NoRepeats(q), NEW k \in 0..Len(q)
  PROVE  /\ IsFiniteSet({q[i] : i \in 1..k})
         /\ Cardinality({q[i] : i \in 1..k}) = k
<1> DEFINE T == {q[i] : i \in 1..k}
           f == [i \in 1..k |-> q[i]]
<1>1. f \in Bijection(1..k, T)
  BY DEF Bijection, Injection, Surjection, IsInjective, NoRepeats
<1>2. ExistsBijection(1..k, T)
  BY <1>1 DEF ExistsBijection
<1>3. IsFiniteSet(1..k) /\ Cardinality(1..k) = k
  BY FS_Interval
<1> QED BY <1>2, <1>3, FS_Bijection

-----------------------------------------------------------------------------
(* The invariant.                                                          *)

Sems == SemsOf(Callers)

HoldingIn(calls) == {c \in Callers : calls[c] = "holding"}
WaitingIn(calls) == {c \in Callers : calls[c] = "waiting"}

Consistent(s, calls) ==
  /\ s \in Sems
  /\ calls \in [Callers -> CallStates]
  /\ s.current = Cardinality(HoldingIn(calls))
  /\ Waiters(s) = WaitingIn(calls)
  /\ NoRepeats(s.queue)

NoIdle(s) == s.queue # <<>> => ~HasRoom(s)

IInv == Consistent(sem, call) /\ NoIdle(sem)

-----------------------------------------------------------------------------
(* Operators of the semaphore.                                             *)

\* Normalize yields a natural number for every integer setting.
LEMMA NormalizeType == \A m \in Int : Normalize(m) \in Nat
BY DEF Normalize, Unlimited

-----------------------------------------------------------------------------
(* The methods keep the semaphore consistent with its callers.             *)

LEMMA AdmitCallers ==
  ASSUME NEW s \in Sems, NoRepeats(s.queue), NEW k \in 0..Len(s.queue)
  PROVE  /\ Admit(s, k) \in Sems
         /\ Admit(s, k).max = s.max
         /\ Admit(s, k).current = s.current + k
         /\ Len(Admit(s, k).queue) = Len(s.queue) - k
         /\ \A i \in 1..(Len(s.queue) - k) : Admit(s, k).queue[i] = s.queue[k + i]
         /\ NoRepeats(Admit(s, k).queue)
         /\ Waiters(Admit(s, k)) \subseteq Waiters(s)
         /\ Waiters(s) \ Waiters(Admit(s, k)) = {s.queue[i] : i \in 1..k}
<1>1. Sems = SemsOf(Callers)
  BY DEF Sems
<1>2. TakesFirst(Callers, s, Admit(s, k), k)
  BY <1>1, AdmitTakesFirst, Zenon
<1> QED BY <1>1, <1>2 DEF TakesFirst

LEMMA CallersPrefix ==
  ASSUME NEW q \in Seq(Callers), NoRepeats(q), NEW k \in 0..Len(q)
  PROVE  /\ IsFiniteSet({q[i] : i \in 1..k})
         /\ Cardinality({q[i] : i \in 1..k}) = k
BY PrefixCardinality, Zenon

\* Waking k admitted waiters: they are the new holders, everybody else stays.
LEMMA AdmitConsistent ==
  ASSUME NEW s, NEW calls, Consistent(s, calls), NEW k \in 0..Len(s.queue)
  PROVE  Consistent(Admit(s, k), Wake(Admit(s, k), calls))
<1>1. s \in Sems /\ s.queue \in Seq(Callers) /\ NoRepeats(s.queue)
      /\ calls \in [Callers -> CallStates] /\ s.current = Cardinality(HoldingIn(calls))
      /\ Waiters(s) = WaitingIn(calls)
  BY DEF Consistent, Sems, SemsOf
<1>2. PICK t : t = Admit(s, k)
  OBVIOUS
<1>3. /\ t \in Sems /\ t.current = s.current + k /\ NoRepeats(t.queue)
      /\ Waiters(t) \subseteq Waiters(s)
      /\ Waiters(s) \ Waiters(t) = {s.queue[i] : i \in 1..k}
  BY <1>1, <1>2, AdmitCallers
<1>4. PICK w : w = Wake(t, calls)
  OBVIOUS
<1>5. w \in [Callers -> CallStates]
  BY <1>1, <1>4 DEF Wake, CallStates
<1>6. WaitingIn(w) = Waiters(t)
  BY <1>1, <1>3, <1>4 DEF Wake, WaitingIn
<1>7. Cardinality(HoldingIn(w)) = s.current + k
  <2>1. PICK A : A = {s.queue[i] : i \in 1..k}
    OBVIOUS
  <2>2. IsFiniteSet(A) /\ Cardinality(A) = k
    BY <1>1, <2>1, CallersPrefix
  <2>3. A \subseteq WaitingIn(calls)
    BY <1>1, <1>3, <2>1
  <2>4. HoldingIn(w) = HoldingIn(calls) \cup A
    BY <1>1, <1>3, <1>4, <2>1 DEF Wake, HoldingIn, WaitingIn
  <2>5. HoldingIn(calls) \cap A = {}
    BY <2>3 DEF HoldingIn, WaitingIn
  <2>6. IsFiniteSet(HoldingIn(calls)) /\ Cardinality(HoldingIn(calls)) \in Nat
    BY CallersAssumption, FS_Subset, FS_CardinalityType, HoldingIn(calls) \subseteq Callers DEF HoldingIn
  <2>7. Cardinality(HoldingIn(calls) \cup A) = Cardinality(HoldingIn(calls)) + k
    <3>1. PICK H : H = HoldingIn(calls)
      OBVIOUS
    <3>2. IsFiniteSet(H) /\ Cardinality(H) \in Nat /\ H \cap A = {}
      BY <2>5, <2>6, <3>1
    <3>3. Cardinality(H \cup A) = Cardinality(H) + Cardinality(A) - Cardinality(H \cap A)
      BY <2>2, <3>2, FS_Union
    <3>4. Cardinality(H \cap A) = 0
      BY <3>2, FS_EmptySet
    <3>5. Cardinality(H \cup A) = Cardinality(H) + k
      BY <2>2, <3>2, <3>3, <3>4
    <3> QED BY <3>1, <3>5
  <2> QED BY <1>1, <2>4, <2>7
<1> QED BY <1>2, <1>3, <1>4, <1>5, <1>6, <1>7 DEF Consistent

\* A new ceiling does not touch the counter or the queue.
LEMMA CeilingConsistent ==
  ASSUME NEW s, NEW calls, Consistent(s, calls), NEW m \in Int
  PROVE  /\ Consistent(WithCeiling(s, m), calls)
         /\ WithCeiling(s, m).max = Normalize(m)
         /\ WithCeiling(s, m).current = s.current
         /\ WithCeiling(s, m).queue = s.queue
<1>1. s \in Sems /\ Normalize(m) \in Nat
  BY NormalizeType DEF Consistent
<1>2. WithCeiling(s, m) = [max |-> Normalize(m), current |-> s.current, queue |-> s.queue]
  BY <1>1 DEF WithCeiling, Sems, SemsOf
<1>3. PICK r : r = WithCeiling(s, m)
  OBVIOUS
<1>4. r \in Sems /\ r.max = Normalize(m) /\ r.current = s.current /\ r.queue = s.queue
  BY <1>1, <1>2, <1>3 DEF Sems, SemsOf
<1>5. Consistent(r, calls)
  BY <1>4 DEF Consistent, Waiters
<1> QED BY <1>3, <1>4, <1>5

\* resize(): consistent, and nobody waits while a slot is free.
LEMMA ResizeConsistent ==
  ASSUME NEW s, NEW calls, Consistent(s, calls), NEW m \in Int
  PROVE  /\ Consistent(Resize(s, m), Wake(Resize(s, m), calls))
         /\ NoIdle(Resize(s, m))
         /\ Waiters(Resize(s, m)) \subseteq Waiters(s)
<1>1. PICK r : r = WithCeiling(s, m)
  OBVIOUS
<1>2. Consistent(r, calls) /\ r \in Sems /\ r.queue = s.queue /\ NoRepeats(r.queue)
  BY <1>1, CeilingConsistent DEF Consistent
<1>3. PICK k : k = Admissible(r)
  OBVIOUS
<1>4. r.max \in Nat /\ r.current \in Nat /\ Len(r.queue) \in Nat
  BY <1>2 DEF Sems, SemsOf
<1>5. /\ k \in 0..Len(r.queue)
      /\ k = Len(r.queue) \/ (r.max # 0 /\ r.current + k >= r.max)
  BY <1>3, <1>4 DEF Admissible, Unlimited
<1>6. Resize(s, m) = Admit(r, k)
  BY <1>1, <1>3 DEF Resize
<1>7. /\ Consistent(Admit(r, k), Wake(Admit(r, k), calls))
      /\ Admit(r, k).max = r.max /\ Admit(r, k).current = r.current + k
      /\ Len(Admit(r, k).queue) = Len(r.queue) - k
      /\ Waiters(Admit(r, k)) \subseteq Waiters(r)
  BY <1>2, <1>5, AdmitConsistent, AdmitCallers
<1>8. NoIdle(Admit(r, k))
  <2>1. PICK t : t = Admit(r, k)
    OBVIOUS
  <2>2. CASE k = Len(r.queue)
    <3>1. Len(t.queue) = 0 /\ t.queue \in Seq(Callers)
      BY <1>4, <1>7, <2>1, <2>2 DEF Consistent, Sems, SemsOf
    <3>2. t.queue = <<>>
      BY <3>1, EmptySeq
    <3> QED BY <2>1, <3>2 DEF NoIdle
  <2>3. CASE r.max # 0 /\ r.current + k >= r.max
    BY <1>4, <1>5, <1>7, <2>3 DEF NoIdle, HasRoom, Unlimited
  <2> QED BY <1>5, <2>2, <2>3
<1>9. Waiters(r) = Waiters(s)
  BY <1>2 DEF Waiters
<1> QED BY <1>6, <1>7, <1>8, <1>9

\* acquire() of a caller that was idle.
LEMMA AcquireConsistent ==
  ASSUME NEW s, NEW calls, Consistent(s, calls), NoIdle(s),
         NEW c \in Callers, calls[c] = "idle"
  PROVE  LET w == Wake(Acquire(s, c), [calls EXCEPT ![c] = "waiting"])
         IN  Consistent(Acquire(s, c), w) /\ NoIdle(Acquire(s, c))
<1>1. s \in Sems /\ s.queue \in Seq(Callers) /\ NoRepeats(s.queue)
      /\ calls \in [Callers -> CallStates] /\ s.current = Cardinality(HoldingIn(calls))
      /\ Waiters(s) = WaitingIn(calls) /\ s.max \in Nat /\ s.current \in Nat
      /\ Len(s.queue) \in Nat
  BY DEF Consistent, Sems, SemsOf
<1>2. PICK t : t = Acquire(s, c)
  OBVIOUS
<1>3. PICK w : w = Wake(t, [calls EXCEPT ![c] = "waiting"])
  OBVIOUS
<1>4. w \in [Callers -> CallStates]
  BY <1>1, <1>3 DEF Wake, CallStates
<1>5. c \notin HoldingIn(calls) /\ c \notin WaitingIn(calls)
  BY DEF HoldingIn, WaitingIn
<1>6. CASE HasRoom(s)
  <2>1. t = [max |-> s.max, current |-> s.current + 1, queue |-> s.queue]
    BY <1>1, <1>2, <1>6 DEF Acquire, Sems, SemsOf
  <2>2. t \in Sems /\ t.current = s.current + 1 /\ t.queue = s.queue /\ t.max = s.max
    BY <1>1, <2>1 DEF Sems, SemsOf
  <2>3. Waiters(t) = WaitingIn(calls)
    BY <1>1, <2>2 DEF Waiters
  <2>4. HoldingIn(w) = HoldingIn(calls) \cup {c} /\ WaitingIn(w) = WaitingIn(calls)
    BY <1>1, <1>3, <1>5, <2>3 DEF Wake, HoldingIn, WaitingIn
  <2>5. Cardinality(HoldingIn(calls) \cup {c}) = s.current + 1
    <3>1. HoldingIn(calls) \in SUBSET Callers
      BY DEF HoldingIn
    <3>2. IsFiniteSet(HoldingIn(calls))
      BY <3>1, CallersAssumption, FS_Subset
    <3>3. Cardinality(HoldingIn(calls) \cup {c}) = Cardinality(HoldingIn(calls)) + 1
      BY <1>5, <3>2, FS_AddElement
    <3> QED BY <1>1, <3>3
  <2>6. t.queue = <<>>
    BY <1>6, <2>2 DEF NoIdle
  <2> QED BY <1>1, <1>2, <1>3, <1>4, <2>2, <2>3, <2>4, <2>5, <2>6 DEF Consistent, NoIdle
<1>7. CASE ~HasRoom(s)
  <2>1. PICK q : q = Append(s.queue, c)
    OBVIOUS
  <2>2. t = [max |-> s.max, current |-> s.current, queue |-> q]
    BY <1>1, <1>2, <1>7, <2>1 DEF Acquire, Sems, SemsOf
  <2>3. /\ q \in Seq(Callers) /\ Len(q) = Len(s.queue) + 1 /\ q[Len(q)] = c
        /\ \A i \in 1..Len(s.queue) : q[i] = s.queue[i]
    BY <1>1, <2>1, AppendProperties
  <2>4. t \in Sems /\ t.current = s.current /\ t.queue = q /\ t.max = s.max
    BY <1>1, <2>2, <2>3 DEF Sems, SemsOf
  <2>5. \A i \in 1..Len(s.queue) : s.queue[i] \in WaitingIn(calls)
    BY <1>1 DEF Waiters
  <2>6. NoRepeats(q)
    <3> SUFFICES ASSUME NEW i \in 1..Len(q), NEW j \in 1..Len(q), q[i] = q[j]
                 PROVE  i = j
      BY DEF NoRepeats
    <3>1. \A k \in 1..Len(q) : k = Len(q) \/ k \in 1..Len(s.queue)
      BY <1>1, <2>3
    <3>2. \A k \in 1..Len(s.queue) : q[k] = s.queue[k] /\ q[k] # c
      BY <1>5, <2>3, <2>5
    <3>3. CASE i \in 1..Len(s.queue) /\ j \in 1..Len(s.queue)
      <4>1. s.queue[i] = s.queue[j]
        BY <3>2, <3>3
      <4> QED BY <1>1, <3>3, <4>1 DEF NoRepeats
    <3>4. CASE ~(i \in 1..Len(s.queue) /\ j \in 1..Len(s.queue))
      BY <2>3, <3>1, <3>2, <3>4
    <3> QED BY <3>3, <3>4
  <2>7. Waiters(t) = WaitingIn(calls) \cup {c}
    <3>1. \A i \in 1..Len(q) : i \in 1..Len(s.queue) \/ i = Len(q)
      BY <1>1, <2>3
    <3>2. 1..Len(s.queue) \subseteq 1..Len(q) /\ Len(q) \in 1..Len(q)
      BY <1>1, <2>3
    <3>3. {q[i] : i \in 1..Len(q)} = {s.queue[i] : i \in 1..Len(s.queue)} \cup {c}
      BY <2>3, <3>1, <3>2
    <3> QED BY <1>1, <2>4, <3>3 DEF Waiters
  <2>8. HoldingIn(w) = HoldingIn(calls) /\ WaitingIn(w) = WaitingIn(calls) \cup {c}
    BY <1>1, <1>3, <1>5, <2>7 DEF Wake, HoldingIn, WaitingIn
  <2>9. NoIdle(t)
    BY <1>7, <2>4 DEF NoIdle, HasRoom
  <2> QED BY <1>1, <1>2, <1>3, <1>4, <2>4, <2>6, <2>7, <2>8, <2>9 DEF Consistent
<1> QED BY <1>6, <1>7

\* release() by a caller that holds a slot.
LEMMA ReleaseConsistent ==
  ASSUME NEW s, NEW calls, Consistent(s, calls), NoIdle(s),
         NEW c \in Callers, calls[c] = "holding"
  PROVE  LET w == Wake(Release(s), [calls EXCEPT ![c] = "idle"])
         IN  Consistent(Release(s), w) /\ NoIdle(Release(s))
             /\ Waiters(Release(s)) \subseteq Waiters(s)
<1>1. s \in Sems /\ s.queue \in Seq(Callers) /\ NoRepeats(s.queue)
      /\ calls \in [Callers -> CallStates] /\ s.current = Cardinality(HoldingIn(calls))
      /\ Waiters(s) = WaitingIn(calls) /\ s.max \in Nat /\ s.current \in Nat
      /\ Len(s.queue) \in Nat
  BY DEF Consistent, Sems, SemsOf
<1>2. PICK r : r = GiveBack(s)
  OBVIOUS
<1>3. PICK d : d = [calls EXCEPT ![c] = "idle"]
  OBVIOUS
<1>4. d \in [Callers -> CallStates] /\ WaitingIn(d) = WaitingIn(calls)
      /\ HoldingIn(d) = HoldingIn(calls) \ {c} /\ c \in HoldingIn(calls)
  BY <1>1, <1>3 DEF WaitingIn, HoldingIn, CallStates
<1>5. /\ Cardinality(HoldingIn(d)) = s.current - 1
      /\ Cardinality(HoldingIn(d)) \in Nat
  <2>1. PICK H : H = HoldingIn(calls)
    OBVIOUS
  <2>2. IsFiniteSet(H) /\ c \in H
    BY <1>4, <2>1, CallersAssumption, FS_Subset, H \subseteq Callers DEF HoldingIn
  <2>3. IsFiniteSet(H \ {c}) /\ Cardinality(H \ {c}) = Cardinality(H) - 1
    BY <2>2, FS_RemoveElement
  <2>4. Cardinality(H \ {c}) \in Nat
    BY <2>3, FS_CardinalityType
  <2> QED BY <1>1, <1>4, <2>1, <2>3, <2>4
<1>6. /\ r = [max |-> s.max, current |-> s.current - 1, queue |-> s.queue]
  BY <1>1, <1>2, <1>5 DEF GiveBack, Sems, SemsOf
<1>7. r \in Sems /\ r.max = s.max /\ r.current = s.current - 1 /\ r.queue = s.queue
  BY <1>1, <1>5, <1>6 DEF Sems, SemsOf
<1>8. Consistent(r, d)
  BY <1>1, <1>4, <1>5, <1>7 DEF Consistent, Waiters
<1>9. PICK k : k = IF HasRoom(r) /\ r.queue # <<>> THEN 1 ELSE 0
  OBVIOUS
<1>10. k \in 0..Len(r.queue) /\ Release(s) = Admit(r, k)
  BY <1>1, <1>2, <1>7, <1>9, EmptySeq DEF Release
<1>11. /\ Consistent(Admit(r, k), Wake(Admit(r, k), d))
       /\ Admit(r, k).max = r.max /\ Admit(r, k).current = r.current + k
       /\ Len(Admit(r, k).queue) = Len(r.queue) - k
       /\ Waiters(Admit(r, k)) \subseteq Waiters(r)
  BY <1>1, <1>7, <1>8, <1>10, AdmitConsistent, AdmitCallers
<1>12. NoIdle(Admit(r, k))
  <2>1. PICK t : t = Admit(r, k)
    OBVIOUS
  <2>2. t.queue \in Seq(Callers) /\ t.max = s.max /\ t.current = s.current - 1 + k
        /\ Len(t.queue) = Len(s.queue) - k
    BY <1>7, <1>11, <2>1 DEF Consistent, Sems, SemsOf
  <2>3. ASSUME t.queue # <<>> PROVE ~HasRoom(t)
    <3>1. Len(s.queue) # 0 /\ s.queue # <<>>
      BY <1>1, <1>7, <1>10, <2>2, <2>3, EmptySeq
    <3>2. s.max # 0 /\ s.current >= s.max
      BY <1>1, <3>1 DEF NoIdle, HasRoom, Unlimited
    <3>3. k = 1 \/ ~HasRoom(r)
      BY <1>7, <1>9, <3>1
    <3> QED BY <1>1, <1>7, <1>9, <2>2, <3>2, <3>3 DEF HasRoom, Unlimited
  <2> QED BY <2>1, <2>3 DEF NoIdle
<1>13. Waiters(r) = Waiters(s)
  BY <1>7 DEF Waiters
<1> QED BY <1>3, <1>10, <1>11, <1>12, <1>13

\* Taking the entry at position n out of a queue without repeats.
LEMMA SpliceMembers ==
  ASSUME NEW q \in Seq(Callers), NoRepeats(q), NEW n \in 1..Len(q)
  PROVE  /\ Splice(q, n) \in Seq(Callers)
         /\ NoRepeats(Splice(q, n))
         /\ Members(Splice(q, n)) = Members(q) \ {q[n]}
<1>1. PICK r : r = Splice(q, n)
  OBVIOUS
<1>2. Len(q) \in Nat /\ \A i \in 1..Len(q) : q[i] \in Callers
  OBVIOUS
<1>3. /\ r \in Seq(Callers) /\ Len(r) = Len(q) - 1
      /\ \A i \in 1..Len(r) : r[i] = IF i < n THEN q[i] ELSE q[i + 1]
  <2>1. r = [i \in 1..(Len(q) - 1) |-> IF i < n THEN q[i] ELSE q[i + 1]]
    BY <1>1 DEF Splice
  <2>2. Len(q) - 1 \in Nat
    BY <1>2
  <2>3. \A i \in 1..(Len(q) - 1) : (IF i < n THEN q[i] ELSE q[i + 1]) \in Callers
    BY <1>2
  <2> QED BY <2>1, <2>2, <2>3, IsASeq
<1>4. NoRepeats(r)
  BY <1>2, <1>3 DEF NoRepeats
<1>5. ASSUME NEW x \in Members(r) PROVE x \in Members(q) \ {q[n]}
  <2>1. PICK i \in 1..Len(r) : x = r[i]
    BY <1>5 DEF Members
  <2>2. PICK j \in 1..Len(q) : x = q[j] /\ j # n
    BY <1>2, <1>3, <2>1
  <2>3. q[j] # q[n]
    BY <2>2 DEF NoRepeats
  <2> QED BY <2>2, <2>3 DEF Members
<1>6. ASSUME NEW x \in Members(q) \ {q[n]} PROVE x \in Members(r)
  <2>1. PICK j \in 1..Len(q) : x = q[j] /\ j # n
    BY <1>6 DEF Members
  <2>2. CASE j < n
    BY <1>2, <1>3, <2>1, <2>2 DEF Members
  <2>3. CASE j > n
    <3>1. j - 1 \in 1..Len(r) /\ r[j - 1] = q[j]
      BY <1>2, <1>3, <2>1, <2>3
    <3> QED BY <2>1, <3>1 DEF Members
  <2> QED BY <1>2, <2>1, <2>2, <2>3
<1> QED BY <1>1, <1>3, <1>4, <1>5, <1>6

\* The abort listener of a waiting caller.
LEMMA WithdrawConsistent ==
  ASSUME NEW s, NEW calls, Consistent(s, calls), NoIdle(s),
         NEW c \in Callers, calls[c] = "waiting"
  PROVE  /\ Consistent(Withdraw(s, c), [calls EXCEPT ![c] = "idle"])
         /\ NoIdle(Withdraw(s, c))
<1>1. s \in Sems /\ s.queue \in Seq(Callers) /\ NoRepeats(s.queue)
      /\ calls \in [Callers -> CallStates] /\ s.current = Cardinality(HoldingIn(calls))
      /\ Waiters(s) = WaitingIn(calls) /\ Waiters(s) = Members(s.queue)
  BY DEF Consistent, Sems, SemsOf, Waiters, Members
<1>2. c \in Waiters(s)
  BY <1>1 DEF WaitingIn
<1>3. PICK n : n = CHOOSE i \in 1..Len(s.queue) : s.queue[i] = c
  OBVIOUS
<1>4. n \in 1..Len(s.queue) /\ s.queue[n] = c
  BY <1>2, <1>3 DEF Waiters
<1>5. PICK q : q = Splice(s.queue, n)
  OBVIOUS
<1>6. q \in Seq(Callers) /\ NoRepeats(q) /\ Members(q) = Members(s.queue) \ {c}
  BY <1>1, <1>4, <1>5, SpliceMembers
<1>7. PICK t : t = Withdraw(s, c)
  OBVIOUS
<1>8. t = [s EXCEPT !.queue = q]
  BY <1>2, <1>3, <1>5, <1>7 DEF Withdraw
<1>9. t \in Sems /\ t.queue = q /\ t.max = s.max /\ t.current = s.current
  BY <1>1, <1>6, <1>8 DEF Sems, SemsOf
<1>10. PICK d : d = [calls EXCEPT ![c] = "idle"]
  OBVIOUS
<1>11. d \in [Callers -> CallStates] /\ HoldingIn(d) = HoldingIn(calls)
       /\ WaitingIn(d) = WaitingIn(calls) \ {c}
  BY <1>1, <1>10 DEF CallStates, HoldingIn, WaitingIn
<1>12. Waiters(t) = WaitingIn(d)
  <2>1. Waiters(t) = Members(q)
    BY <1>9 DEF Waiters, Members
  <2> QED BY <1>1, <1>6, <1>11, <2>1
<1>13. s.queue # <<>>
  BY <1>4, EmptySeq
<1>14. NoIdle(t)
  BY <1>9, <1>13 DEF NoIdle, HasRoom
<1> QED BY <1>1, <1>6, <1>7, <1>9, <1>10, <1>11, <1>12, <1>14 DEF Consistent
-----------------------------------------------------------------------------
(* The invariant.                                                          *)

\* IInv holds initially, every step of every caller keeps it.
THEOREM InductiveInvariant == Spec => []IInv
<1>1. Init => IInv
  <2> SUFFICES ASSUME Init PROVE IInv
    OBVIOUS
  <2>1. PICK limit \in Limits : sem = [max |-> Normalize(limit), current |-> 0, queue |-> <<>>]
    BY DEF Init, NewSemaphore
  <2>2. Normalize(limit) \in Nat
    BY LimitsAssumption, NormalizeType
  <2>3. sem \in Sems /\ sem.queue = <<>> /\ sem.current = 0
    BY <2>1, <2>2 DEF Sems, SemsOf
  <2>4. call \in [Callers -> CallStates] /\ HoldingIn(call) = {} /\ WaitingIn(call) = {}
    BY DEF Init, CallStates, HoldingIn, WaitingIn
  <2>5. Waiters(sem) = {} /\ NoRepeats(sem.queue)
    BY <2>3 DEF Waiters, NoRepeats
  <2> QED BY <2>3, <2>4, <2>5, FS_EmptySet DEF IInv, Consistent, NoIdle
<1>2. IInv /\ [Next]_vars => IInv'
  <2> SUFFICES ASSUME IInv, [Next]_vars PROVE IInv'
    OBVIOUS
  <2>0. Consistent(sem, call) /\ NoIdle(sem) /\ call \in [Callers -> CallStates]
    BY DEF IInv, Consistent
  <2>1. ASSUME NEW c \in Callers, NEW limit \in Limits, Request(c, limit)
        PROVE  IInv'
    <3>1. PICK r : r = Resize(sem, limit)
      OBVIOUS
    <3>2. PICK w : w = Wake(r, call)
      OBVIOUS
    <3>3. Consistent(r, w) /\ NoIdle(r)
      BY <2>0, <3>1, <3>2, LimitsAssumption, ResizeConsistent
    <3>4. w[c] = "idle"
      BY <2>1, <3>2 DEF Wake, Request
    <3>5. PICK t : t = Acquire(r, c)
      OBVIOUS
    <3>6. Consistent(t, Wake(t, [w EXCEPT ![c] = "waiting"])) /\ NoIdle(t)
      BY <3>3, <3>4, <3>5, AcquireConsistent
    <3>7. Waiters(t) \subseteq Waiters(r) \cup {c}
      <4>1. r \in Sems /\ w \in [Callers -> CallStates] /\ Waiters(r) = WaitingIn(w)
        BY <3>3 DEF Consistent
      <4>2. Waiters(t) = WaitingIn(Wake(t, [w EXCEPT ![c] = "waiting"]))
        BY <3>6 DEF Consistent
      <4> QED BY <4>1, <4>2 DEF WaitingIn, Wake
    <3>8. Wake(t, [w EXCEPT ![c] = "waiting"]) = Wake(t, [call EXCEPT ![c] = "waiting"])
      <4>1. "waiting" \in CallStates /\ Waiters(t) \subseteq Waiters(r) \cup {c}
        BY <3>7 DEF CallStates
      <4>2. Wake(t, [Wake(r, call) EXCEPT ![c] = "waiting"]) = Wake(t, [call EXCEPT ![c] = "waiting"])
        BY <2>0, <4>1 DEF Wake
      <4> QED BY <3>2, <4>2, Zenon
    <3>9. sem' = t /\ call' = Wake(t, [call EXCEPT ![c] = "waiting"])
      BY <2>1, <3>1, <3>5 DEF Request
    <3> QED BY <3>6, <3>8, <3>9 DEF IInv
  <2>2. ASSUME NEW c \in Callers, NEW limit \in Limits, RequestAborted(c, limit)
        PROVE  IInv'
    BY <2>0, <2>2, LimitsAssumption, ResizeConsistent DEF RequestAborted, IInv
  <2>3. ASSUME NEW c \in Callers, Abandon(c) PROVE IInv'
    BY <2>0, <2>3, WithdrawConsistent DEF Abandon, IInv
  <2>4. ASSUME NEW c \in Callers, EndStream(c) PROVE IInv'
    BY <2>0, <2>4, ReleaseConsistent DEF EndStream, IInv
  <2>5. ASSUME NEW c \in Callers, NEW limit \in Limits, EndSpawn(c, limit)
        PROVE  IInv'
    <3>1. PICK r : r = Resize(sem, limit)
      OBVIOUS
    <3>2. PICK w : w = Wake(r, call)
      OBVIOUS
    <3>3. Consistent(r, w) /\ NoIdle(r)
      BY <2>0, <3>1, <3>2, LimitsAssumption, ResizeConsistent
    <3>4. w[c] = "holding"
      BY <2>5, <3>2 DEF Wake, EndSpawn
    <3>5. PICK t : t = Release(r)
      OBVIOUS
    <3>6. /\ Consistent(t, Wake(t, [w EXCEPT ![c] = "idle"])) /\ NoIdle(t)
          /\ Waiters(t) \subseteq Waiters(r)
      BY <3>3, <3>4, <3>5, ReleaseConsistent
    <3>7. Wake(t, [w EXCEPT ![c] = "idle"]) = Wake(t, [call EXCEPT ![c] = "idle"])
      <4>1. "idle" \in CallStates /\ Waiters(t) \subseteq Waiters(r) \cup {c}
        BY <3>6 DEF CallStates
      <4>2. Wake(t, [Wake(r, call) EXCEPT ![c] = "idle"]) = Wake(t, [call EXCEPT ![c] = "idle"])
        BY <2>0, <4>1 DEF Wake
      <4> QED BY <3>2, <4>2, Zenon
    <3>8. sem' = t /\ call' = Wake(t, [call EXCEPT ![c] = "idle"])
      BY <2>5, <3>1, <3>5 DEF EndSpawn
    <3> QED BY <3>6, <3>7, <3>8 DEF IInv
  <2>6. ASSUME UNCHANGED vars PROVE IInv'
    BY <2>0, <2>6 DEF vars, IInv
  <2> QED BY <2>1, <2>2, <2>3, <2>4, <2>5, <2>6 DEF Next
<1> QED BY <1>1, <1>2, PTL DEF Spec

\* The state always has its type.
THEOREM TypeCorrect == Spec => []TypeOK
<1>1. IInv => TypeOK
  BY DEF IInv, Consistent, Sems, SemsOf, TypeOK
<1> QED BY <1>1, InductiveInvariant, PTL

\* No history of requests, aborts, resizes and releases leaks a slot or gives
\* one back twice.
THEOREM SlotsNeverLeak == Spec => []SlotsAreHolders
<1>1. IInv => SlotsAreHolders
  BY DEF IInv, Consistent, SlotsAreHolders, Holding, HoldingIn
<1> QED BY <1>1, InductiveInvariant, PTL

\* The queue is always the list of those who wait, each once.
THEOREM QueueFaithful == Spec => []QueueIsWaiting
<1>1. IInv => QueueIsWaiting
  BY DEF IInv, Consistent, QueueIsWaiting, Waiting, WaitingIn, NoRepeats
<1> QED BY <1>1, InductiveInvariant, PTL

\* Nobody ever waits beside a free slot.
THEOREM NoLostWakeup == Spec => []NoIdleSlot
<1>1. IInv => NoIdleSlot
  BY DEF IInv, NoIdle, NoIdleSlot
<1> QED BY <1>1, InductiveInvariant, PTL

-----------------------------------------------------------------------------
(* The semaphore implements CountingLimiter: a step that gives a slot to   *)
(* somebody leaves the counter within the ceiling.                         *)

Within(s) == s.max = Unlimited \/ s.current <= s.max

\* Admitting no more waiters than there is room for.
LEMMA AdmitWithin ==
  ASSUME NEW s \in Sems, NoRepeats(s.queue), NEW k \in 0..Len(s.queue),
         k = 0 \/ s.max = Unlimited \/ s.current + k <= s.max
  PROVE  LET t == Admit(s, k)
         IN  /\ t.max = s.max
             /\ Within(t) \/ Waiters(s) \subseteq Waiters(t)
             /\ Within(s) => Within(t)
<1>1. PICK t : t = Admit(s, k)
  OBVIOUS
<1>2. /\ t.max = s.max /\ t.current = s.current + k
      /\ Waiters(s) \ Waiters(t) = {s.queue[i] : i \in 1..k}
      /\ s.max \in Nat /\ s.current \in Nat
  BY <1>1, AdmitCallers DEF Sems, SemsOf
<1>3. k = 0 => Waiters(s) \subseteq Waiters(t)
  BY <1>2
<1>4. k # 0 => Within(t)
  BY <1>2 DEF Within
<1>5. Within(s) => Within(t)
  BY <1>2, <1>4 DEF Within
<1> QED BY <1>1, <1>2, <1>3, <1>4, <1>5

\* resize() serves waiters up to the new ceiling and no further.
LEMMA ResizeWithin ==
  ASSUME NEW s, NEW calls, Consistent(s, calls), NEW m \in Int
  PROVE  Within(Resize(s, m)) \/ Waiters(s) \subseteq Waiters(Resize(s, m))
<1>1. PICK r : r = WithCeiling(s, m)
  OBVIOUS
<1>2. r \in Sems /\ NoRepeats(r.queue) /\ Waiters(r) = Waiters(s)
  BY <1>1, CeilingConsistent DEF Consistent, Waiters
<1>3. r.max \in Nat /\ r.current \in Nat /\ Len(r.queue) \in Nat
  BY <1>2 DEF Sems, SemsOf
<1>4. PICK k : k = Admissible(r)
  OBVIOUS
<1>5. k \in 0..Len(r.queue) /\ (k = 0 \/ r.max = Unlimited \/ r.current + k <= r.max)
  BY <1>3, <1>4 DEF Admissible, Unlimited
<1>6. Resize(s, m) = Admit(r, k)
  BY <1>1, <1>4 DEF Resize
<1> QED BY <1>2, <1>5, <1>6, AdmitWithin

\* release() serves a waiter only if the slot it gives back is below the ceiling.
LEMMA ReleaseWithin ==
  ASSUME NEW s, NEW calls, Consistent(s, calls)
  PROVE  /\ Within(Release(s)) \/ Waiters(s) \subseteq Waiters(Release(s))
         /\ Within(s) => Within(Release(s))
<1>1. PICK r : r = GiveBack(s)
  OBVIOUS
<1>2. s \in Sems /\ NoRepeats(s.queue) /\ s.current \in Nat /\ s.max \in Nat
  BY DEF Consistent, Sems, SemsOf
<1>3. r = [max |-> s.max, current |-> IF s.current > 0 THEN s.current - 1 ELSE s.current,
           queue |-> s.queue]
  BY <1>1, <1>2 DEF GiveBack, Sems, SemsOf
<1>4. r \in Sems /\ r.queue = s.queue /\ r.max = s.max /\ r.current <= s.current
      /\ r.current \in Nat
  BY <1>2, <1>3 DEF Sems, SemsOf
<1>5. Waiters(r) = Waiters(s) /\ NoRepeats(r.queue)
  BY <1>2, <1>4 DEF Waiters
<1>6. Within(s) => Within(r)
  BY <1>2, <1>4 DEF Within
<1>7. PICK k : k = IF HasRoom(r) /\ r.queue # <<>> THEN 1 ELSE 0
  OBVIOUS
<1>8. Release(s) = Admit(r, k)
  BY <1>1, <1>7 DEF Release
<1>9. k \in 0..Len(r.queue)
  <2>1. r.queue \in Seq(Callers) /\ Len(r.queue) \in Nat
    BY <1>4 DEF Sems, SemsOf
  <2>2. r.queue # <<>> => Len(r.queue) # 0
    BY <2>1, EmptySeq
  <2> QED BY <1>7, <2>1, <2>2
<1>10. k = 0 \/ r.max = Unlimited \/ r.current + k <= r.max
  BY <1>2, <1>4, <1>7 DEF HasRoom
<1> QED BY <1>4, <1>5, <1>6, <1>8, <1>9, <1>10, AdmitWithin

\* acquire() gives a slot only below the ceiling, and otherwise queues.
LEMMA AcquireWithin ==
  ASSUME NEW s, NEW calls, Consistent(s, calls), NEW c \in Callers
  PROVE  LET t == Acquire(s, c)
         IN  \/ Within(t)
             \/ /\ Waiters(s) \cup {c} \subseteq Waiters(t)
                /\ ~Within(s)
<1>1. PICK t : t = Acquire(s, c)
  OBVIOUS
<1>2. s \in Sems /\ s.current \in Nat /\ s.max \in Nat /\ s.queue \in Seq(Callers)
      /\ Len(s.queue) \in Nat
  BY DEF Consistent, Sems, SemsOf
<1>3. CASE HasRoom(s)
  <2>1. t = [max |-> s.max, current |-> s.current + 1, queue |-> s.queue]
    BY <1>1, <1>2, <1>3 DEF Acquire, Sems, SemsOf
  <2>2. Within(t)
    BY <1>2, <1>3, <2>1 DEF Within, HasRoom
  <2> QED BY <1>1, <2>2
<1>4. CASE ~HasRoom(s)
  <2>1. PICK q : q = Append(s.queue, c)
    OBVIOUS
  <2>2. t = [max |-> s.max, current |-> s.current, queue |-> q]
    BY <1>1, <1>2, <1>4, <2>1 DEF Acquire, Sems, SemsOf
  <2>3. t.max = s.max /\ t.current = s.current /\ t.queue = q
    BY <2>2
  <2>4. /\ Len(q) = Len(s.queue) + 1 /\ q[Len(q)] = c
        /\ \A i \in 1..Len(s.queue) : q[i] = s.queue[i]
    BY <1>2, <2>1, AppendProperties
  <2>5. 1..Len(s.queue) \subseteq 1..Len(q) /\ Len(q) \in 1..Len(q)
    BY <1>2, <2>4
  <2>6. Waiters(s) \subseteq {q[i] : i \in 1..Len(q)} /\ c \in {q[i] : i \in 1..Len(q)}
    BY <2>4, <2>5 DEF Waiters
  <2>7. Waiters(s) \cup {c} \subseteq Waiters(t)
    BY <2>3, <2>6 DEF Waiters
  <2>8. Within(s) => Within(t)
    BY <2>3 DEF Within
  <2> QED BY <1>1, <2>7, <2>8
<1> QED BY <1>3, <1>4

\* A step that adds a holder leaves the counter within the ceiling.
LEMMA JoinsOnlyWithin ==
  ASSUME IInv, Next
  PROVE  Holding' \subseteq Holding \/ Within(sem')
<1>1. Consistent(sem, call) /\ NoIdle(sem) /\ Waiters(sem) = WaitingIn(call)
      /\ call \in [Callers -> CallStates]
  BY DEF IInv, Consistent
<1>2. ASSUME NEW c \in Callers, NEW limit \in Limits, Request(c, limit)
      PROVE  Holding' \subseteq Holding \/ Within(sem')
  <2>1. PICK r : r = Resize(sem, limit)
    OBVIOUS
  <2>2. Consistent(r, Wake(r, call))
    BY <1>1, <2>1, LimitsAssumption, ResizeConsistent
  <2>3. Within(r) \/ Waiters(sem) \subseteq Waiters(r)
    BY <1>1, <2>1, LimitsAssumption, ResizeWithin
  <2>4. sem' = Acquire(r, c) /\ call' = Wake(sem', [call EXCEPT ![c] = "waiting"])
    BY <1>2, <2>1 DEF Request
  <2>5. Within(sem') \/ (Waiters(r) \cup {c} \subseteq Waiters(sem') /\ ~Within(r))
    BY <2>2, <2>4, AcquireWithin
  <2>6. CASE Waiters(sem) \cup {c} \subseteq Waiters(sem')
    BY <1>1, <2>4, <2>6 DEF Wake, Holding, WaitingIn
  <2> QED BY <2>3, <2>5, <2>6
<1>3. ASSUME NEW c \in Callers, NEW limit \in Limits, RequestAborted(c, limit)
      PROVE  Holding' \subseteq Holding \/ Within(sem')
  <2>1. sem' = Resize(sem, limit) /\ call' = Wake(sem', call)
    BY <1>3 DEF RequestAborted
  <2>2. Within(sem') \/ Waiters(sem) \subseteq Waiters(sem')
    BY <1>1, <2>1, LimitsAssumption, ResizeWithin
  <2>3. CASE Waiters(sem) \subseteq Waiters(sem')
    BY <1>1, <2>1, <2>3 DEF Wake, Holding, WaitingIn
  <2> QED BY <2>2, <2>3
<1>4. ASSUME NEW c \in Callers, Abandon(c)
      PROVE  Holding' \subseteq Holding \/ Within(sem')
  BY <1>1, <1>4 DEF Abandon, Holding
<1>5. ASSUME NEW c \in Callers, EndStream(c)
      PROVE  Holding' \subseteq Holding \/ Within(sem')
  <2>1. sem' = Release(sem) /\ call' = Wake(sem', [call EXCEPT ![c] = "idle"])
    BY <1>5 DEF EndStream
  <2>2. Within(sem') \/ Waiters(sem) \subseteq Waiters(sem')
    BY <1>1, <2>1, ReleaseWithin
  <2>3. CASE Waiters(sem) \subseteq Waiters(sem')
    BY <1>1, <2>1, <2>3 DEF Wake, Holding, WaitingIn
  <2> QED BY <2>2, <2>3
<1>6. ASSUME NEW c \in Callers, NEW limit \in Limits, EndSpawn(c, limit)
      PROVE  Holding' \subseteq Holding \/ Within(sem')
  <2>1. PICK r : r = Resize(sem, limit)
    OBVIOUS
  <2>2. Consistent(r, Wake(r, call))
    BY <1>1, <2>1, LimitsAssumption, ResizeConsistent
  <2>3. Within(r) \/ Waiters(sem) \subseteq Waiters(r)
    BY <1>1, <2>1, LimitsAssumption, ResizeWithin
  <2>4. sem' = Release(r) /\ call' = Wake(sem', [call EXCEPT ![c] = "idle"])
    BY <1>6, <2>1 DEF EndSpawn
  <2>5. /\ Within(sem') \/ Waiters(r) \subseteq Waiters(sem')
        /\ Within(r) => Within(sem')
    BY <2>2, <2>4, ReleaseWithin
  <2>6. CASE Waiters(sem) \subseteq Waiters(sem')
    BY <1>1, <2>4, <2>6 DEF Wake, Holding, WaitingIn
  <2> QED BY <2>3, <2>5, <2>6
<1> QED BY <1>2, <1>3, <1>4, <1>5, <1>6 DEF Next

\* For every number of callers and every set of limits: whoever gets a slot gets
\* it under the ceiling in force, and a lowered ceiling admits nobody until
\* enough holders have left.
THEOREM RefinesLimiter == Spec => ImplementsLimiter
<1>1. Init /\ IInv => Limiter!Init
  <2> SUFFICES ASSUME Init, IInv PROVE sem.max \in Nat /\ Holding = {}
    BY DEF Limiter!Init
  <2>1. sem.max \in Nat
    BY DEF IInv, Consistent, Sems, SemsOf
  <2> QED BY <2>1 DEF Init, Holding
<1>2. IInv /\ IInv' /\ [Next]_vars => [Limiter!Step]_<<sem.max, Holding>>
  <2> SUFFICES ASSUME IInv, IInv', [Next]_vars
               PROVE  [Limiter!Step]_<<sem.max, Holding>>
    OBVIOUS
  <2>1. CASE UNCHANGED vars
    BY <2>1 DEF vars, Holding
  <2>2. CASE Next
    <3>1. sem'.max \in Nat /\ sem'.current = Cardinality(Holding')
      BY DEF IInv, Consistent, Sems, SemsOf, Holding, HoldingIn
    <3>2. Holding' \subseteq Callers
      BY DEF Holding
    <3>3. Holding' \subseteq Holding \/ Limiter!Fits(Cardinality(Holding'))
      BY <2>2, <3>1, JoinsOnlyWithin DEF Within, Unlimited, Limiter!Fits
    <3>4. Limiter!Cardinality(Holding') = Cardinality(Holding')
      BY Zenon DEF Limiter!Cardinality, Cardinality
    <3> QED BY <3>1, <3>2, <3>3, <3>4 DEF Limiter!Step
  <2> QED BY <2>1, <2>2
<1> QED BY <1>1, <1>2, InductiveInvariant, PTL DEF Spec, ImplementsLimiter, Limiter!Spec

-----------------------------------------------------------------------------
(* Slots are handed out in the order of the requests.                      *)

\* t is s after its first k waiters were served, and perhaps one more has queued.
Shifted(s, t, k) ==
  /\ k \in 0..Len(s.queue)
  /\ Len(t.queue) \in Nat /\ Len(t.queue) >= Len(s.queue) - k
  /\ \A i \in 1..(Len(s.queue) - k) : t.queue[i] = s.queue[k + i]
  /\ \A i \in 1..k : s.queue[i] \notin Waiters(t)

\* Admit serves the first k and nobody else.
LEMMA AdmitShifts ==
  ASSUME NEW s \in Sems, NoRepeats(s.queue), NEW k \in 0..Len(s.queue)
  PROVE  Shifted(s, Admit(s, k), k) /\ Len(Admit(s, k).queue) = Len(s.queue) - k
<1>1. PICK t : t = Admit(s, k)
  OBVIOUS
<1>2. /\ Len(t.queue) = Len(s.queue) - k
      /\ \A i \in 1..(Len(s.queue) - k) : t.queue[i] = s.queue[k + i]
      /\ Waiters(s) \ Waiters(t) = {s.queue[i] : i \in 1..k}
  <2>1. /\ Len(Admit(s, k).queue) = Len(s.queue) - k
        /\ \A i \in 1..(Len(s.queue) - k) : Admit(s, k).queue[i] = s.queue[k + i]
        /\ Waiters(s) \ Waiters(Admit(s, k)) = {s.queue[i] : i \in 1..k}
    BY AdmitCallers, Zenon
  <2> QED BY <1>1, <2>1, Zenon
<1>3. Len(s.queue) \in Nat
  BY DEF Sems, SemsOf
<1>4. \A i \in 1..k : s.queue[i] \notin Waiters(t)
  BY <1>2
<1> QED BY <1>1, <1>2, <1>3, <1>4 DEF Shifted

\* resize() serves a prefix of the queue.
LEMMA ResizeShifts ==
  ASSUME NEW s, NEW calls, Consistent(s, calls), NEW m \in Int
  PROVE  \E k \in Nat : /\ Shifted(s, Resize(s, m), k)
                        /\ Len(Resize(s, m).queue) = Len(s.queue) - k
<1>1. PICK r : r = WithCeiling(s, m)
  OBVIOUS
<1>2. r \in Sems /\ NoRepeats(r.queue) /\ r.queue = s.queue
  BY <1>1, CeilingConsistent DEF Consistent
<1>3. r.max \in Nat /\ r.current \in Nat /\ Len(r.queue) \in Nat
  BY <1>2 DEF Sems, SemsOf
<1>4. PICK k : k = Admissible(r)
  OBVIOUS
<1>5. k \in 0..Len(r.queue)
  BY <1>3, <1>4 DEF Admissible, Unlimited
<1>6. Resize(s, m) = Admit(r, k)
  BY <1>1, <1>4 DEF Resize
<1>7. PICK t : t = Resize(s, m)
  OBVIOUS
<1>8. Shifted(r, t, k) /\ Len(t.queue) = Len(r.queue) - k
  BY <1>2, <1>5, <1>6, <1>7, AdmitShifts
<1>9. k \in Nat /\ Shifted(s, t, k) /\ Len(t.queue) = Len(s.queue) - k
  BY <1>2, <1>3, <1>5, <1>8 DEF Shifted
<1> QED BY <1>7, <1>9, Zenon

\* So does release(), of one waiter or none.
LEMMA ReleaseShifts ==
  ASSUME NEW s, NEW calls, Consistent(s, calls)
  PROVE  \E k \in Nat : Shifted(s, Release(s), k)
<1>1. PICK r : r = GiveBack(s)
  OBVIOUS
<1>2. s \in Sems /\ NoRepeats(s.queue) /\ s.current \in Nat
  BY DEF Consistent, Sems, SemsOf
<1>3. r = [max |-> s.max, current |-> IF s.current > 0 THEN s.current - 1 ELSE s.current,
           queue |-> s.queue]
  BY <1>1, <1>2 DEF GiveBack, Sems, SemsOf
<1>4. r \in Sems /\ r.queue = s.queue /\ NoRepeats(r.queue)
  BY <1>2, <1>3 DEF Sems, SemsOf
<1>5. PICK k : k = IF HasRoom(r) /\ r.queue # <<>> THEN 1 ELSE 0
  OBVIOUS
<1>6. Release(s) = Admit(r, k)
  BY <1>1, <1>5 DEF Release
<1>7. k \in 0..Len(r.queue) /\ k \in Nat
  <2>1. r.queue \in Seq(Callers) /\ Len(r.queue) \in Nat
    BY <1>4 DEF Sems, SemsOf
  <2>2. r.queue # <<>> => Len(r.queue) # 0
    BY <2>1, EmptySeq
  <2> QED BY <1>5, <2>1, <2>2
<1>8. Shifted(r, Release(s), k)
  BY <1>4, <1>6, <1>7, AdmitShifts
<1> QED BY <1>4, <1>7, <1>8 DEF Shifted

\* acquire() leaves the queue alone or appends to it.
LEMMA AcquireQueue ==
  ASSUME NEW s \in Sems, NEW c
  PROVE  Acquire(s, c).queue = IF HasRoom(s) THEN s.queue ELSE Append(s.queue, c)
<1>1. CASE HasRoom(s)
  BY <1>1 DEF Acquire, Sems, SemsOf
<1>2. CASE ~HasRoom(s)
  BY <1>2 DEF Acquire, Sems, SemsOf
<1> QED BY <1>1, <1>2

\* acquire() serves none of those who wait.
LEMMA AcquireShifts ==
  ASSUME NEW s, NEW calls, Consistent(s, calls), NEW c \in Callers
  PROVE  Shifted(s, Acquire(s, c), 0)
<1>1. PICK t : t = Acquire(s, c)
  OBVIOUS
<1>2. s \in Sems /\ s.queue \in Seq(Callers) /\ Len(s.queue) \in Nat
  BY DEF Consistent, Sems, SemsOf
<1>3. PICK q : q = Append(s.queue, c)
  OBVIOUS
<1>4. Len(q) = Len(s.queue) + 1 /\ \A i \in 1..Len(s.queue) : q[i] = s.queue[i]
  BY <1>2, <1>3, AppendProperties
<1>5. t.queue = s.queue \/ t.queue = q
  BY <1>1, <1>2, <1>3, AcquireQueue
<1> QED BY <1>1, <1>2, <1>4, <1>5 DEF Shifted

\* Serving waiters, and then more of those that are left.
LEMMA ShiftTwice ==
  ASSUME NEW s, NEW r, NEW t, NEW k \in Nat, NEW m \in Nat, NEW C,
         Len(s.queue) \in Nat, Shifted(s, r, k), Len(r.queue) = Len(s.queue) - k,
         Shifted(r, t, m), Waiters(t) \subseteq Waiters(r) \cup C,
         \A i \in 1..Len(s.queue) : s.queue[i] \notin C
  PROVE  Shifted(s, t, k + m)
<1>1. k + m \in 0..Len(s.queue)
  BY DEF Shifted
<1>2. Len(t.queue) \in Nat /\ Len(t.queue) >= Len(s.queue) - (k + m)
  BY DEF Shifted
<1>3. ASSUME NEW i \in 1..(Len(s.queue) - (k + m))
      PROVE  t.queue[i] = s.queue[k + m + i]
  <2>1. i \in 1..(Len(r.queue) - m) /\ m + i \in 1..(Len(s.queue) - k)
    <3>1. PICK n \in Nat : n = Len(s.queue)
      OBVIOUS
    <3>2. Len(r.queue) = n - k /\ i \in 1..(n - (k + m))
      BY <3>1
    <3>3. i \in 1..((n - k) - m) /\ m + i \in 1..(n - k)
      BY <3>2
    <3> QED BY <3>1, <3>2, <3>3
  <2>2. t.queue[i] = r.queue[m + i] /\ r.queue[m + i] = s.queue[k + (m + i)]
    BY <2>1 DEF Shifted
  <2> QED BY <2>2
<1>4. ASSUME NEW i \in 1..(k + m) PROVE s.queue[i] \notin Waiters(t)
  <2>1. CASE i \in 1..k
    BY <1>1, <2>1 DEF Shifted
  <2>2. CASE i \notin 1..k
    <3>1. i - k \in 1..m /\ i - k \in 1..(Len(s.queue) - k) /\ k + (i - k) = i
      BY <1>1, <2>2
    <3>2. r.queue[i - k] = s.queue[i]
      BY <3>1 DEF Shifted
    <3> QED BY <3>1, <3>2 DEF Shifted
  <2> QED BY <2>1, <2>2
<1> QED BY <1>1, <1>2, <1>3, <1>4 DEF Shifted

\* Every step but an abort serves a prefix of the queue.
LEMMA StepShifts ==
  ASSUME IInv, IInv', NEW c \in Callers, NEW limit \in Limits,
         \/ Request(c, limit) \/ RequestAborted(c, limit)
         \/ EndStream(c) \/ EndSpawn(c, limit)
  PROVE  \E k \in Nat : Shifted(sem, sem', k)
<1>1. Consistent(sem, call) /\ NoIdle(sem) /\ Waiters(sem) = WaitingIn(call)
      /\ Len(sem.queue) \in Nat /\ limit \in Int
  BY LimitsAssumption DEF IInv, Consistent, Sems, SemsOf
<1>2. PICK r : r = Resize(sem, limit)
  OBVIOUS
<1>3. PICK w : w = Wake(r, call)
  OBVIOUS
<1>4. Consistent(r, w) /\ NoIdle(r) /\ Waiters(r) \subseteq Waiters(sem)
  BY <1>1, <1>2, <1>3, ResizeConsistent
<1>5. PICK k \in Nat : Shifted(sem, r, k) /\ Len(r.queue) = Len(sem.queue) - k
  BY <1>1, <1>2, ResizeShifts
<1>6. CASE Request(c, limit)
  <2>1. sem' = Acquire(r, c) /\ w[c] = "idle" /\ call[c] = "idle"
        /\ call' = Wake(sem', [call EXCEPT ![c] = "waiting"])
    BY <1>2, <1>3, <1>6 DEF Request, Wake
  <2>2. Shifted(r, sem', 0)
    BY <1>4, <2>1, AcquireShifts
  <2>3. Waiters(sem') = WaitingIn(call')
    BY DEF IInv, Consistent
  <2>4. Waiters(sem') \subseteq Waiters(r) \cup {c}
    <3>1. PICK q : q = Append(r.queue, c)
      OBVIOUS
    <3>2. r \in Sems /\ r.queue \in Seq(Callers) /\ Len(r.queue) \in Nat
      BY <1>4 DEF Consistent, Sems, SemsOf
    <3>3. Len(q) = Len(r.queue) + 1 /\ q[Len(q)] = c
          /\ \A i \in 1..Len(r.queue) : q[i] = r.queue[i]
      BY <3>1, <3>2, AppendProperties
    <3>4. sem'.queue = r.queue \/ sem'.queue = q
      BY <2>1, <3>1, <3>2, AcquireQueue
    <3>5. \A i \in 1..Len(q) : q[i] = c \/ \E j \in 1..Len(r.queue) : q[i] = r.queue[j]
      BY <3>2, <3>3
    <3> QED BY <3>4, <3>5 DEF Waiters
  <2>5. \A i \in 1..Len(sem.queue) : sem.queue[i] \notin {c}
    BY <1>1, <2>1 DEF Waiters, WaitingIn
  <2>6. Shifted(sem, sem', k + 0)
    BY <1>1, <1>5, <2>2, <2>4, <2>5, ShiftTwice
  <2> QED BY <2>6
<1>7. CASE RequestAborted(c, limit)
  BY <1>2, <1>5, <1>7 DEF RequestAborted
<1>8. CASE EndStream(c)
  BY <1>1, <1>8, ReleaseShifts DEF EndStream
<1>9. CASE EndSpawn(c, limit)
  <2>1. sem' = Release(r) /\ w[c] = "holding"
    BY <1>2, <1>3, <1>9 DEF EndSpawn, Wake
  <2>2. PICK m \in Nat : Shifted(r, sem', m)
    BY <1>4, <2>1, ReleaseShifts
  <2>3. Waiters(sem') \subseteq Waiters(r) \cup {c}
    BY <1>4, <2>1, ReleaseConsistent
  <2>4. Shifted(sem, sem', k + m)
    <3>1. \A i \in 1..Len(sem.queue) : sem.queue[i] \notin {c}
      BY <1>1, <1>9 DEF EndSpawn, Waiters, WaitingIn
    <3> QED BY <1>1, <1>5, <2>2, <2>3, <3>1, ShiftTwice
  <2> QED BY <2>4
<1> QED BY <1>6, <1>7, <1>8, <1>9

\* A waiter that gets a slot leaves nobody behind who was ahead of it.
THEOREM ServedInOrder == Spec => ArrivalOrder
<1> DEFINE InOrder == \A i, j \in 1..Len(sem.queue) :
                        i < j /\ call'[sem.queue[j]] = "holding" => call'[sem.queue[i]] # "waiting"
<1>1. ASSUME IInv, IInv', Next PROVE InOrder
  <2>1. /\ Waiters(sem) = WaitingIn(call) /\ Waiters(sem') = WaitingIn(call')
        /\ Len(sem.queue) \in Nat
        /\ \A i \in 1..Len(sem.queue) : sem.queue[i] \in Callers /\ call[sem.queue[i]] = "waiting"
    <3>1. Waiters(sem) = WaitingIn(call) /\ Waiters(sem') = WaitingIn(call') /\ sem \in Sems
      BY <1>1 DEF IInv, Consistent
    <3>2. \A i \in 1..Len(sem.queue) : sem.queue[i] \in WaitingIn(call)
      BY <3>1 DEF Waiters
    <3> QED BY <3>1, <3>2 DEF Sems, SemsOf, WaitingIn
  <2>2. ASSUME NEW k \in Nat, Shifted(sem, sem', k) PROVE InOrder
    <3> SUFFICES ASSUME NEW i \in 1..Len(sem.queue), NEW j \in 1..Len(sem.queue), i < j,
                        call'[sem.queue[j]] = "holding"
                 PROVE  call'[sem.queue[i]] # "waiting"
      OBVIOUS
    <3>1. sem.queue[j] \notin Waiters(sem')
      BY <2>1 DEF WaitingIn
    <3>2. j \in 1..k
      <4>1. SUFFICES ASSUME j > k PROVE FALSE
        BY <2>2
      <4>2. j - k \in 1..(Len(sem.queue) - k) /\ k + (j - k) = j /\ j - k \in 1..Len(sem'.queue)
        BY <2>1, <2>2, <4>1 DEF Shifted
      <4>3. sem'.queue[j - k] = sem.queue[j]
        BY <2>2, <4>2 DEF Shifted
      <4> QED BY <3>1, <4>2, <4>3 DEF Waiters
    <3>3. sem.queue[i] \notin Waiters(sem')
      BY <2>2, <3>2 DEF Shifted
    <3> QED BY <2>1, <3>3 DEF WaitingIn
  <2>3. ASSUME NEW c \in Callers, Abandon(c) PROVE InOrder
    BY <1>1, <2>1, <2>3 DEF Abandon, IInv, Consistent
  <2>4. ASSUME NEW c \in Callers, EndStream(c) PROVE InOrder
    BY <1>1, <2>2, <2>4, LimitsAssumption, StepShifts
  <2>5. ASSUME NEW c \in Callers, NEW limit \in Limits,
               Request(c, limit) \/ RequestAborted(c, limit) \/ EndSpawn(c, limit)
        PROVE  InOrder
    BY <1>1, <2>2, <2>5, StepShifts
  <2> QED BY <1>1, <2>3, <2>4, <2>5 DEF Next
<1>2. IInv /\ IInv' /\ [Next]_vars => [InOrder]_vars
  BY <1>1
<1> QED BY <1>2, InductiveInvariant, PTL DEF Spec, ArrivalOrder

\* acquire() has a fast path that does not look at the queue; it is only ever
\* taken while the queue is empty.
THEOREM FastPathIsFair == Spec => NoOvertaking
<1> DEFINE Fair == \A c \in Callers :
                     call[c] = "idle" /\ call'[c] = "holding" => sem'.queue = <<>>
<1>1. ASSUME IInv, IInv', Next PROVE Fair
  <2>1. call \in [Callers -> CallStates] /\ Consistent(sem, call)
    BY <1>1 DEF IInv, Consistent
  <2>2. ASSUME NEW c \in Callers, NEW limit \in Limits, Request(c, limit) PROVE Fair
    <3>1. PICK r : r = Resize(sem, limit)
      OBVIOUS
    <3>2. Consistent(r, Wake(r, call)) /\ NoIdle(r)
      BY <2>1, <3>1, LimitsAssumption, ResizeConsistent
    <3>3. sem' = Acquire(r, c) /\ call' = Wake(sem', [call EXCEPT ![c] = "waiting"])
      BY <2>2, <3>1 DEF Request
    <3>4. r \in Sems
      BY <3>2 DEF Consistent
    <3>5. CASE HasRoom(r)
      <4>1. sem' = [max |-> r.max, current |-> r.current + 1, queue |-> r.queue]
        BY <3>3, <3>4, <3>5 DEF Acquire, Sems, SemsOf
      <4> QED BY <3>2, <3>5, <4>1 DEF NoIdle
    <3>6. CASE ~HasRoom(r)
      <4>1. sem' = [max |-> r.max, current |-> r.current, queue |-> Append(r.queue, c)]
        BY <3>3, <3>4, <3>6 DEF Acquire, Sems, SemsOf
      <4>2. r.queue \in Seq(Callers) /\ Len(r.queue) \in Nat
        BY <3>4 DEF Sems, SemsOf
      <4>3. c \in Waiters(sem')
        <5>1. PICK q : q = Append(r.queue, c)
          OBVIOUS
        <5>2. Len(q) = Len(r.queue) + 1 /\ q[Len(q)] = c
          BY <4>2, <5>1, AppendProperties
        <5>3. Len(q) \in 1..Len(q)
          BY <4>2, <5>2
        <5> QED BY <4>1, <5>1, <5>2, <5>3 DEF Waiters
      <4> QED BY <2>1, <3>3, <4>3 DEF Wake
    <3> QED BY <3>5, <3>6
  <2>3. ASSUME NEW c \in Callers, NEW limit \in Limits, RequestAborted(c, limit) PROVE Fair
    BY <2>1, <2>3 DEF RequestAborted, Wake
  <2>4. ASSUME NEW c \in Callers, Abandon(c) PROVE Fair
    BY <2>1, <2>4 DEF Abandon
  <2>5. ASSUME NEW c \in Callers, EndStream(c) PROVE Fair
    BY <2>1, <2>5 DEF EndStream, Wake
  <2>6. ASSUME NEW c \in Callers, NEW limit \in Limits, EndSpawn(c, limit) PROVE Fair
    BY <2>1, <2>6 DEF EndSpawn, Wake
  <2> QED BY <1>1, <2>2, <2>3, <2>4, <2>5, <2>6 DEF Next
<1>2. IInv /\ IInv' /\ [Next]_vars => [Fair]_vars
  BY <1>1
<1> QED BY <1>2, InductiveInvariant, PTL DEF Spec, NoOvertaking

-----------------------------------------------------------------------------
(***************************************************************************)
(* The tree of agents under two levels of semaphores (SpawnTree).  For     *)
(* every tree and every pair of limits, both levels of semaphores count    *)
(* exactly the agents that hold their slots, and what a task call leaves   *)
(* behind has had its abort signal and waits in no queue.                  *)
(*                                                                         *)
(* The inductive invariant says more about each semaphore than its count:  *)
(* the queue has no repeats and holds exactly the agents that wait there,  *)
(* so the waiters a release or a resize admits are agents that did not     *)
(* hold a slot yet.                                                        *)
(***************************************************************************)

Phases == {"unborn", "spawnWait", "thinking", "llmWait", "streaming", "tools",
           "finishing", "done"}

\* The agents H hold a slot of s, and the agents Q wait for one.
Exact(s, H, Q) ==
  /\ s \in SemsOf(Agents)
  /\ NoRepeats(s.queue)
  /\ Waiters(s) = Q
  /\ H \subseteq Agents
  /\ s.current = Cardinality(H)
  /\ H \cap Q = {}

InPhase(ph, S, phases) == {a \in S : ph[a] \in phases}

Active == Phases \ {"unborn", "spawnWait", "done"}

ProviderExact(s, ph) ==
  Exact(s, InPhase(ph, Agents, {"streaming"}), InPhase(ph, Agents, {"llmWait"}))

SpawnExact(s, ph, p) ==
  Exact(s, InPhase(ph, ChildSet(p), Active), InPhase(ph, ChildSet(p), {"spawnWait"}))

Typed == /\ pc \in [Agents -> Phases]
         /\ spawn \in [Agents -> SemsOf(Agents)]
         /\ turn \in [Agents -> {1, 2}]
         /\ aborted \in SUBSET Agents

\* Only an agent inside its task call has children that are under way and have
\* not had their signal.
ParentsInCall ==
  \A a \in Agents : pc[a] # "tools" =>
    \A c \in ChildSet(a) : pc[c] \in {"unborn", "done"} \/ c \in aborted

\* The signal reaches the whole tree below an agent and takes it off every queue.
\* It fires from an agent that has made its one task call, so a call that starts
\* finds children that have not had it.
SignalsReach ==
  /\ \A a \in aborted : pc[a] \notin {"llmWait", "spawnWait"} /\ ChildSet(a) \subseteq aborted
  /\ \A a \in Agents : pc[a] = "tools" => turn[a] = 1
  /\ \A a \in Agents \ aborted : turn[a] = 1 => ChildSet(a) \cap aborted = {}

TreeInv == /\ Typed
           /\ ProviderExact(provider, pc)
           /\ \A p \in Agents : SpawnExact(spawn[p], pc, p)
           /\ ParentsInCall
           /\ SignalsReach

-----------------------------------------------------------------------------
(* The semaphore operations keep the count exact.                          *)

LEMMA FiniteHolders ==
  ASSUME NEW H, H \subseteq Agents
  PROVE  IsFiniteSet(H) /\ Cardinality(H) \in Nat
BY TreeAssumption, FS_Subset, FS_CardinalityType

LEMMA SemaphoreFields ==
  ASSUME NEW s \in SemsOf(Agents)
  PROVE  /\ s.max \in Nat /\ s.current \in Nat
         /\ s.queue \in Seq(Agents) /\ Len(s.queue) \in Nat
         /\ Waiters(s) \subseteq Agents
         /\ Waiters(s) = Members(s.queue)
BY DEF SemsOf, Waiters, Members

LEMMA AdmitExact ==
  ASSUME NEW s, NEW H, NEW Q, Exact(s, H, Q), NEW k \in 0..Len(s.queue),
         NEW t, t = Admit(s, k)
  PROVE  /\ Waiters(t) \subseteq Q
         /\ Exact(t, H \cup (Q \ Waiters(t)), Waiters(t))
<1>1. s \in SemsOf(Agents) /\ s.queue \in Seq(Agents) /\ NoRepeats(s.queue)
      /\ Waiters(s) = Q /\ Q \subseteq Agents
  BY SemaphoreFields DEF Exact
<1>2. /\ t \in SemsOf(Agents)
      /\ t.current = s.current + k
      /\ NoRepeats(t.queue)
      /\ Waiters(t) \subseteq Q
      /\ Q \ Waiters(t) = {s.queue[i] : i \in 1..k}
  <2>1. TakesFirst(Agents, s, t, k)
    BY <1>1, AdmitTakesFirst, Zenon
  <2> QED BY <1>1, <2>1 DEF TakesFirst
<1>3. PICK A : A = Q \ Waiters(t)
  OBVIOUS
<1>4. IsFiniteSet(A) /\ Cardinality(A) = k
  <2>1. A = {s.queue[i] : i \in 1..k}
    BY <1>2, <1>3
  <2> QED BY <1>1, <2>1, PrefixCardinality
<1>5. /\ IsFiniteSet(H) /\ Cardinality(H) = s.current /\ H \subseteq Agents
      /\ H \cap A = {} /\ s.current \in Nat
  BY <1>3, FiniteHolders DEF Exact
<1>6. Cardinality(H \cup A) = s.current + k
  <2>1. Cardinality(H \cup A) = Cardinality(H) + Cardinality(A) - Cardinality(H \cap A)
    BY <1>4, <1>5, FS_Union
  <2>2. Cardinality(H \cap A) = 0
    BY <1>5, FS_EmptySet
  <2> QED BY <1>4, <1>5, <2>1, <2>2
<1>7. (H \cup A) \cap Waiters(t) = {} /\ H \cup A \subseteq Agents
  BY <1>1, <1>2, <1>3, <1>5 DEF Exact
<1>8. Exact(t, H \cup A, Waiters(t))
  BY <1>2, <1>6, <1>7 DEF Exact
<1> QED BY <1>2, <1>3, <1>8

LEMMA GiveBackExact ==
  ASSUME NEW s, NEW H, NEW Q, Exact(s, H, Q), NEW h \in H
  PROVE  Exact(GiveBack(s), H \ {h}, Q)
<1>1. s \in SemsOf(Agents) /\ s.current = Cardinality(H) /\ IsFiniteSet(H)
      /\ s.max \in Nat /\ s.current \in Nat /\ s.queue \in Seq(Agents)
  BY FiniteHolders, SemaphoreFields DEF Exact
<1>2. Cardinality(H \ {h}) = s.current - 1 /\ s.current > 0
  <2>1. Cardinality(H \ {h}) = Cardinality(H) - 1
    BY <1>1, FS_RemoveElement
  <2>2. H \ {h} \subseteq Agents
    BY DEF Exact
  <2>3. Cardinality(H \ {h}) \in Nat
    BY <2>2, FiniteHolders
  <2> QED BY <1>1, <2>1, <2>3
<1>3. PICK t : t = GiveBack(s)
  OBVIOUS
<1>4. t = [max |-> s.max, current |-> s.current - 1, queue |-> s.queue]
  BY <1>1, <1>2, <1>3 DEF GiveBack, SemsOf
<1>5. t \in SemsOf(Agents) /\ t.current = s.current - 1 /\ t.queue = s.queue
  BY <1>1, <1>2, <1>4 DEF SemsOf
<1>6. Exact(t, H \ {h}, Q)
  BY <1>2, <1>5 DEF Exact, Waiters
<1> QED BY <1>3, <1>6

LEMMA ReleaseExact ==
  ASSUME NEW s, NEW H, NEW Q, Exact(s, H, Q), NEW h \in H,
         NEW t, t = Release(s)
  PROVE  /\ Waiters(t) \subseteq Q
         /\ Exact(t, (H \ {h}) \cup (Q \ Waiters(t)), Waiters(t))
<1>1. PICK r : r = GiveBack(s)
  OBVIOUS
<1>2. Exact(r, H \ {h}, Q)
  BY <1>1, GiveBackExact
<1>3. PICK k : k = IF HasRoom(r) /\ r.queue # <<>> THEN 1 ELSE 0
  OBVIOUS
<1>4. k \in 0..Len(r.queue)
  <2>1. r.queue \in Seq(Agents) /\ Len(r.queue) \in Nat
    BY <1>2, SemaphoreFields DEF Exact
  <2> QED BY <1>3, <2>1, EmptySeq
<1>5. t = Admit(r, k)
  BY <1>1, <1>3 DEF Release
<1>6. PICK G : G = H \ {h}
  OBVIOUS
<1>7. /\ Waiters(t) \subseteq Q
      /\ Exact(t, G \cup (Q \ Waiters(t)), Waiters(t))
  BY <1>2, <1>4, <1>5, <1>6, AdmitExact
<1> QED BY <1>6, <1>7

LEMMA AdmissibleRange ==
  ASSUME NEW s \in SemsOf(Agents)
  PROVE  Admissible(s) \in 0..Len(s.queue)
BY SemaphoreFields DEF Admissible, Unlimited

LEMMA ResizeExact ==
  ASSUME NEW s, NEW H, NEW Q, Exact(s, H, Q), NEW m \in Nat,
         NEW t, t = Resize(s, m)
  PROVE  /\ Waiters(t) \subseteq Q
         /\ Exact(t, H \cup (Q \ Waiters(t)), Waiters(t))
<1>1. PICK r : r = WithCeiling(s, m)
  OBVIOUS
<1>2. Exact(r, H, Q)
  <2>1. s.max \in Nat /\ s.current \in Nat /\ s.queue \in Seq(Agents) /\ s \in SemsOf(Agents)
    BY SemaphoreFields DEF Exact
  <2>2. Normalize(m) \in Nat
    BY DEF Normalize, Unlimited
  <2>3. r = [max |-> Normalize(m), current |-> s.current, queue |-> s.queue]
    BY <1>1, <2>1 DEF WithCeiling, SemsOf
  <2>4. r \in SemsOf(Agents) /\ r.current = s.current /\ r.queue = s.queue
    BY <2>1, <2>2, <2>3 DEF SemsOf
  <2> QED BY <2>4 DEF Exact, Waiters
<1>3. PICK k : k = Admissible(r)
  OBVIOUS
<1>4. k \in 0..Len(r.queue)
  BY <1>2, <1>3, AdmissibleRange DEF Exact
<1>5. t = Admit(r, k)
  BY <1>1, <1>3 DEF Resize
<1> QED BY <1>2, <1>4, <1>5, AdmitExact

\* acquire(): a newcomer holds a slot afterwards, or waits for one.
LEMMA AcquireExact ==
  ASSUME NEW s, NEW H, NEW Q, Exact(s, H, Q), NEW a \in Agents \ (H \cup Q),
         NEW t, t = Acquire(s, a)
  PROVE  \/ a \notin Waiters(t) /\ Exact(t, H \cup {a}, Q)
         \/ a \in Waiters(t) /\ Exact(t, H, Q \cup {a})
<1>1. s \in SemsOf(Agents) /\ s.max \in Nat /\ s.current \in Nat /\ s.queue \in Seq(Agents)
      /\ Len(s.queue) \in Nat /\ NoRepeats(s.queue) /\ Waiters(s) = Q /\ H \subseteq Agents
      /\ s.current = Cardinality(H) /\ H \cap Q = {} /\ IsFiniteSet(H)
  BY SemaphoreFields, FiniteHolders DEF Exact
<1>2. CASE HasRoom(s)
  <2>1. t = [max |-> s.max, current |-> s.current + 1, queue |-> s.queue]
    BY <1>1, <1>2 DEF Acquire, SemsOf
  <2>2. t \in SemsOf(Agents) /\ t.current = s.current + 1 /\ t.queue = s.queue
    BY <1>1, <2>1 DEF SemsOf
  <2>3. Waiters(t) = Q
    BY <1>1, <2>2 DEF Waiters
  <2>4. Cardinality(H \cup {a}) = s.current + 1
    BY <1>1, FS_AddElement
  <2>5. (H \cup {a}) \cap Q = {} /\ H \cup {a} \subseteq Agents
    BY <1>1
  <2>6. Exact(t, H \cup {a}, Q)
    BY <1>1, <2>2, <2>3, <2>4, <2>5 DEF Exact
  <2> QED BY <2>3, <2>6
<1>3. CASE ~HasRoom(s)
  <2>1. PICK q : q = Append(s.queue, a)
    OBVIOUS
  <2>2. /\ q \in Seq(Agents) /\ Len(q) = Len(s.queue) + 1
        /\ \A i \in 1..Len(s.queue) : q[i] = s.queue[i]
        /\ q[Len(s.queue) + 1] = a
    BY <1>1, <2>1, AppendProperties
  <2>3. t = [max |-> s.max, current |-> s.current, queue |-> q]
    BY <1>1, <1>3, <2>1 DEF Acquire, SemsOf
  <2>4. t \in SemsOf(Agents) /\ t.current = s.current /\ t.queue = q
    BY <1>1, <2>2, <2>3 DEF SemsOf
  <2>5. \A i \in 1..Len(s.queue) : s.queue[i] # a
    BY <1>1 DEF Waiters
  <2>6. \A i \in 1..Len(q) : i \in 1..Len(s.queue) \/ i = Len(s.queue) + 1
    BY <1>1, <2>2
  <2>7. NoRepeats(q)
    BY <1>1, <2>2, <2>5, <2>6 DEF NoRepeats
  <2>8. Members(q) = Members(s.queue) \cup {a}
    <3>1. Len(s.queue) + 1 \in 1..Len(q) /\ \A i \in 1..Len(s.queue) : i \in 1..Len(q)
      BY <1>1, <2>2
    <3> QED BY <2>2, <2>6, <3>1 DEF Members
  <2>9. Waiters(t) = Q \cup {a}
    BY <1>1, <2>4, <2>8, SemaphoreFields
  <2>10. H \cap (Q \cup {a}) = {}
    BY <1>1
  <2>11. Exact(t, H, Q \cup {a})
    BY <1>1, <2>4, <2>7, <2>9, <2>10 DEF Exact
  <2> QED BY <2>9, <2>11
<1> QED BY <1>2, <1>3

\* Joining two sequences without repeats and without a common member.
LEMMA JoinMembers ==
  ASSUME NEW q \in Seq(Agents), NEW cs \in Seq(Agents), NoRepeats(q), NoRepeats(cs),
         Members(q) \cap Members(cs) = {}
  PROVE  /\ q \o cs \in Seq(Agents)
         /\ NoRepeats(q \o cs)
         /\ Members(q \o cs) = Members(q) \cup Members(cs)
<1>1. PICK r : r = q \o cs
  OBVIOUS
<1>2. Len(q) \in Nat /\ Len(cs) \in Nat
  OBVIOUS
<1>3. /\ r \in Seq(Agents) /\ Len(r) = Len(q) + Len(cs)
      /\ \A i \in 1..Len(r) : r[i] = IF i <= Len(q) THEN q[i] ELSE cs[i - Len(q)]
  <2>1. /\ q \o cs \in Seq(Agents)
        /\ Len(q \o cs) = Len(q) + Len(cs)
        /\ \A i \in 1..(Len(q) + Len(cs)) :
             (q \o cs)[i] = IF i <= Len(q) THEN q[i] ELSE cs[i - Len(q)]
    BY ConcatProperties
  <2> QED BY <1>1, <2>1
<1>4. \A i \in 1..Len(r) : \/ i \in 1..Len(q) /\ r[i] = q[i]
                           \/ i - Len(q) \in 1..Len(cs) /\ r[i] = cs[i - Len(q)]
  BY <1>2, <1>3
<1>5. NoRepeats(r)
  <2> SUFFICES ASSUME NEW i \in 1..Len(r), NEW j \in 1..Len(r), r[i] = r[j]
               PROVE  i = j
    BY DEF NoRepeats
  <2>1. \A m \in 1..Len(q), n \in 1..Len(cs) : q[m] # cs[n]
    BY DEF Members
  <2>2. CASE i \in 1..Len(q) /\ r[i] = q[i]
    <3>1. j \in 1..Len(q) /\ r[j] = q[j]
      BY <1>4, <2>1, <2>2
    <3> QED BY <2>2, <3>1 DEF NoRepeats
  <2>3. CASE i - Len(q) \in 1..Len(cs) /\ r[i] = cs[i - Len(q)]
    <3>1. j - Len(q) \in 1..Len(cs) /\ r[j] = cs[j - Len(q)]
      BY <1>4, <2>1, <2>3
    <3>2. i - Len(q) = j - Len(q)
      BY <2>3, <3>1 DEF NoRepeats
    <3> QED BY <1>2, <1>3, <3>2
  <2> QED BY <1>4, <2>2, <2>3
<1>6. Members(r) \subseteq Members(q) \cup Members(cs)
  BY <1>4 DEF Members
<1>7. Members(q) \subseteq Members(r)
  <2>1. \A i \in 1..Len(q) : i \in 1..Len(r) /\ r[i] = q[i]
    BY <1>2, <1>3
  <2> QED BY <2>1 DEF Members
<1>8. Members(cs) \subseteq Members(r)
  <2>1. ASSUME NEW i \in 1..Len(cs)
        PROVE  Len(q) + i \in 1..Len(r) /\ r[Len(q) + i] = cs[i]
    <3>1. Len(q) + i \in 1..Len(r) /\ ~(Len(q) + i <= Len(q)) /\ (Len(q) + i) - Len(q) = i
      BY <1>2, <1>3
    <3> QED BY <1>3, <3>1
  <2> QED BY <2>1 DEF Members
<1> QED BY <1>1, <1>3, <1>5, <1>6, <1>7, <1>8

\* acquire() of several newcomers: each holds a slot afterwards, or waits for one.
LEMMA AcquireAllExact ==
  ASSUME NEW s, NEW H, NEW Q, Exact(s, H, Q), NEW cs \in Seq(Agents), NoRepeats(cs),
         Members(cs) \cap (H \cup Q) = {}, NEW t, t = AcquireAll(s, cs)
  PROVE  /\ Waiters(t) \subseteq Q \cup Members(cs)
         /\ Exact(t, H \cup ((Q \cup Members(cs)) \ Waiters(t)), Waiters(t))
<1>1. /\ s \in SemsOf(Agents) /\ s.max \in Nat /\ s.current \in Nat /\ s.queue \in Seq(Agents)
      /\ NoRepeats(s.queue) /\ Members(s.queue) = Q /\ H \cap Q = {}
      /\ s.current = Cardinality(H) /\ H \subseteq Agents
  BY SemaphoreFields DEF Exact
<1>2. PICK q : q = s.queue \o cs
  OBVIOUS
<1>3. PICK r : r = [s EXCEPT !.queue = @ \o cs]
  OBVIOUS
<1>4. q \in Seq(Agents) /\ NoRepeats(q) /\ Members(q) = Q \cup Members(cs)
  BY <1>1, <1>2, JoinMembers
<1>5. r = [max |-> s.max, current |-> s.current, queue |-> q]
  BY <1>1, <1>2, <1>3 DEF SemsOf
<1>6. r \in SemsOf(Agents) /\ r.current = s.current /\ r.queue = q
  BY <1>1, <1>4, <1>5 DEF SemsOf
<1>7. PICK R : R = Q \cup Members(cs)
  OBVIOUS
<1>8. H \cap R = {}
  BY <1>1, <1>7
<1>9. Exact(r, H, R)
  BY <1>1, <1>4, <1>6, <1>7, <1>8, SemaphoreFields DEF Exact
<1>10. PICK k : k = Admissible(r)
  OBVIOUS
<1>11. k \in 0..Len(r.queue)
  BY <1>6, <1>10, AdmissibleRange
<1>12. t = Admit(r, k)
  BY <1>3, <1>10 DEF AcquireAll
<1>13. /\ Waiters(t) \subseteq R
       /\ Exact(t, H \cup (R \ Waiters(t)), Waiters(t))
  BY <1>9, <1>11, <1>12, AdmitExact
<1> QED BY <1>7, <1>13

\* The positions K below n are counted off without gaps.
LEMMA Ranks ==
  ASSUME NEW n \in Nat, NEW K, K \subseteq 1..n
  PROVE  /\ Cardinality(K) \in Nat
         /\ \A i \in K : Cardinality({j \in K : j <= i}) \in 1..Cardinality(K)
         /\ \A i, l \in K : Cardinality({j \in K : j <= i}) = Cardinality({j \in K : j <= l})
                            => i = l
         /\ \A k \in 1..Cardinality(K) : \E i \in K : Cardinality({j \in K : j <= i}) = k
<1> DEFINE Upto(i) == {j \in K : j <= i}
           m == Cardinality(K)
           f == [i \in K |-> Cardinality(Upto(i))]
<1>1. IsFiniteSet(K) /\ m \in Nat
  <2>1. IsFiniteSet(1..n)
    BY FS_Interval
  <2>2. IsFiniteSet(K)
    BY <2>1, FS_Subset
  <2> QED BY <2>2, FS_CardinalityType
<1>2. ASSUME NEW i \in K
      PROVE  IsFiniteSet(Upto(i)) /\ Cardinality(Upto(i)) \in 1..m
  <2>1. IsFiniteSet(Upto(i)) /\ Cardinality(Upto(i)) <= m
    BY <1>1, FS_Subset
  <2>2. Cardinality(Upto(i)) \in Nat
    BY <2>1, FS_CardinalityType
  <2>3. i \in Upto(i)
    OBVIOUS
  <2>4. Cardinality(Upto(i)) # 0
    BY <2>1, <2>3, FS_EmptySet
  <2> QED BY <1>1, <2>1, <2>2, <2>4
<1>3. ASSUME NEW i \in K, NEW l \in K, i < l
      PROVE  Cardinality(Upto(i)) # Cardinality(Upto(l))
  <2>1. Upto(i) \subseteq Upto(l)
    <3>1. \A j \in K : j \in Int
      OBVIOUS
    <3>2. \A j \in K : j <= i => j <= l
      BY <1>3, <3>1
    <3> QED BY <3>2
  <2>2. l \in Upto(l) /\ l \notin Upto(i)
    BY <1>3
  <2>3. Upto(i) # Upto(l)
    BY <2>2
  <2> HIDE DEF Upto
  <2> QED BY <1>2, <2>1, <2>3, FS_Subset
<1>4. ASSUME NEW i \in K, NEW l \in K, Cardinality(Upto(i)) = Cardinality(Upto(l))
      PROVE  i = l
  <2> HIDE DEF Upto
  <2> QED BY <1>3, <1>4
<1>5. f \in Injection(K, 1..m)
  <2> HIDE DEF Upto, m
  <2> QED BY <1>2, <1>4 DEF Injection, IsInjective
<1>6. IsFiniteSet(1..m) /\ Cardinality(1..m) = m
  BY <1>1, FS_Interval
<1>7. f \in Surjection(K, 1..m)
  <2> HIDE DEF f
  <2> QED BY <1>1, <1>5, <1>6, FS_Injection
<1>8. ASSUME NEW k \in 1..m
      PROVE  \E i \in K : Cardinality(Upto(i)) = k
  <2> HIDE DEF Upto, m
  <2> QED BY <1>7 DEF Surjection
<1> QED BY <1>1, <1>2, <1>4, <1>8

\* The abort listeners of the agents D take exactly them out of a queue and leave
\* the slots where they are.
LEMMA WithdrawAllExact ==
  ASSUME NEW s, NEW H, NEW Q, Exact(s, H, Q), NEW D, NEW t, t = WithdrawAll(s, D)
  PROVE  Exact(t, H, Q \ D)
<1> DEFINE n == Len(s.queue)
           K == {i \in 1..n : s.queue[i] \notin D}
           m == Cardinality(K)
           Rank(i) == Cardinality({j \in K : j <= i})
           At(k) == CHOOSE i \in K : Rank(i) = k
           q == [k \in 1..m |-> s.queue[At(k)]]
<1>1. /\ s \in SemsOf(Agents) /\ s.max \in Nat /\ s.current \in Nat
      /\ s.queue \in Seq(Agents) /\ n \in Nat /\ Waiters(s) = Members(s.queue)
      /\ NoRepeats(s.queue) /\ Waiters(s) = Q /\ H \cap Q = {}
  BY SemaphoreFields DEF Exact
<1>2. /\ m \in Nat
      /\ \A i \in K : Rank(i) \in 1..m
      /\ \A i, l \in K : Rank(i) = Rank(l) => i = l
      /\ \A k \in 1..m : \E i \in K : Rank(i) = k
  <2>1. K \subseteq 1..n
    OBVIOUS
  <2> HIDE DEF K, n
  <2> QED BY <1>1, <2>1, Ranks, ZenonT(60)
<1>3. \A k \in 1..m : At(k) \in K /\ Rank(At(k)) = k
  <2> HIDE DEF K, m, Rank
  <2> QED BY <1>2
<1>4. \A i \in K : At(Rank(i)) = i
  <2> HIDE DEF K, m, Rank, At
  <2> QED BY <1>2, <1>3
<1>5. t = [max |-> s.max, current |-> s.current, queue |-> q]
  BY <1>1 DEF WithdrawAll, SemsOf
<1>6. \A i \in K : i \in 1..n /\ s.queue[i] \in Agents /\ s.queue[i] \notin D
  BY <1>1
<1>7. q \in Seq(Agents) /\ Len(q) = m /\ \A k \in 1..m : q[k] = s.queue[At(k)]
  <2> HIDE DEF K, m, At
  <2>1. q \in [1..m -> Agents]
    BY <1>3, <1>6
  <2> HIDE DEF q
  <2>2. q \in Seq(Agents) /\ Len(q) = m
    BY <1>2, <2>1
  <2>3. \A k \in 1..m : q[k] = s.queue[At(k)]
    BY DEF q
  <2> QED BY <2>2, <2>3
<1>8. NoRepeats(q)
  <2> SUFFICES ASSUME NEW k \in 1..m, NEW l \in 1..m, q[k] = q[l]
               PROVE  k = l
    <3> HIDE DEF q, m
    <3> QED BY <1>7 DEF NoRepeats
  <2> HIDE DEF K, m, At, Rank, q, n
  <2>1. At(k) \in 1..n /\ At(l) \in 1..n /\ s.queue[At(k)] = s.queue[At(l)]
    BY <1>3, <1>6, <1>7
  <2>2. At(k) = At(l)
    BY <1>1, <2>1 DEF NoRepeats, n
  <2> QED BY <1>3, <2>2
<1>9. Members(q) = Q \ D
  <2>1. ASSUME NEW k \in 1..m
        PROVE  q[k] \in Q \ D
    <3> HIDE DEF K, m, At, q
    <3> QED BY <1>1, <1>3, <1>6, <1>7, <2>1 DEF Members
  <2>2. ASSUME NEW a \in Q \ D
        PROVE  \E k \in 1..m : q[k] = a
    <3>1. PICK i \in 1..n : s.queue[i] = a
      BY <1>1, <2>2 DEF Members
    <3>2. i \in K
      BY <3>1, <2>2
    <3> HIDE DEF K, m, At, Rank, q, n
    <3>3. Rank(i) \in 1..m /\ q[Rank(i)] = s.queue[i]
      BY <1>2, <1>4, <1>7, <3>2
    <3> QED BY <3>1, <3>3
  <2> HIDE DEF m, q
  <2> QED BY <1>7, <2>1, <2>2 DEF Members
<1>10. t \in SemsOf(Agents) /\ t.current = s.current /\ t.queue = q
  <2> HIDE DEF q
  <2> QED BY <1>1, <1>5, <1>7 DEF SemsOf
<1>11. Waiters(t) = Q \ D /\ NoRepeats(t.queue)
  <2> HIDE DEF q
  <2> QED BY <1>8, <1>9, <1>10 DEF Waiters, Members
<1> QED BY <1>1, <1>10, <1>11 DEF Exact

LEMMA NewExact ==
  ASSUME NEW m \in Nat, NEW t, t = NewSemaphore(m)
  PROVE  Exact(t, {}, {})
<1>1. Normalize(m) \in Nat
  BY DEF Normalize, Unlimited
<1>2. t = [max |-> Normalize(m), current |-> 0, queue |-> <<>>]
  BY DEF NewSemaphore
<1>3. t \in SemsOf(Agents) /\ t.current = 0 /\ t.queue = <<>> /\ Len(t.queue) = 0
  BY <1>1, <1>2, EmptySeq DEF SemsOf
<1>4. Waiters(t) = {} /\ NoRepeats(t.queue)
  BY <1>3 DEF Waiters, NoRepeats
<1>5. Cardinality({}) = 0
  BY FS_EmptySet
<1> QED BY <1>3, <1>4, <1>5 DEF Exact

-----------------------------------------------------------------------------
(* The tree, and what a change of phases leaves alone.                     *)

LEMMA ChildrenFacts ==
  ASSUME NEW p \in Agents
  PROVE  /\ Children[p] \in Seq(Agents)
         /\ NoRepeats(Children[p])
         /\ Members(Children[p]) = ChildSet(p)
         /\ ChildSet(p) \subseteq Agents
         /\ Root \notin ChildSet(p)
         /\ \A q \in Agents : q # p => ChildSet(p) \cap ChildSet(q) = {}
<1>1. Children[p] \in Seq(Agents) /\ Members(Children[p]) = ChildSet(p)
  BY TreeAssumption DEF Members, ChildSet
<1>2. NoRepeats(Children[p])
  BY TreeAssumption DEF NoRepeats
<1>3. ChildSet(p) \subseteq Agents
  BY <1>1 DEF ChildSet
<1>4. Root \notin ChildSet(p)
  BY TreeAssumption
<1>5. ASSUME NEW q \in Agents, q # p
      PROVE  ChildSet(p) \cap ChildSet(q) = {}
  <2> SUFFICES ASSUME NEW i \in 1..Len(Children[p]), NEW j \in 1..Len(Children[q]),
                      Children[p][i] = Children[q][j]
               PROVE  FALSE
    BY DEF ChildSet
  <2> QED BY <1>5, TreeAssumption
<1> QED BY <1>1, <1>2, <1>3, <1>4, <1>5

LEMMA ParentFacts ==
  ASSUME NEW c \in Agents, c # Root
  PROVE  ParentOf(c) \in Agents /\ c \in ChildSet(ParentOf(c))
<1>1. \E p \in Agents : c \in ChildSet(p)
  BY TreeAssumption
<1> QED BY <1>1 DEF ParentOf

LEMMA ProviderFrame ==
  ASSUME NEW s, NEW ph, NEW qh, ProviderExact(s, ph),
         \A a \in Agents : /\ qh[a] = "streaming" <=> ph[a] = "streaming"
                           /\ qh[a] = "llmWait" <=> ph[a] = "llmWait"
  PROVE  ProviderExact(s, qh)
<1>1. /\ InPhase(ph, Agents, {"streaming"}) = InPhase(qh, Agents, {"streaming"})
      /\ InPhase(ph, Agents, {"llmWait"}) = InPhase(qh, Agents, {"llmWait"})
  BY DEF InPhase
<1> QED BY <1>1 DEF ProviderExact

LEMMA SpawnFrame ==
  ASSUME NEW s, NEW ph, NEW qh, NEW p \in Agents, SpawnExact(s, ph, p),
         \A c \in ChildSet(p) : /\ qh[c] \in Active <=> ph[c] \in Active
                                /\ qh[c] = "spawnWait" <=> ph[c] = "spawnWait"
  PROVE  SpawnExact(s, qh, p)
<1>1. /\ InPhase(ph, ChildSet(p), Active) = InPhase(qh, ChildSet(p), Active)
      /\ InPhase(ph, ChildSet(p), {"spawnWait"}) = InPhase(qh, ChildSet(p), {"spawnWait"})
  BY DEF InPhase
<1> QED BY <1>1 DEF SpawnExact

\* Children under way stay below a parent that stays in its call.
LEMMA ParentsFrame ==
  ASSUME ParentsInCall, aborted \subseteq aborted',
         \A c \in Agents : pc[c] \in {"unborn", "done"} => pc'[c] \in {"unborn", "done"},
         \A a \in Agents : pc'[a] # "tools" => pc[a] # "tools"
  PROVE  ParentsInCall'
<1> SUFFICES ASSUME NEW a \in Agents, pc'[a] # "tools", NEW c \in ChildSet(a)
             PROVE  pc'[c] \in {"unborn", "done"} \/ c \in aborted'
  BY DEF ParentsInCall, ChildSet
<1>1. c \in Agents
  BY ChildrenFacts
<1>2. pc[c] \in {"unborn", "done"} \/ c \in aborted
  BY DEF ParentsInCall
<1> QED BY <1>1, <1>2

\* A step that fires no signal and makes no aborted agent wait.
LEMMA SignalsFrame ==
  ASSUME SignalsReach, aborted' = aborted,
         \A a \in aborted : pc'[a] \in {"llmWait", "spawnWait"} =>
                              pc[a] \in {"llmWait", "spawnWait"},
         \A a \in Agents : pc'[a] = "tools" => turn'[a] = 1,
         \A a \in Agents : turn'[a] = 1 => turn[a] = 1
  PROVE  SignalsReach'
<1>1. \A a : ChildSet(a)' = ChildSet(a)
  BY DEF ChildSet
<1>2. \A a \in aborted' : pc'[a] \notin {"llmWait", "spawnWait"} /\ ChildSet(a) \subseteq aborted'
  BY DEF SignalsReach
<1>3. \A a \in Agents \ aborted' : turn'[a] = 1 => ChildSet(a) \cap aborted' = {}
  BY DEF SignalsReach
<1> QED BY <1>1, <1>2, <1>3 DEF SignalsReach

\* What is below an agent: its children, and the children of whatever is below it.
LEMMA BelowFacts ==
  ASSUME NEW p \in Agents
  PROVE  /\ Below(p) \subseteq Agents
         /\ ChildSet(p) \subseteq Below(p)
         /\ \A d \in Below(p) : ChildSet(d) \subseteq Below(p)
         /\ \A S \in SUBSET Agents :
              ChildSet(p) \subseteq S /\ (\A d \in S : ChildSet(d) \subseteq S)
                => Below(p) \subseteq S
         /\ \A d \in Below(p) \ ChildSet(p) : \E x \in Below(p) : d \in ChildSet(x)
<1> DEFINE Closed(S) == ChildSet(p) \cup UNION {ChildSet(x) : x \in S} \subseteq S
<1>1. Below(p) = {d \in Agents : \A S \in SUBSET Agents : Closed(S) => d \in S}
  BY DEF Below
<1>2. \A S \in SUBSET Agents : Closed(S) => Below(p) \subseteq S
  BY <1>1
<1>3. \A x \in Agents : ChildSet(x) \subseteq Agents
  BY ChildrenFacts
<1>4. Below(p) \subseteq Agents /\ ChildSet(p) \subseteq Below(p)
  BY <1>1, <1>3
<1>5. ASSUME NEW d \in Below(p)
      PROVE  ChildSet(d) \subseteq Below(p)
  <2> SUFFICES ASSUME NEW c \in ChildSet(d), NEW S \in SUBSET Agents, Closed(S)
               PROVE  c \in S
    BY <1>1, <1>3, <1>4
  <2>1. d \in S
    BY <1>2
  <2> QED BY <2>1
<1>6. ASSUME NEW S \in SUBSET Agents, ChildSet(p) \subseteq S,
             \A d \in S : ChildSet(d) \subseteq S
      PROVE  Below(p) \subseteq S
  <2>1. Closed(S)
    BY <1>6
  <2> HIDE DEF Closed
  <2> QED BY <1>2, <2>1
<1>7. \A d \in Below(p) \ ChildSet(p) : \E x \in Below(p) : d \in ChildSet(x)
  <2>1. PICK S : S = {d \in Below(p) : d \in ChildSet(p) \/ \E x \in Below(p) : d \in ChildSet(x)}
    OBVIOUS
  <2>2. S \in SUBSET Agents /\ ChildSet(p) \subseteq S
    BY <1>4, <2>1
  <2>3. \A d \in S : ChildSet(d) \subseteq S
    BY <1>5, <2>1
  <2>4. Below(p) \subseteq S
    BY <1>6, <2>2, <2>3
  <2> QED BY <2>1, <2>4
<1> QED BY <1>4, <1>5, <1>6, <1>7

\* A child's worker returns its slot: the child a has ended, and the waiters that
\* the slot admits have started.
AfterReturn(a, freed, ph) ==
  /\ freed \in [Agents -> SemsOf(Agents)]
  /\ ph \in [Agents -> Phases]
  /\ \A c \in Agents : \/ c = a /\ ph[c] = "done"
                       \/ c # a /\ pc[c] = "spawnWait" /\ ph[c] = "thinking"
                       \/ c # a /\ ph[c] = pc[c]
  /\ \A q \in Agents : SpawnExact(freed[q], ph, q)

LEMMA SlotReturned ==
  ASSUME Typed, \A q \in Agents : SpawnExact(spawn[q], pc, q),
         NEW a \in Agents, pc[a] \in Active, NEW p \in Agents, a \in ChildSet(p),
         NEW t, t = Release(Resize(spawn[p], SpawnLimit)),
         NEW freed, freed = [spawn EXCEPT ![p] = t],
         NEW ph, ph = Resume([pc EXCEPT ![a] = "done"], spawn[p], t, "thinking")
  PROVE  AfterReturn(a, freed, ph)
<1>0. /\ pc \in [Agents -> Phases] /\ spawn \in [Agents -> SemsOf(Agents)]
      /\ freed[p] = t
  BY DEF Typed
<1>1. PICK r : r = Resize(spawn[p], SpawnLimit)
  OBVIOUS
<1>2. PICK H, Q : /\ H = InPhase(pc, ChildSet(p), Active)
                  /\ Q = InPhase(pc, ChildSet(p), {"spawnWait"})
  OBVIOUS
<1>3. Exact(spawn[p], H, Q) /\ a \in H /\ a \notin Q /\ ChildSet(p) \subseteq Agents
  BY <1>2, ChildrenFacts DEF SpawnExact, InPhase, Active, Phases
<1>4. SpawnLimit \in Nat
  BY LimitAssumption
<1>5. PICK G : G = H \cup (Q \ Waiters(r))
  OBVIOUS
<1>6. Waiters(r) \subseteq Q /\ Exact(r, G, Waiters(r)) /\ a \in G
  BY <1>1, <1>3, <1>4, <1>5, ResizeExact
<1>7. /\ Waiters(t) \subseteq Waiters(r)
      /\ Exact(t, (G \ {a}) \cup (Waiters(r) \ Waiters(t)), Waiters(t))
  BY <1>1, <1>6, ReleaseExact
<1>8. /\ Waiters(t) \subseteq Q
      /\ Exact(t, (H \ {a}) \cup (Q \ Waiters(t)), Waiters(t))
  <2>1. (G \ {a}) \cup (Waiters(r) \ Waiters(t)) = (H \ {a}) \cup (Q \ Waiters(t))
    BY <1>3, <1>5, <1>6, <1>7
  <2> QED BY <1>6, <1>7, <2>1
<1>9. ph = [c \in Agents |-> IF c \in Q \ Waiters(t) THEN "thinking"
                             ELSE [pc EXCEPT ![a] = "done"][c]]
  BY <1>3 DEF Resume, Exact
<1>10. \A c \in Agents : ph[c] = IF c \in Q \ Waiters(t) THEN "thinking"
                                 ELSE IF c = a THEN "done" ELSE pc[c]
  BY <1>0, <1>9
<1>11. ph \in [Agents -> Phases]
  BY <1>0, <1>9, <1>10 DEF Phases
<1>12. freed \in [Agents -> SemsOf(Agents)]
  BY <1>0, <1>8 DEF Exact
<1>13. \A c \in Q : c \in Agents /\ c # a /\ pc[c] = "spawnWait"
  BY <1>2, <1>3 DEF InPhase
<1>14. ASSUME NEW q \in Agents
       PROVE  SpawnExact(freed[q], ph, q)
  <2>1. CASE q = p
    <3>1. InPhase(ph, ChildSet(p), Active) = (H \ {a}) \cup (Q \ Waiters(t))
      <4> SUFFICES ASSUME NEW c
                   PROVE  c \in InPhase(ph, ChildSet(p), Active) <=>
                            c \in (H \ {a}) \cup (Q \ Waiters(t))
        OBVIOUS
      <4>1. CASE c \notin ChildSet(p)
        BY <1>2, <4>1 DEF InPhase
      <4>2. CASE c \in Q \ Waiters(t)
        BY <1>2, <1>3, <1>10, <4>2 DEF InPhase, Active, Phases
      <4>3. CASE c \in ChildSet(p) /\ c \notin Q \ Waiters(t)
        BY <1>2, <1>3, <1>10, <4>3 DEF InPhase, Active, Phases
      <4> QED BY <4>1, <4>2, <4>3
    <3>2. InPhase(ph, ChildSet(p), {"spawnWait"}) = Waiters(t)
      BY <1>2, <1>3, <1>8, <1>10 DEF InPhase
    <3> QED BY <1>0, <1>8, <2>1, <3>1, <3>2 DEF SpawnExact
  <2>2. CASE q # p
    <3>1. \A c \in ChildSet(q) : ph[c] = pc[c]
      BY <1>2, <1>10, <2>2, ChildrenFacts DEF InPhase
    <3>2. freed[q] = spawn[q] /\ SpawnExact(spawn[q], pc, q)
      BY <1>0, <2>2
    <3>3. \A c \in ChildSet(q) : /\ ph[c] \in Active <=> pc[c] \in Active
                                 /\ ph[c] = "spawnWait" <=> pc[c] = "spawnWait"
      BY <3>1
    <3>4. SpawnExact(spawn[q], ph, q)
      BY <3>2, <3>3, SpawnFrame
    <3> QED BY <3>2, <3>4
  <2> QED BY <2>1, <2>2
<1>15. \A c \in Agents : \/ c = a /\ ph[c] = "done"
                         \/ c # a /\ pc[c] = "spawnWait" /\ ph[c] = "thinking"
                         \/ c # a /\ ph[c] = pc[c]
  BY <1>3, <1>10, <1>13
<1> QED BY <1>11, <1>12, <1>14, <1>15 DEF AfterReturn

\* The signal of the agents D fires in the same tick at both levels.
LEMMA UnwoundExact ==
  ASSUME NEW ph \in [Agents -> Phases], NEW D \in SUBSET Agents,
         NEW pv, ProviderExact(pv, ph), NEW sp, \A q \in Agents : SpawnExact(sp[q], ph, q),
         NEW uh, uh = Unwound(ph, D)
  PROVE  /\ uh \in [Agents -> Phases]
         /\ \A c \in Agents : uh[c] = IF c \in D /\ ph[c] = "llmWait" THEN "finishing"
                                      ELSE IF c \in D /\ ph[c] = "spawnWait" THEN "done"
                                      ELSE ph[c]
         /\ ProviderExact(WithdrawAll(pv, D), uh)
         /\ \A q \in Agents : SpawnExact(WithdrawAll(sp[q], D), uh, q)
         /\ [q \in Agents |-> WithdrawAll(sp[q], D)] \in [Agents -> SemsOf(Agents)]
<1>1. uh = [c \in Agents |-> CASE c \in D /\ ph[c] = "llmWait" -> "finishing"
                              [] c \in D /\ ph[c] = "spawnWait" -> "done"
                              [] OTHER -> ph[c]]
  BY DEF Unwound
<1>2. \A c \in Agents : uh[c] = IF c \in D /\ ph[c] = "llmWait" THEN "finishing"
                                ELSE IF c \in D /\ ph[c] = "spawnWait" THEN "done"
                                ELSE ph[c]
  BY <1>1
<1>3. uh \in [Agents -> Phases]
  BY <1>1, <1>2 DEF Phases
<1>4. ProviderExact(WithdrawAll(pv, D), uh)
  <2>1. PICK H, Q : H = InPhase(ph, Agents, {"streaming"}) /\ Q = InPhase(ph, Agents, {"llmWait"})
    OBVIOUS
  <2>2. Exact(pv, H, Q)
    BY <2>1 DEF ProviderExact
  <2>3. Exact(WithdrawAll(pv, D), H, Q \ D)
    BY <2>2, WithdrawAllExact
  <2>4. InPhase(uh, Agents, {"streaming"}) = H /\ InPhase(uh, Agents, {"llmWait"}) = Q \ D
    BY <1>2, <2>1 DEF InPhase
  <2> QED BY <2>3, <2>4 DEF ProviderExact
<1>5. ASSUME NEW q \in Agents
      PROVE  SpawnExact(WithdrawAll(sp[q], D), uh, q)
  <2>1. PICK H, Q : /\ H = InPhase(ph, ChildSet(q), Active)
                    /\ Q = InPhase(ph, ChildSet(q), {"spawnWait"})
    OBVIOUS
  <2>2. Exact(sp[q], H, Q) /\ ChildSet(q) \subseteq Agents
    BY <2>1, ChildrenFacts DEF SpawnExact
  <2>3. Exact(WithdrawAll(sp[q], D), H, Q \ D)
    BY <2>2, WithdrawAllExact
  <2>4. InPhase(uh, ChildSet(q), Active) = H
    BY <1>2, <2>1, <2>2 DEF InPhase, Active, Phases
  <2>5. InPhase(uh, ChildSet(q), {"spawnWait"}) = Q \ D
    BY <1>2, <2>1, <2>2 DEF InPhase
  <2> QED BY <2>3, <2>4, <2>5 DEF SpawnExact
<1>6. [q \in Agents |-> WithdrawAll(sp[q], D)] \in [Agents -> SemsOf(Agents)]
  BY <1>5 DEF SpawnExact, Exact
<1> QED BY <1>2, <1>3, <1>4, <1>5, <1>6

-----------------------------------------------------------------------------
(* Every step keeps the invariant.                                         *)

\* The invariant of the next state, from its parts at the primed variables.
LEMMA PrimedInv ==
  ASSUME Typed', ProviderExact(provider', pc'),
         \A p \in Agents : SpawnExact(spawn'[p], pc', p), ParentsInCall', SignalsReach'
  PROVE  TreeInv'
<1>1. ProviderExact(provider, pc)'
  BY DEF ProviderExact, Exact, InPhase, Waiters
<1>2. ASSUME NEW p \in Agents
      PROVE  SpawnExact(spawn[p], pc, p)'
  <2>1. SpawnExact(spawn'[p], pc', p)
    OBVIOUS
  <2> QED BY <2>1 DEF SpawnExact, Exact, InPhase, Waiters, ChildSet
<1> QED BY <1>1, <1>2 DEF TreeInv

LEMMA InitInv == TreeInit => TreeInv
<1> SUFFICES ASSUME TreeInit
             PROVE  TreeInv
  OBVIOUS
<1>1. ProviderLimit \in Nat /\ SpawnLimit \in Nat /\ Root \in Agents
  BY LimitAssumption, TreeAssumption
<1>2. Exact(provider, {}, {})
  BY <1>1, NewExact DEF TreeInit
<1>3. \A p \in Agents : Exact(spawn[p], {}, {})
  BY <1>1, NewExact DEF TreeInit
<1>4. pc \in [Agents -> Phases] /\ turn \in [Agents -> {1, 2}] /\ aborted \in SUBSET Agents
  BY DEF TreeInit, Phases
<1>5. spawn \in [Agents -> SemsOf(Agents)]
  BY <1>3 DEF TreeInit, Exact
<1>6. ProviderExact(provider, pc)
  <2>1. InPhase(pc, Agents, {"streaming"}) = {} /\ InPhase(pc, Agents, {"llmWait"}) = {}
    BY DEF TreeInit, InPhase
  <2> QED BY <1>2, <2>1 DEF ProviderExact
<1>7. ASSUME NEW p \in Agents
      PROVE  SpawnExact(spawn[p], pc, p)
  <2>1. \A c \in ChildSet(p) : pc[c] = "unborn"
    BY ChildrenFacts DEF TreeInit
  <2>2. /\ InPhase(pc, ChildSet(p), Active) = {}
        /\ InPhase(pc, ChildSet(p), {"spawnWait"}) = {}
    BY <2>1 DEF InPhase, Active
  <2> QED BY <1>3, <2>2 DEF SpawnExact
<1>8. ParentsInCall
  BY ChildrenFacts DEF TreeInit, ParentsInCall
<1>9. SignalsReach
  BY DEF TreeInit, SignalsReach
<1> QED BY <1>4, <1>5, <1>6, <1>7, <1>8, <1>9 DEF TreeInv, Typed

LEMMA RequestLLMInv ==
  ASSUME TreeInv, NEW a \in Agents, RequestLLM(a)
  PROVE  TreeInv'
<1>1. /\ pc \in [Agents -> Phases] /\ pc[a] = "thinking"
      /\ spawn' = spawn /\ turn' = turn /\ aborted' = aborted
  BY DEF TreeInv, Typed, RequestLLM
<1>2. PICK x \in {"finishing", "llmWait", "streaming"} : pc' = [pc EXCEPT ![a] = x]
  BY DEF RequestLLM
<1>3. \A c \in Agents : pc'[c] = IF c = a THEN x ELSE pc[c]
  BY <1>1, <1>2
<1>4. Typed'
  BY <1>1, <1>2 DEF TreeInv, Typed, Phases
<1>5. ProviderExact(provider', pc')
  <2>1. CASE a \in aborted
    <3>1. x = "finishing" /\ provider' = provider
      BY <1>1, <1>3, <2>1 DEF RequestLLM
    <3> QED BY <1>1, <1>3, <3>1, ProviderFrame DEF TreeInv
  <2>2. CASE a \notin aborted
    <3>1. provider' = Acquire(provider, a)
          /\ x = IF a \in Waiters(provider') THEN "llmWait" ELSE "streaming"
      BY <1>1, <1>3, <2>2 DEF RequestLLM
    <3>2. PICK H, Q : H = InPhase(pc, Agents, {"streaming"}) /\ Q = InPhase(pc, Agents, {"llmWait"})
      OBVIOUS
    <3>3. Exact(provider, H, Q) /\ a \in Agents \ (H \cup Q)
      BY <1>1, <3>2 DEF TreeInv, ProviderExact, InPhase
    <3>4. \/ a \notin Waiters(provider') /\ Exact(provider', H \cup {a}, Q)
          \/ a \in Waiters(provider') /\ Exact(provider', H, Q \cup {a})
      BY <3>1, <3>3, AcquireExact
    <3>5. CASE a \notin Waiters(provider') /\ Exact(provider', H \cup {a}, Q)
      <4>1. /\ InPhase(pc', Agents, {"streaming"}) = H \cup {a}
            /\ InPhase(pc', Agents, {"llmWait"}) = Q
        BY <1>1, <1>3, <3>1, <3>2, <3>5 DEF InPhase
      <4> QED BY <3>5, <4>1 DEF ProviderExact
    <3>6. CASE a \in Waiters(provider') /\ Exact(provider', H, Q \cup {a})
      <4>1. /\ InPhase(pc', Agents, {"streaming"}) = H
            /\ InPhase(pc', Agents, {"llmWait"}) = Q \cup {a}
        BY <1>1, <1>3, <3>1, <3>2, <3>6 DEF InPhase
      <4> QED BY <3>6, <4>1 DEF ProviderExact
    <3> QED BY <3>4, <3>5, <3>6
  <2> QED BY <2>1, <2>2
<1>6. ASSUME NEW p \in Agents
      PROVE  SpawnExact(spawn'[p], pc', p)
  <2>1. \A c \in ChildSet(p) : /\ pc'[c] \in Active <=> pc[c] \in Active
                               /\ pc'[c] = "spawnWait" <=> pc[c] = "spawnWait"
    BY <1>1, <1>3, ChildrenFacts DEF Active, Phases
  <2>2. SpawnExact(spawn[p], pc, p)
    BY DEF TreeInv
  <2> QED BY <1>1, <2>1, <2>2, SpawnFrame
<1>7. ParentsInCall'
  BY <1>1, <1>3, ParentsFrame DEF TreeInv
<1>8. SignalsReach'
  <2>1. a \in aborted => pc'[a] = "finishing"
    BY <1>1 DEF RequestLLM
  <2>2. \A c \in Agents : pc'[c] = "tools" => turn'[c] = 1
    BY <1>1, <1>3 DEF TreeInv, SignalsReach
  <2>3. aborted \subseteq Agents
    BY DEF TreeInv, Typed
  <2> QED BY <1>1, <1>3, <2>1, <2>2, <2>3, SignalsFrame DEF TreeInv
<1> QED BY <1>4, <1>5, <1>6, <1>7, <1>8, PrimedInv

LEMMA StreamEndsInv ==
  ASSUME TreeInv, NEW a \in Agents, StreamEnds(a)
  PROVE  TreeInv'
<1>1. /\ pc \in [Agents -> Phases] /\ pc[a] = "streaming"
      /\ spawn' = spawn /\ turn' = turn /\ aborted' = aborted
      /\ provider' = Release(provider)
  BY DEF TreeInv, Typed, StreamEnds
<1>2. PICK x : x = AfterStream(a)
  OBVIOUS
<1>3. x \in {"tools", "finishing"}
  BY <1>2 DEF AfterStream
<1>4. PICK H, Q : H = InPhase(pc, Agents, {"streaming"}) /\ Q = InPhase(pc, Agents, {"llmWait"})
  OBVIOUS
<1>5. PICK t : t = provider'
  OBVIOUS
<1>6. Exact(provider, H, Q) /\ a \in H /\ a \notin Q
  BY <1>1, <1>4 DEF TreeInv, ProviderExact, InPhase
<1>7. /\ Waiters(t) \subseteq Q
      /\ Exact(t, (H \ {a}) \cup (Q \ Waiters(t)), Waiters(t))
  BY <1>1, <1>5, <1>6, ReleaseExact
<1>8. pc' = [c \in Agents |-> IF c \in Q \ Waiters(t) THEN "streaming"
                              ELSE [pc EXCEPT ![a] = x][c]]
  BY <1>2, <1>5, <1>6 DEF StreamEnds, Resume, Exact
<1>9. \A c \in Agents : pc'[c] = IF c \in Q \ Waiters(t) THEN "streaming"
                                 ELSE IF c = a THEN x ELSE pc[c]
  BY <1>1, <1>8
<1>10. Typed'
  <2>1. pc' \in [Agents -> Phases]
    BY <1>1, <1>3, <1>8, <1>9 DEF Phases
  <2> QED BY <1>1, <2>1 DEF TreeInv, Typed
<1>11. ProviderExact(t, pc')
  <2>1. InPhase(pc', Agents, {"streaming"}) = (H \ {a}) \cup (Q \ Waiters(t))
    BY <1>3, <1>4, <1>6, <1>9 DEF InPhase
  <2>2. InPhase(pc', Agents, {"llmWait"}) = Waiters(t)
    BY <1>3, <1>4, <1>6, <1>7, <1>9 DEF InPhase
  <2> QED BY <1>7, <2>1, <2>2 DEF ProviderExact
<1>12. ASSUME NEW p \in Agents
       PROVE  SpawnExact(spawn'[p], pc', p)
  <2>1. \A c \in ChildSet(p) : /\ pc'[c] \in Active <=> pc[c] \in Active
                               /\ pc'[c] = "spawnWait" <=> pc[c] = "spawnWait"
    BY <1>1, <1>3, <1>4, <1>9, ChildrenFacts DEF Active, Phases, InPhase
  <2>2. SpawnExact(spawn[p], pc, p)
    BY DEF TreeInv
  <2> QED BY <1>1, <2>1, <2>2, SpawnFrame
<1>13. ParentsInCall'
  BY <1>1, <1>4, <1>9, ParentsFrame DEF TreeInv, InPhase
<1>14. SignalsReach'
  <2>1. \A c \in Agents : pc'[c] = "tools" => turn'[c] = 1
    BY <1>1, <1>2, <1>9 DEF TreeInv, SignalsReach, AfterStream
  <2>2. aborted \subseteq Agents
    BY DEF TreeInv, Typed
  <2>3. \A c \in aborted : pc'[c] \in {"llmWait", "spawnWait"} => pc[c] \in {"llmWait", "spawnWait"}
    BY <1>3, <1>9, <2>2
  <2> QED BY <1>1, <2>1, <2>3, SignalsFrame DEF TreeInv
<1> QED BY <1>5, <1>10, <1>11, <1>12, <1>13, <1>14, PrimedInv

LEMMA SpawnChildrenInv ==
  ASSUME TreeInv, NEW a \in Agents, SpawnChildren(a)
  PROVE  TreeInv'
<1>1. /\ pc \in [Agents -> Phases] /\ pc[a] = "tools"
      /\ spawn \in [Agents -> SemsOf(Agents)]
      /\ provider' = provider /\ turn' = turn /\ aborted' = aborted
      /\ \A c \in ChildSet(a) : pc[c] = "unborn"
  BY DEF TreeInv, Typed, SpawnChildren
<1>2. PICK C : C = ChildSet(a)
  OBVIOUS
<1>3. PICK t : t = AcquireAll(spawn[a], Children[a])
  OBVIOUS
<1>4. spawn' = [spawn EXCEPT ![a] = t] /\ spawn'[a] = t
  BY <1>1, <1>3 DEF SpawnChildren
<1>5. pc' = [c \in Agents |-> IF c \notin C THEN pc[c]
                              ELSE IF c \in Waiters(t) THEN "spawnWait" ELSE "thinking"]
  BY <1>2, <1>4 DEF SpawnChildren
<1>6. C \subseteq Agents /\ a \notin C
  BY <1>1, <1>2, ChildrenFacts
<1>7. Exact(spawn[a], {}, {})
  <2>1. SpawnExact(spawn[a], pc, a)
    BY DEF TreeInv
  <2>2. InPhase(pc, C, Active) = {} /\ InPhase(pc, C, {"spawnWait"}) = {}
    BY <1>1, <1>2 DEF InPhase, Active
  <2> QED BY <1>2, <2>1, <2>2 DEF SpawnExact
<1>8. Waiters(t) \subseteq C /\ Exact(t, C \ Waiters(t), Waiters(t))
  <2>1. Children[a] \in Seq(Agents) /\ NoRepeats(Children[a]) /\ Members(Children[a]) = C
    BY <1>2, ChildrenFacts
  <2>2. PICK cs : cs = Children[a]
    OBVIOUS
  <2>3. PICK H, s : H = {} /\ s = spawn[a]
    OBVIOUS
  <2>4. Exact(s, H, H) /\ Members(cs) \cap (H \cup H) = {} /\ t = AcquireAll(s, cs)
    BY <1>3, <1>7, <2>2, <2>3
  <2>5. /\ Waiters(t) \subseteq H \cup Members(cs)
        /\ Exact(t, H \cup ((H \cup Members(cs)) \ Waiters(t)), Waiters(t))
    BY <2>1, <2>2, <2>4, AcquireAllExact
  <2>6. H \cup ((H \cup Members(cs)) \ Waiters(t)) = C \ Waiters(t)
    BY <2>1, <2>2, <2>3
  <2> QED BY <2>1, <2>2, <2>3, <2>5, <2>6
<1>9. Typed'
  <2>1. pc' \in [Agents -> Phases]
    BY <1>1, <1>5 DEF Phases
  <2>2. spawn' \in [Agents -> SemsOf(Agents)]
    BY <1>1, <1>4, <1>8 DEF Exact
  <2> QED BY <1>1, <2>1, <2>2 DEF TreeInv, Typed
<1>10. ProviderExact(provider, pc')
  BY <1>1, <1>2, <1>5, <1>6, ProviderFrame DEF TreeInv
<1>11. ASSUME NEW p \in Agents
       PROVE  SpawnExact(spawn'[p], pc', p)
  <2>1. CASE p = a
    <3>1. InPhase(pc', C, Active) = C \ Waiters(t)
      BY <1>5, <1>6 DEF InPhase, Active, Phases
    <3>2. InPhase(pc', C, {"spawnWait"}) = Waiters(t)
      BY <1>5, <1>6, <1>8 DEF InPhase
    <3> QED BY <1>2, <1>4, <1>8, <2>1, <3>1, <3>2 DEF SpawnExact
  <2>2. CASE p # a
    <3>1. \A c \in ChildSet(p) : pc'[c] = pc[c]
      BY <1>2, <1>5, <2>2, ChildrenFacts
    <3>2. spawn'[p] = spawn[p] /\ SpawnExact(spawn[p], pc, p)
      BY <1>1, <1>4, <2>2 DEF TreeInv
    <3> QED BY <3>1, <3>2, SpawnFrame
  <2> QED BY <2>1, <2>2
<1>12. ParentsInCall'
  <2> SUFFICES ASSUME NEW p \in Agents, pc'[p] # "tools", NEW c \in ChildSet(p)
               PROVE  pc'[c] \in {"unborn", "done"} \/ c \in aborted'
    BY DEF ParentsInCall, ChildSet
  <2>1. p # a
    BY <1>1, <1>5, <1>6
  <2>2. pc[p] # "tools"
    BY <1>1, <1>2, <1>5
  <2>3. pc'[c] = pc[c]
    BY <1>2, <1>5, <2>1, ChildrenFacts
  <2> QED BY <1>1, <2>2, <2>3 DEF TreeInv, ParentsInCall
<1>13. SignalsReach'
  <2>1. C \cap aborted = {}
    BY <1>1, <1>2 DEF TreeInv, SignalsReach, SpawnChildren
  <2>2. aborted \subseteq Agents
    BY DEF TreeInv, Typed
  <2>3. \A c \in aborted : pc'[c] = pc[c]
    BY <1>5, <2>1, <2>2
  <2>4. \A c \in Agents : pc'[c] = "tools" => turn'[c] = 1
    BY <1>1, <1>5 DEF TreeInv, SignalsReach
  <2> QED BY <1>1, <2>3, <2>4, SignalsFrame DEF TreeInv
<1> QED BY <1>1, <1>9, <1>10, <1>11, <1>12, <1>13, PrimedInv

LEMMA ChildrenDoneInv ==
  ASSUME TreeInv, NEW a \in Agents, ChildrenDone(a)
  PROVE  TreeInv'
<1>1. /\ pc \in [Agents -> Phases] /\ pc[a] = "tools"
      /\ provider' = provider /\ spawn' = spawn /\ aborted' = aborted
      /\ turn' = [turn EXCEPT ![a] = 2]
      /\ \A c \in ChildSet(a) : pc[c] \in {"unborn", "done"}
  BY DEF TreeInv, Typed, ChildrenDone
<1>2. PICK x \in {"finishing", "thinking"} : pc' = [pc EXCEPT ![a] = x]
  BY DEF ChildrenDone
<1>3. \A c \in Agents : pc'[c] = IF c = a THEN x ELSE pc[c]
  BY <1>1, <1>2
<1>4. Typed'
  BY <1>1, <1>2 DEF TreeInv, Typed, Phases
<1>5. ProviderExact(provider, pc')
  BY <1>1, <1>3, ProviderFrame DEF TreeInv
<1>6. ASSUME NEW p \in Agents
      PROVE  SpawnExact(spawn[p], pc', p)
  <2>1. \A c \in ChildSet(p) : /\ pc'[c] \in Active <=> pc[c] \in Active
                               /\ pc'[c] = "spawnWait" <=> pc[c] = "spawnWait"
    BY <1>1, <1>3, ChildrenFacts DEF Active, Phases
  <2>2. SpawnExact(spawn[p], pc, p)
    BY DEF TreeInv
  <2> QED BY <2>1, <2>2, SpawnFrame
<1>7. ParentsInCall'
  <2> SUFFICES ASSUME NEW p \in Agents, pc'[p] # "tools", NEW c \in ChildSet(p)
               PROVE  pc'[c] \in {"unborn", "done"} \/ c \in aborted'
    BY DEF ParentsInCall, ChildSet
  <2>1. pc[c] \in {"unborn", "done"} \/ c \in aborted
    BY <1>1, <1>3 DEF TreeInv, ParentsInCall
  <2> QED BY <1>1, <1>3, <2>1, ChildrenFacts
<1>8. SignalsReach'
  <2>1. \A c \in Agents : turn'[c] = IF c = a THEN 2 ELSE turn[c]
    BY <1>1 DEF TreeInv, Typed
  <2>2. aborted \subseteq Agents
    BY DEF TreeInv, Typed
  <2>3. \A c \in aborted : pc'[c] \in {"llmWait", "spawnWait"} => pc[c] \in {"llmWait", "spawnWait"}
    BY <1>3, <2>2
  <2>4. \A c \in Agents : pc'[c] = "tools" => turn'[c] = 1
    BY <1>3, <2>1 DEF TreeInv, SignalsReach
  <2>5. \A c \in Agents : turn'[c] = 1 => turn[c] = 1
    BY <2>1
  <2> QED BY <1>1, <2>3, <2>4, <2>5, SignalsFrame DEF TreeInv
<1> QED BY <1>1, <1>4, <1>5, <1>6, <1>7, <1>8, PrimedInv

LEMMA FinishInv ==
  ASSUME TreeInv, NEW a \in Agents, Finish(a)
  PROVE  TreeInv'
<1>1. /\ pc \in [Agents -> Phases] /\ pc[a] = "finishing"
      /\ spawn \in [Agents -> SemsOf(Agents)]
      /\ provider' = provider /\ turn' = turn /\ aborted' = aborted
  BY DEF TreeInv, Typed, Finish
<1>2. CASE a = Root
  <2>1. pc' = [pc EXCEPT ![a] = "done"] /\ spawn' = spawn
    BY <1>2 DEF Finish
  <2>2. \A c \in Agents : pc'[c] = IF c = a THEN "done" ELSE pc[c]
    BY <1>1, <2>1
  <2>3. Typed'
    BY <1>1, <2>1 DEF TreeInv, Typed, Phases
  <2>4. ProviderExact(provider, pc')
    BY <1>1, <2>2, ProviderFrame DEF TreeInv
  <2>5. ASSUME NEW p \in Agents
        PROVE  SpawnExact(spawn[p], pc', p)
    <3>1. \A c \in ChildSet(p) : pc'[c] = pc[c]
      BY <1>2, <2>2, ChildrenFacts
    <3>2. SpawnExact(spawn[p], pc, p)
      BY DEF TreeInv
    <3> QED BY <3>1, <3>2, SpawnFrame
  <2>6. ParentsInCall'
    BY <1>1, <2>2, ParentsFrame DEF TreeInv
  <2>7. SignalsReach'
    <3>1. aborted \subseteq Agents
      BY DEF TreeInv, Typed
    <3>2. \A c \in Agents : pc'[c] = "tools" => turn'[c] = 1
      BY <1>1, <2>2 DEF TreeInv, SignalsReach
    <3> QED BY <1>1, <2>2, <3>1, <3>2, SignalsFrame DEF TreeInv
  <2> QED BY <1>1, <2>1, <2>3, <2>4, <2>5, <2>6, <2>7, PrimedInv
<1>3. CASE a # Root
  <2>1. PICK p \in Agents : p = ParentOf(a) /\ a \in ChildSet(p)
    BY <1>3, ParentFacts
  <2>2. PICK t : t = Release(Resize(spawn[p], SpawnLimit))
    OBVIOUS
  <2>3. PICK freed : freed = [spawn EXCEPT ![p] = t]
    OBVIOUS
  <2>4. PICK ph : ph = Resume([pc EXCEPT ![a] = "done"], spawn[p], t, "thinking")
    OBVIOUS
  <2>5. spawn' = freed /\ pc' = ph
    BY <1>1, <1>3, <2>1, <2>2, <2>3, <2>4 DEF Finish
  <2>6. pc[a] \in Active
    BY <1>1 DEF Active, Phases
  <2>7. Typed /\ \A q \in Agents : SpawnExact(spawn[q], pc, q)
    BY DEF TreeInv
  <2>8. /\ freed \in [Agents -> SemsOf(Agents)]
        /\ ph \in [Agents -> Phases]
        /\ \A c \in Agents : \/ c = a /\ ph[c] = "done"
                             \/ c # a /\ pc[c] = "spawnWait" /\ ph[c] = "thinking"
                             \/ c # a /\ ph[c] = pc[c]
        /\ \A q \in Agents : SpawnExact(freed[q], ph, q)
    <3>1. AfterReturn(a, freed, ph)
      BY <2>1, <2>2, <2>3, <2>4, <2>6, <2>7, SlotReturned
    <3> QED BY <3>1 DEF AfterReturn
  <2>9. Typed'
    BY <1>1, <2>5, <2>8 DEF TreeInv, Typed
  <2>10. ProviderExact(provider, ph)
    <3>1. \A c \in Agents : /\ ph[c] = "streaming" <=> pc[c] = "streaming"
                            /\ ph[c] = "llmWait" <=> pc[c] = "llmWait"
      BY <1>1, <2>8
    <3> QED BY <3>1, ProviderFrame DEF TreeInv
  <2>11. ParentsInCall'
    BY <1>1, <2>5, <2>8, ParentsFrame DEF TreeInv
  <2>12. SignalsReach'
    <3>1. aborted \subseteq Agents
      BY DEF TreeInv, Typed
    <3>2. \A c \in Agents : pc'[c] = "tools" => turn'[c] = 1
      BY <1>1, <2>5, <2>8 DEF TreeInv, SignalsReach
    <3>3. \A c \in aborted : pc'[c] \in {"llmWait", "spawnWait"} => pc[c] \in {"llmWait", "spawnWait"}
      BY <2>5, <2>8, <3>1
    <3> QED BY <1>1, <3>2, <3>3, SignalsFrame DEF TreeInv
  <2> QED BY <1>1, <2>5, <2>8, <2>9, <2>10, <2>11, <2>12, PrimedInv
<1> QED BY <1>2, <1>3

LEMMA ChildFailsInv ==
  ASSUME TreeInv, NEW c \in Agents, ChildFails(c)
  PROVE  TreeInv'
<1>1. /\ pc \in [Agents -> Phases] /\ turn \in [Agents -> {1, 2}] /\ aborted \subseteq Agents
      /\ c # Root /\ pc[c] = "thinking" /\ c \notin aborted
  BY DEF TreeInv, Typed, ChildFails
<1>2. PICK p \in Agents : p = ParentOf(c) /\ c \in ChildSet(p)
  BY <1>1, ParentFacts
<1>3. PICK t : t = Release(Resize(spawn[p], SpawnLimit))
  OBVIOUS
<1>4. PICK freed : freed = [spawn EXCEPT ![p] = t]
  OBVIOUS
<1>5. PICK ph : ph = Resume([pc EXCEPT ![c] = "done"], spawn[p], t, "thinking")
  OBVIOUS
<1>6. PICK D : D = Below(p)
  OBVIOUS
<1>7. PICK uh : uh = Unwound(ph, D)
  OBVIOUS
<1>8. freed[p] = t
  BY <1>4 DEF TreeInv, Typed
<1>9. /\ aborted' = aborted \cup D
      /\ provider' = WithdrawAll(provider, D)
      /\ spawn' = [q \in Agents |-> WithdrawAll(freed[q], D)]
      /\ pc' = [uh EXCEPT ![p] = "thinking"]
      /\ turn' = [turn EXCEPT ![p] = 2]
  <2>1. aborted' = aborted \cup D /\ provider' = WithdrawAll(provider, D)
    BY <1>2, <1>6 DEF ChildFails
  <2>2. turn' = [turn EXCEPT ![p] = 2]
    BY <1>2 DEF ChildFails
  <2>3. spawn' = [q \in Agents |-> WithdrawAll(freed[q], D)]
    BY <1>2, <1>3, <1>4, <1>6 DEF ChildFails
  <2>4. pc' = [uh EXCEPT ![p] = "thinking"]
    BY <1>2, <1>3, <1>4, <1>5, <1>6, <1>7, <1>8 DEF ChildFails
  <2> QED BY <2>1, <2>2, <2>3, <2>4
<1>10. /\ pc[p] = "tools" /\ p \notin aborted /\ c # p
  BY <1>1, <1>2 DEF TreeInv, ParentsInCall, SignalsReach
<1>11. /\ freed \in [Agents -> SemsOf(Agents)]
       /\ ph \in [Agents -> Phases]
       /\ \A x \in Agents : \/ x = c /\ ph[x] = "done"
                            \/ x # c /\ pc[x] = "spawnWait" /\ ph[x] = "thinking"
                            \/ x # c /\ ph[x] = pc[x]
       /\ \A q \in Agents : SpawnExact(freed[q], ph, q)
  <2>1. pc[c] \in Active
    BY <1>1 DEF Active, Phases
  <2>2. Typed /\ \A q \in Agents : SpawnExact(spawn[q], pc, q)
    BY DEF TreeInv
  <2>3. AfterReturn(c, freed, ph)
    BY <1>2, <1>3, <1>4, <1>5, <2>1, <2>2, SlotReturned
  <2> QED BY <2>3 DEF AfterReturn
<1>12. ProviderExact(provider, ph)
  <2>1. \A x \in Agents : /\ ph[x] = "streaming" <=> pc[x] = "streaming"
                          /\ ph[x] = "llmWait" <=> pc[x] = "llmWait"
    BY <1>1, <1>11
  <2> QED BY <2>1, ProviderFrame DEF TreeInv
<1>13. /\ D \in SUBSET Agents /\ ChildSet(p) \subseteq D
       /\ \A d \in D : ChildSet(d) \subseteq D
       /\ \A d \in D \ ChildSet(p) : \E x \in D : d \in ChildSet(x)
  BY <1>6, BelowFacts
<1>14. /\ uh \in [Agents -> Phases]
       /\ \A x \in Agents : uh[x] = IF x \in D /\ ph[x] = "llmWait" THEN "finishing"
                                    ELSE IF x \in D /\ ph[x] = "spawnWait" THEN "done"
                                    ELSE ph[x]
       /\ ProviderExact(WithdrawAll(provider, D), uh)
       /\ \A q \in Agents : SpawnExact(WithdrawAll(freed[q], D), uh, q)
       /\ [q \in Agents |-> WithdrawAll(freed[q], D)] \in [Agents -> SemsOf(Agents)]
  BY <1>7, <1>11, <1>12, <1>13, UnwoundExact
<1>15. uh[p] = "tools"
  BY <1>10, <1>11, <1>14
<1>16. \A x \in Agents : pc'[x] = IF x = p THEN "thinking" ELSE uh[x]
  BY <1>9, <1>14
<1>17. Typed'
  <2>1. pc' \in [Agents -> Phases]
    BY <1>9, <1>14 DEF Phases
  <2>2. turn' \in [Agents -> {1, 2}] /\ aborted' \in SUBSET Agents
    BY <1>1, <1>9, <1>13
  <2> QED BY <1>9, <1>14, <2>1, <2>2 DEF Typed
<1>18. ProviderExact(provider', pc')
  <2>1. \A x \in Agents : /\ pc'[x] = "streaming" <=> uh[x] = "streaming"
                          /\ pc'[x] = "llmWait" <=> uh[x] = "llmWait"
    BY <1>15, <1>16
  <2>2. ProviderExact(provider', uh)
    BY <1>9, <1>14
  <2> QED BY <2>1, <2>2, ProviderFrame
<1>19. ASSUME NEW q \in Agents
       PROVE  SpawnExact(spawn'[q], pc', q)
  <2>1. \A x \in ChildSet(q) : /\ pc'[x] \in Active <=> uh[x] \in Active
                               /\ pc'[x] = "spawnWait" <=> uh[x] = "spawnWait"
    BY <1>15, <1>16, ChildrenFacts DEF Active, Phases
  <2>2. spawn'[q] = WithdrawAll(freed[q], D)
    BY <1>9
  <2> QED BY <1>14, <2>1, <2>2, SpawnFrame
<1>20. \A x \in Agents : /\ pc[x] \in {"unborn", "done"} => pc'[x] \in {"unborn", "done"}
                         /\ pc'[x] = "tools" => pc[x] = "tools" /\ x # p
                         /\ pc'[x] \in {"llmWait", "spawnWait"} => x \notin D /\ pc'[x] = pc[x]
  BY <1>1, <1>10, <1>11, <1>14, <1>16
<1>21. ParentsInCall'
  <2> SUFFICES ASSUME NEW a \in Agents, pc'[a] # "tools", NEW x \in ChildSet(a)
               PROVE  pc'[x] \in {"unborn", "done"} \/ x \in aborted'
    BY DEF ParentsInCall, ChildSet
  <2>1. CASE a = p
    BY <1>9, <1>13, <2>1
  <2>2. CASE a # p
    <3>1. pc[a] # "tools"
      BY <1>1, <1>11, <1>14, <1>16, <2>2
    <3>2. x \in Agents /\ (pc[x] \in {"unborn", "done"} \/ x \in aborted)
      BY <3>1, ChildrenFacts DEF TreeInv, ParentsInCall
    <3> QED BY <1>9, <1>20, <3>2
  <2> QED BY <2>1, <2>2
<1>22. SignalsReach'
  <2>1. \A a : ChildSet(a)' = ChildSet(a)
    BY DEF ChildSet
  <2>2. ASSUME NEW a \in aborted'
        PROVE  pc'[a] \notin {"llmWait", "spawnWait"} /\ ChildSet(a) \subseteq aborted'
    <3>1. a \in Agents /\ (a \in D \/ a \in aborted)
      BY <1>1, <1>9, <1>13
    <3>2. a \in aborted => pc[a] \notin {"llmWait", "spawnWait"} /\ ChildSet(a) \subseteq aborted
      BY DEF TreeInv, SignalsReach
    <3> QED BY <1>9, <1>13, <1>20, <3>1, <3>2
  <2>3. \A a \in Agents : turn'[a] = IF a = p THEN 2 ELSE turn[a]
    BY <1>1, <1>9
  <2>4. \A a \in Agents : pc'[a] = "tools" => turn'[a] = 1
    BY <1>20, <2>3 DEF TreeInv, SignalsReach
  <2>5. ASSUME NEW a \in Agents \ aborted', turn'[a] = 1, NEW x \in ChildSet(a) \cap aborted'
        PROVE  FALSE
    <3>1. a # p /\ turn[a] = 1 /\ a \notin aborted /\ a \notin D
      BY <1>9, <2>3, <2>5
    <3>2. x \notin aborted
      BY <3>1, <2>5 DEF TreeInv, SignalsReach
    <3>3. x \in D /\ x \notin ChildSet(p)
      BY <1>9, <2>5, <3>1, <3>2, ChildrenFacts
    <3>4. PICK y \in D : x \in ChildSet(y)
      BY <1>13, <3>3
    <3>5. y = a
      BY <1>13, <2>5, <3>4, ChildrenFacts
    <3> QED BY <3>1, <3>4, <3>5
  <2>6. \A a \in Agents \ aborted' : turn'[a] = 1 => ChildSet(a) \cap aborted' = {}
    BY <2>5
  <2> QED BY <2>1, <2>2, <2>4, <2>6 DEF SignalsReach
<1> QED BY <1>17, <1>18, <1>19, <1>21, <1>22, PrimedInv

LEMMA CancelInv ==
  ASSUME TreeInv, Cancel
  PROVE  TreeInv'
<1>1. /\ pc \in [Agents -> Phases]
      /\ turn' = turn /\ aborted' = Agents
      /\ provider' = WithdrawAll(provider, Agents)
      /\ spawn' = [a \in Agents |-> WithdrawAll(spawn[a], Agents)]
      /\ pc' = Unwound(pc, Agents)
  BY DEF TreeInv, Typed, Cancel
<1>2. ProviderExact(provider, pc) /\ \A q \in Agents : SpawnExact(spawn[q], pc, q)
  BY DEF TreeInv
<1>3. PICK uh : uh = Unwound(pc, Agents)
  OBVIOUS
<1>4. Agents \in SUBSET Agents
  OBVIOUS
<1>5. /\ uh \in [Agents -> Phases]
      /\ \A c \in Agents : uh[c] = IF c \in Agents /\ pc[c] = "llmWait" THEN "finishing"
                                   ELSE IF c \in Agents /\ pc[c] = "spawnWait" THEN "done"
                                   ELSE pc[c]
      /\ ProviderExact(WithdrawAll(provider, Agents), uh)
      /\ \A q \in Agents : SpawnExact(WithdrawAll(spawn[q], Agents), uh, q)
      /\ [q \in Agents |-> WithdrawAll(spawn[q], Agents)] \in [Agents -> SemsOf(Agents)]
  BY <1>1, <1>2, <1>3, <1>4, UnwoundExact
<1>6. Typed'
  BY <1>1, <1>3, <1>5 DEF TreeInv, Typed
<1>7. ParentsInCall'
  BY <1>1, ChildrenFacts DEF ParentsInCall, ChildSet
<1>8. SignalsReach'
  <2>1. \A a : ChildSet(a)' = ChildSet(a)
    BY DEF ChildSet
  <2>2. \A a \in Agents : pc'[a] \notin {"llmWait", "spawnWait"} /\ ChildSet(a) \subseteq Agents
    BY <1>1, <1>3, <1>5, ChildrenFacts
  <2>3. \A a \in Agents : pc'[a] = "tools" => turn'[a] = 1
    BY <1>1, <1>3, <1>5 DEF TreeInv, SignalsReach
  <2> QED BY <1>1, <2>1, <2>2, <2>3 DEF SignalsReach
<1>9. \A q \in Agents : SpawnExact(spawn'[q], pc', q)
  BY <1>1, <1>3, <1>5
<1> QED BY <1>1, <1>3, <1>5, <1>6, <1>7, <1>8, <1>9, PrimedInv

LEMMA NextInv == TreeInv /\ [TreeNext]_treeVars => TreeInv'
<1> SUFFICES ASSUME TreeInv, [TreeNext]_treeVars
             PROVE  TreeInv'
  OBVIOUS
<1>1. ASSUME NEW a \in Agents, AgentStep(a)
      PROVE  TreeInv'
  BY <1>1, RequestLLMInv, StreamEndsInv, SpawnChildrenInv, ChildrenDoneInv, FinishInv
     DEF AgentStep
<1>2. CASE Cancel
  BY <1>2, CancelInv
<1>5. ASSUME NEW a \in Agents, ChildFails(a)
      PROVE  TreeInv'
  BY <1>5, ChildFailsInv
<1>3. CASE UNCHANGED treeVars
  <2>1. /\ provider' = provider /\ spawn' = spawn /\ pc' = pc /\ turn' = turn
        /\ aborted' = aborted
    BY <1>3 DEF treeVars
  <2>2. Typed' /\ ParentsInCall' /\ SignalsReach'
    BY <2>1 DEF TreeInv, Typed, ParentsInCall, SignalsReach, ChildSet
  <2>3. ProviderExact(provider', pc') /\ \A p \in Agents : SpawnExact(spawn'[p], pc', p)
    BY <2>1 DEF TreeInv
  <2> QED BY <2>2, <2>3, PrimedInv
<1>4. CASE Finished
  BY <1>3, <1>4 DEF Finished
<1> QED BY <1>1, <1>2, <1>3, <1>4, <1>5 DEF TreeNext

\* The invariant holds at every moment of a call tree, before, during and after
\* an abort.
THEOREM TreeInvariant == TreeSpec => []TreeInv
BY InitInv, NextInv, PTL DEF TreeSpec

-----------------------------------------------------------------------------
\* No slot is lost or counted twice at either level, whatever the tree and
\* the limits, also while an abort unwinds it.
THEOREM SlotsExact == TreeSpec => []SlotAccounting
<1>1. ASSUME TreeInv
      PROVE  SlotAccounting
  <2>1. provider.current = Cardinality({a \in Agents : pc[a] = "streaming"})
    <3>1. {a \in Agents : pc[a] = "streaming"} = InPhase(pc, Agents, {"streaming"})
      BY DEF InPhase
    <3> QED BY <1>1, <3>1 DEF TreeInv, ProviderExact, Exact
  <2>2. ASSUME NEW p \in Agents
        PROVE  spawn[p].current = Cardinality({c \in ChildSet(p) : Running(c)})
    <3>1. {c \in ChildSet(p) : Running(c)} = InPhase(pc, ChildSet(p), Active)
      BY <1>1, ChildrenFacts DEF TreeInv, Typed, InPhase, Active, Running
    <3> QED BY <1>1, <3>1 DEF TreeInv, SpawnExact, Exact
  <2> QED BY <2>1, <2>2 DEF SlotAccounting
<1> QED BY <1>1, TreeInvariant, PTL

\* What a task call leaves behind is on its way out: below an agent that is not
\* in its task call whoever still runs has had its signal, and who has had it
\* waits in no queue.
THEOREM NobodyOrphaned == TreeSpec => []NoOrphans
<1>1. ASSUME TreeInv
      PROVE  NoOrphans
  <2>1. ASSUME NEW a \in Agents, pc[a] # "tools", NEW d \in Below(a),
               Running(d) \/ pc[d] = "spawnWait"
        PROVE  d \in aborted
    <3>1. PICK S : S = {x \in Agents : pc[x] \in {"unborn", "done"} \/ x \in aborted}
      OBVIOUS
    <3>2. S \in SUBSET Agents /\ ChildSet(a) \subseteq S
      BY <1>1, <2>1, <3>1, ChildrenFacts DEF TreeInv, ParentsInCall
    <3>3. ASSUME NEW x \in S, NEW c \in ChildSet(x)
          PROVE  c \in S
      <4>1. x \in Agents /\ c \in Agents
        BY <3>1, ChildrenFacts
      <4>2. CASE x \in aborted
        BY <1>1, <3>1, <4>1, <4>2 DEF TreeInv, SignalsReach
      <4>3. CASE pc[x] \in {"unborn", "done"}
        BY <1>1, <3>1, <4>1, <4>3 DEF TreeInv, ParentsInCall
      <4> QED BY <3>1, <4>2, <4>3
    <3>4. Below(a) \subseteq S
      BY <3>2, <3>3, BelowFacts
    <3> QED BY <2>1, <3>1, <3>4 DEF Running
  <2>2. ASSUME NEW a \in aborted
        PROVE  /\ pc[a] \notin {"llmWait", "spawnWait"}
               /\ a \notin Waiters(provider)
               /\ \A p \in Agents : a \notin Waiters(spawn[p])
    <3>1. pc[a] \notin {"llmWait", "spawnWait"}
      BY <1>1 DEF TreeInv, SignalsReach
    <3>2. Waiters(provider) = InPhase(pc, Agents, {"llmWait"})
      BY <1>1 DEF TreeInv, ProviderExact, Exact
    <3>3. \A p \in Agents : Waiters(spawn[p]) = InPhase(pc, ChildSet(p), {"spawnWait"})
      BY <1>1 DEF TreeInv, SpawnExact, Exact
    <3> QED BY <3>1, <3>2, <3>3 DEF InPhase
  <2> QED BY <2>1, <2>2 DEF NoOrphans
<1> QED BY <1>1, TreeInvariant, PTL
=============================================================================
