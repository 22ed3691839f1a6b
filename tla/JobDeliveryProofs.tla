-------------------------- MODULE JobDeliveryProofs --------------------------
(***************************************************************************)
(* Proofs about JobDelivery, for every number of jobs, polls and failing   *)
(* deliveries: NothingLost and NoEcho.                                     *)
(*                                                                         *)
(* The manager knows results by the id of their job only, and ids are      *)
(* given out again after a retention of minutes.  So the invariant has to  *)
(* tie ids to jobs first (Books): jobs are numbered as they are            *)
(* registered, an id stands for the last job that got it (Registered), and *)
(* it is given up only when its job has ended and its result has gone out, *)
(* unless some job of that id was cancelled, whose process may end at any  *)
(* later time and arm the timer once more (Retained, Placed).              *)
(*                                                                         *)
(* NoEcho then follows from two facts: a result is in one place at most -  *)
(* in the queue, in flight or staged - and in none once the model was told *)
(* it (InOnePlace); and what a tool has shown stays suppressed (Silenced). *)
(* NothingLost needs the converse: an id is suppressed only for the sake   *)
(* of the job it stands for, because a tool waits for that job or has      *)
(* shown it (Justified), or because an open poll tracks it (Watching).  So *)
(* whatever drops a suppressed result drops one that is accounted for.     *)
(*                                                                         *)
(* The steps of the manager between two awaits are each shown to carry the *)
(* results on (Carries): they lose none that is not suppressed.            *)
(***************************************************************************)

EXTENDS JobDelivery, FiniteSetTheorems, FunctionTheorems, SequenceTheorems, WellFoundedInduction, TLAPS

\* The values the variables range over.
Deliveries == [id : Ids, of : Jobs, due : BOOLEAN]
Statuses == {"none", "running", "finished", "cancelled", "cancelled_ended"}
Managers ==
  [at : [Ids -> Jobs \cup {None}], last : Nat,
   job : [Jobs -> [status : Statuses, id : Ids \cup {None}]],
   deliveries : Seq(Deliveries), flight : SUBSET Jobs,
   loop : [state : {"none", "ending", "delivering", "sleeping"}, of : Jobs \cup {None}],
   suppressed : SUBSET Ids, watched : SUBSET Ids, timers : SUBSET Ids]
PollStates == [tracked : SUBSET Jobs, watches : SUBSET Ids, armed : SUBSET Ids]
Sightings == [tool : BOOLEAN, messages : Nat]

Typed ==
  /\ staged \in SUBSET Jobs
  /\ poll \in [Polls -> PollStates] /\ waiting \in Jobs \cup {None} /\ timedOut \in BOOLEAN
  /\ shown \in [Jobs -> Sightings]

IdOf(n, j) == n.job[j].id
StatusOf(n, j) == n.job[j].status
Cancelled(n, j) == StatusOf(n, j) \in {"cancelled", "cancelled_ended"}

\* The jobs whose results are queued, and those whose results are on their way to the session.
Queued(n) == {n.deliveries[k].of : k \in 1..Len(n.deliveries)}
OnWay(n) == Queued(n) \cup n.flight

\* A delivery belongs to the id of its job; no result is queued twice, or queued while in flight.
Neat(n) ==
  /\ \A k \in 1..Len(n.deliveries) : /\ n.deliveries[k].id = IdOf(n, n.deliveries[k].of)
                                     /\ n.deliveries[k].of \notin n.flight
  /\ \A k, l \in 1..Len(n.deliveries) : n.deliveries[k].of = n.deliveries[l].of => k = l

Later(n, j) == \E k \in Jobs : k > j /\ IdOf(n, k) = IdOf(n, j)
Spooked(n, j) == \E k \in Jobs : k < j /\ IdOf(n, k) = IdOf(n, j) /\ Cancelled(n, k)
\* Some job with this id was cancelled.
Spoilt(n, i) == \E k \in Jobs : IdOf(n, k) = i /\ Cancelled(n, k)

\* Jobs are numbered in the order of their registration, and an id stands for
\* the last job that got it.
Registered(n) ==
  /\ n.last <= MaxJobs
  /\ \A j \in Jobs : /\ StatusOf(n, j) = "none" <=> j > n.last
                     /\ IdOf(n, j) = None <=> j > n.last
  /\ \A i \in Ids : n.at[i] # None =>
       IdOf(n, n.at[i]) = i /\ \A k \in Jobs : IdOf(n, k) = i => k <= n.at[i]

\* Only a job that was cancelled can arm the timer of a job that still runs: without
\* one, an id is given up only after its job has ended and its result has gone out.
Retained(n) ==
  /\ \A j \in Jobs : StatusOf(n, j) = "running" /\ ~Listed(n, j) => Spooked(n, j)
  /\ \A i \in n.timers : IF n.at[i] = None THEN Spoilt(n, i)
                         ELSE StatusOf(n, n.at[i]) # "running" \/ Spooked(n, n.at[i])
Ledger(n) == n \in Managers /\ Registered(n) /\ Retained(n)

\* The job whose result is on its way has ended, and its id still stands for it.
Placed(n, k) ==
  /\ StatusOf(n, k) = "finished"
  /\ IF n.at[IdOf(n, k)] = None THEN Spoilt(n, IdOf(n, k))
     ELSE n.at[IdOf(n, k)] = k \/ Spooked(n, n.at[IdOf(n, k)])

Books(n) == Ledger(n) /\ Neat(n) /\ \A k \in OnWay(n) : Placed(n, k)

\* A result is in one place at most, and what has not ended is nowhere.
InOnePlace ==
  /\ OnWay(m) \cap staged = {} /\ staged \subseteq Finished(m)
  /\ \A j \in OnWay(m) \cup staged : shown[j].messages = 0
  /\ \A j \in Jobs : /\ shown[j].messages > 0 => j \in Finished(m)
                     /\ shown[j].tool => StatusOf(m, j) \notin {"none", "running"}

\* The job that is waited for keeps its id and its result to itself.
HeldBack ==
  waiting # None =>
    /\ Listed(m, waiting) /\ IdOf(m, waiting) \in m.suppressed
    /\ waiting \notin OnWay(m) \cup staged /\ shown[waiting].messages = 0
Unshown == timedOut => waiting # None /\ (shown[waiting].tool => Cancelled(m, waiting))

\* What a tool has shown stays suppressed.
Silenced ==
  \A j \in Finished(m) : Listed(m, j) /\ shown[j].tool => IdOf(m, j) \in m.suppressed

\* An id that is watched stands for a job that an open poll tracks.
Watching ==
  /\ \A i \in m.watched : /\ m.at[i] # None
                          /\ \E p \in Polls : i \in poll[p].watches /\ m.at[i] \in poll[p].tracked
  /\ \A p \in Polls : \A j \in poll[p].tracked :
       /\ StatusOf(m, j) # "none"
       /\ ~Listed(m, j) => IdOf(m, j) \notin poll[p].armed
       /\ Later(m, j) => m.at[IdOf(m, j)] # None

Orderly(n, j) == ~Later(n, j) /\ ~Spooked(n, j)
Tracked(j) == \E p \in Polls : j \in poll[p].tracked

\* An id is suppressed for a reason.
Justified ==
  \A j \in Jobs : Orderly(m, j) /\ IdOf(m, j) \in m.suppressed =>
    waiting = j \/ shown[j].tool \/ Cancelled(m, j)

Accounted ==
  \A j \in Finished(m) : Orderly(m, j) /\ shown[j] = Unseen =>
    j \in OnWay(m) \cup staged \cup {waiting} \/ Tracked(j)

IInv == /\ Typed /\ Books(m) /\ InOnePlace /\ HeldBack /\ Unshown /\ Silenced
        /\ Watching /\ Justified /\ Accounted

\* n differs from t in its queue and its loop only.
Same(n, t) ==
  /\ n \in Managers
  /\ n.at = t.at /\ n.last = t.last /\ n.job = t.job
  /\ n.suppressed = t.suppressed /\ n.watched = t.watched /\ n.timers = t.timers

\* Of the results in W, n has at least those that are not suppressed on their way.
Carries(n, t, W) ==
  /\ Same(n, t) /\ Neat(n) /\ OnWay(n) \subseteq W
  /\ \A k \in W : k \in OnWay(n) \/ IsSuppressed(t, IdOf(t, k))

\* A set of numbers has a smallest one.
LEMMA Smallest ==
  ASSUME NEW T \in SUBSET Nat, T # {}
  PROVE  \E n \in T : \A y \in T : n <= y
<1> DEFINE Below == {1..n : n \in T}
<1>1. Below \subseteq FiniteSubsetsOf(Nat) /\ Below # {}
  <2>1. ASSUME NEW n \in T PROVE 1..n \in SUBSET Nat /\ IsFiniteSet(1..n)
    BY FS_Interval
  <2> QED
    BY <2>1 DEF FiniteSubsetsOf
<1>2. PICK B \in Below : \A C \in Below : <<C, B>> \notin StrictSubsetOrdering(Nat)
  <2> HIDE DEF Below
  <2> QED
    BY <1>1, FS_StrictSubsetOrderingWellFounded, WFMin
<1>3. PICK n \in T : B = 1..n
  OBVIOUS
<1>4. ASSUME NEW y \in T, y < n PROVE FALSE
  <2>0. y \in Nat /\ n \in Nat
    OBVIOUS
  <2>1. 1..y \in Below
    OBVIOUS
  <2>2. 1..y \subseteq Nat /\ 1..n \subseteq Nat
    BY <2>0
  <2>4. 1..y \subseteq 1..n /\ n \in 1..n /\ n \notin 1..y
    <3> HIDE DEF Below
    <3> QED
      BY <2>0, <1>4
  <2>3. <<1..y, 1..n>> \in StrictSubsetOrdering(Nat)
    BY <2>2, <2>4 DEF StrictSubsetOrdering
  <2> QED
    BY <1>2, <1>3, <2>1, <2>3
<1> QED
  BY <1>4

\* Min yields it.
LEMMA MinFacts ==
  ASSUME NEW T \in SUBSET Nat, T # {}
  PROVE  Min(T) \in T /\ \A y \in T : Min(T) <= y
BY Smallest DEF Min

\* r consists of the elements of q at the positions K, each once.
Picks(q, K, r, h) ==
  /\ h \in [1..Len(r) -> K]
  /\ \A i \in 1..Len(r) : r[i] = q[h[i]]
  /\ \A i, j \in 1..Len(r) : h[i] = h[j] => i = j
  /\ \A k \in K : \E i \in 1..Len(r) : h[i] = k

\* Counting the positions up to each one numbers them.
LEMMA KeptFacts ==
  ASSUME NEW T, NEW q \in Seq(T), NEW K \in SUBSET (1..Len(q))
  PROVE  Kept(q, K) \in Seq(T) /\ \E h : Picks(q, K, Kept(q, K), h)
<1> DEFINE upto(k) == {l \in K : l <= k}
<1>1. PICK n : n = Cardinality(K)
  OBVIOUS
<1>2. IsFiniteSet(K) /\ n \in Nat /\ K \subseteq Nat /\ \A k \in K : q[k] \in T
  <2>1. IsFiniteSet(1..Len(q))
    BY FS_Interval
  <2>2. IsFiniteSet(K)
    BY <2>1, FS_Subset
  <2> QED
    BY <1>1, <2>2, FS_CardinalityType
<1>3. ASSUME NEW k \in K
      PROVE  IsFiniteSet(upto(k)) /\ Cardinality(upto(k)) \in 1..n
  <2>1. upto(k) \in SUBSET K /\ k \in upto(k)
    BY <1>2
  <2>2. IsFiniteSet(upto(k)) /\ Cardinality(upto(k)) <= n
    BY <1>1, <1>2, <2>1, FS_Subset
  <2>3. Cardinality(upto(k)) \in Nat /\ Cardinality(upto(k)) # 0
    BY <2>1, <2>2, FS_EmptySet, FS_CardinalityType
  <2> QED
    BY <1>2, <2>2, <2>3
<1>4. ASSUME NEW k \in K, NEW l \in K, k < l
      PROVE  Cardinality(upto(k)) # Cardinality(upto(l))
  <2>1. l \in upto(l) /\ l \notin upto(k)
    BY <1>2, <1>4
  <2>3. upto(k) \in SUBSET upto(l)
    <3>1. ASSUME NEW x \in upto(k) PROVE x \in upto(l)
      <4>1. x \in K /\ x <= k /\ x \in Nat /\ k \in Nat /\ l \in Nat
        BY <1>2
      <4> QED
        BY <4>1, <1>4
    <3> QED
      BY <3>1
  <2>2. IsFiniteSet(upto(l))
    BY <1>3
  <2>4. upto(k) # upto(l)
    BY <2>1
  <2> HIDE DEF upto
  <2> QED
    BY <2>2, <2>3, <2>4, FS_Subset
<1>5. PICK rank : rank = [k \in K |-> Cardinality(upto(k))]
  OBVIOUS
<1>6. rank \in [K -> 1..n]
  BY <1>3, <1>5
<1>7. \A k, l \in K : rank[k] = rank[l] => k = l
  <2> SUFFICES ASSUME NEW k \in K, NEW l \in K, rank[k] = rank[l], k # l
               PROVE  FALSE
    OBVIOUS
  <2>1. rank[k] = Cardinality(upto(k)) /\ rank[l] = Cardinality(upto(l))
    BY <1>5
  <2>2. k < l \/ l < k
    BY <1>2
  <2> QED
    BY <1>4, <2>1, <2>2
<1>8. \A i \in 1..n : \E k \in K : rank[k] = i
  <2>1. rank \in Injection(K, 1..n)
    BY <1>6, <1>7 DEF Injection, IsInjective
  <2>2. IsFiniteSet(1..n) /\ Cardinality(1..n) = n
    BY <1>2, FS_Interval
  <2>3. rank \in Surjection(K, 1..n)
    BY <1>1, <2>1, <2>2, FS_Injection
  <2> QED
    BY <2>3 DEF Surjection
<1>9. PICK h : h = [i \in 1..n |-> CHOOSE k \in K : Cardinality({l \in K : l <= k}) = i]
  OBVIOUS
<1>10. ASSUME NEW i \in 1..n PROVE h[i] \in K /\ rank[h[i]] = i
  <2>1. \E k \in K : Cardinality({l \in K : l <= k}) = i
    BY <1>5, <1>8
  <2>2. h[i] = CHOOSE k \in K : Cardinality({l \in K : l <= k}) = i
    BY <1>9
  <2>3. h[i] \in K /\ Cardinality({l \in K : l <= h[i]}) = i
    BY <2>1, <2>2
  <2> QED
    BY <1>5, <2>3
<1>11. PICK r : r = Kept(q, K)
  OBVIOUS
<1>12. r = [i \in 1..n |-> q[h[i]]]
  BY <1>1, <1>9, <1>11 DEF Kept
<1>13. r \in Seq(T) /\ Len(r) = n
  <2>1. \A i \in 1..n : q[h[i]] \in T
    BY <1>2, <1>10
  <2>2. r \in [1..n -> T]
    BY <1>12, <2>1
  <2> QED
    BY <1>2, <1>12, <2>2
<1>14. Picks(q, K, r, h)
  <2>1. h \in [1..n -> K]
    BY <1>9, <1>10
  <2>2. \A i, j \in 1..n : h[i] = h[j] => i = j
    BY <1>10
  <2>3. \A k \in K : \E i \in 1..n : h[i] = k
    <3> SUFFICES ASSUME NEW k \in K PROVE \E i \in 1..n : h[i] = k
      OBVIOUS
    <3>1. rank[k] \in 1..n
      BY <1>6
    <3>2. h[rank[k]] \in K /\ rank[h[rank[k]]] = rank[k]
      BY <1>10, <3>1
    <3> QED
      BY <1>7, <3>1, <3>2
  <2> QED
    BY <1>12, <1>13, <2>1, <2>2, <2>3 DEF Picks
<1> QED
  BY <1>11, <1>13, <1>14

\* r consists of the elements of q at the positions K.
PickedFrom(q, K, r) == \E h : Picks(q, K, r, h)

\* The rest of a sequence from a on.
LEMMA RestPicks ==
  ASSUME NEW T, NEW q \in Seq(T), NEW a \in 1..(Len(q) + 1)
  PROVE  /\ SubSeq(q, a, Len(q)) \in Seq(T)
         /\ PickedFrom(q, a..Len(q), SubSeq(q, a, Len(q)))
<1>1. Len(q) \in Nat /\ a \in Nat /\ \A i \in 1..Len(q) : q[i] \in T
  OBVIOUS
<1>2. PICK r : r = SubSeq(q, a, Len(q))
  OBVIOUS
<1>3. r \in Seq(T) /\ Len(r) = Len(q) - a + 1
      /\ \A i \in 1..(Len(q) - a + 1) : r[i] = q[a + i - 1]
  <2>1. \A i \in a..Len(q) : q[i] \in T
    BY <1>1
  <2>2. a \in Int /\ Len(q) \in Int
    BY <1>1
  <2>3. Len(r) = IF a <= Len(q) THEN Len(q) - a + 1 ELSE 0
    BY <1>2, <2>1, <2>2, SubSeqProperties
  <2> QED
    BY <1>1, <1>2, <2>1, <2>2, <2>3, SubSeqProperties
<1>4. PICK h : h = [i \in 1..Len(r) |-> a + i - 1]
  OBVIOUS
<1>5. Picks(q, a..Len(q), r, h)
  <2>1. h \in [1..Len(r) -> a..Len(q)]
    BY <1>1, <1>3, <1>4
  <2>2. \A i \in 1..Len(r) : r[i] = q[h[i]]
    BY <1>1, <1>3, <1>4
  <2>3. \A i, j \in 1..Len(r) : h[i] = h[j] => i = j
    BY <1>1, <1>3, <1>4
  <2>4. \A k \in a..Len(q) : \E i \in 1..Len(r) : h[i] = k
    <3> SUFFICES ASSUME NEW k \in a..Len(q) PROVE \E i \in 1..Len(r) : h[i] = k
      OBVIOUS
    <3>1. k - a + 1 \in 1..Len(r)
      BY <1>1, <1>3
    <3>2. h[k - a + 1] = k
      BY <1>1, <1>4, <3>1
    <3> QED
      BY <3>1, <3>2
  <2> QED
    BY <2>1, <2>2, <2>3, <2>4 DEF Picks
<1> QED
  BY <1>2, <1>3, <1>5 DEF PickedFrom

\* A sequence without one of its elements.
LEMMA RemovalPicks ==
  ASSUME NEW T, NEW q \in Seq(T), NEW a \in 1..Len(q)
  PROVE  RemoveAt(q, a) \in Seq(T) /\ PickedFrom(q, (1..Len(q)) \ {a}, RemoveAt(q, a))
<1>1. Len(q) \in Nat /\ a \in Nat /\ a >= 1 /\ a <= Len(q) /\ \A i \in 1..Len(q) : q[i] \in T
  OBVIOUS
<1>2. PICK r : r = RemoveAt(q, a)
  OBVIOUS
<1>3. PICK u, v : u = SubSeq(q, 1, a - 1) /\ v = SubSeq(q, a + 1, Len(q))
  OBVIOUS
<1>4. u \in Seq(T) /\ Len(u) = a - 1 /\ \A i \in 1..(a - 1) : u[i] = q[i]
  <2>1. \A i \in 1..(a - 1) : q[i] \in T
    BY <1>1
  <2>2. 1 \in Int /\ a - 1 \in Int
    BY <1>1
  <2>3. u \in Seq(T) /\ Len(u) = (IF 1 <= a - 1 THEN a - 1 - 1 + 1 ELSE 0)
        /\ \A i \in 1..(a - 1 - 1 + 1) : u[i] = q[1 + i - 1]
    BY <1>3, <2>1, <2>2, SubSeqProperties
  <2> QED
    BY <1>1, <2>3
<1>5. v \in Seq(T) /\ Len(v) = Len(q) - a /\ \A i \in 1..(Len(q) - a) : v[i] = q[a + i]
  <2>1. \A i \in (a + 1)..Len(q) : q[i] \in T
    BY <1>1
  <2>2. a + 1 \in Int /\ Len(q) \in Int
    BY <1>1
  <2>3. v \in Seq(T) /\ Len(v) = (IF a + 1 <= Len(q) THEN Len(q) - (a + 1) + 1 ELSE 0)
        /\ \A i \in 1..(Len(q) - (a + 1) + 1) : v[i] = q[a + 1 + i - 1]
    BY <1>3, <2>1, <2>2, SubSeqProperties
  <2> QED
    BY <1>1, <2>3
<1>6. r = u \o v
  BY <1>2, <1>3 DEF RemoveAt
<1>7. r \in Seq(T) /\ Len(r) = Len(q) - 1
      /\ \A i \in 1..(Len(q) - 1) : r[i] = IF i <= a - 1 THEN u[i] ELSE v[i - (a - 1)]
  <2>1. r \in Seq(T) /\ Len(r) = Len(u) + Len(v)
        /\ \A i \in 1..(Len(u) + Len(v)) : r[i] = IF i <= Len(u) THEN u[i] ELSE v[i - Len(u)]
    BY <1>4, <1>5, <1>6, ConcatProperties
  <2>2. Len(u) + Len(v) = Len(q) - 1
    BY <1>1, <1>4, <1>5
  <2>3. Len(u) = a - 1
    BY <1>4
  <2> QED
    BY <2>1, <2>2, <2>3
<1>8. PICK h : h = [i \in 1..Len(r) |-> IF i < a THEN i ELSE i + 1]
  OBVIOUS
<1>9. Picks(q, (1..Len(q)) \ {a}, r, h)
  <2>1. h \in [1..Len(r) -> (1..Len(q)) \ {a}]
    BY <1>1, <1>7, <1>8
  <2>2. ASSUME NEW i \in 1..Len(r) PROVE r[i] = q[h[i]]
    <3>1. CASE i < a
      <4>1. i \in 1..(a - 1) /\ i <= a - 1 /\ h[i] = i
        BY <1>1, <1>7, <1>8, <3>1
      <4> QED
        BY <1>4, <1>7, <4>1
    <3>2. CASE ~(i < a)
      <4>1. i - (a - 1) \in 1..(Len(q) - a) /\ ~(i <= a - 1) /\ h[i] = i + 1 /\ i \in Nat
            /\ a + (i - (a - 1)) = i + 1
        BY <1>1, <1>7, <1>8, <3>2
      <4>2. r[i] = v[i - (a - 1)]
        BY <1>7, <4>1
      <4>3. v[i - (a - 1)] = q[a + (i - (a - 1))]
        BY <1>5, <4>1
      <4> QED
        BY <4>1, <4>2, <4>3
    <3> QED
      BY <3>1, <3>2
  <2>3. \A i, j \in 1..Len(r) : h[i] = h[j] => i = j
    BY <1>1, <1>7, <1>8
  <2>4. \A k \in (1..Len(q)) \ {a} : \E i \in 1..Len(r) : h[i] = k
    <3> SUFFICES ASSUME NEW k \in (1..Len(q)) \ {a} PROVE \E i \in 1..Len(r) : h[i] = k
      OBVIOUS
    <3>1. CASE k < a
      <4>1. k \in 1..Len(r) /\ h[k] = k
        BY <1>1, <1>7, <1>8, <3>1
      <4> QED
        BY <4>1
    <3>2. CASE ~(k < a)
      <4>1. k - 1 \in 1..Len(r) /\ h[k - 1] = k
        BY <1>1, <1>7, <1>8, <3>2
      <4> QED
        BY <4>1
    <3> QED
      BY <3>1, <3>2
  <2> QED
    BY <2>1, <2>2, <2>3, <2>4 DEF Picks
<1> QED
  BY <1>2, <1>7, <1>9 DEF PickedFrom

\* When the loop or a drain takes the deliveries at the positions G into flight, and
\* keeps those at K, and all others are suppressed, then the results are carried on.
LEMMA Sifted ==
  ASSUME NEW t \in Managers, Neat(t), NEW n, Same(n, t),
         NEW K \in SUBSET (1..Len(t.deliveries)), NEW G \in SUBSET (1..Len(t.deliveries)),
         K \cap G = {}, PickedFrom(t.deliveries, K, n.deliveries),
         n.flight = t.flight \cup {t.deliveries[k].of : k \in G},
         \A l \in (1..Len(t.deliveries)) \ (K \cup G) : IsSuppressed(t, t.deliveries[l].id)
  PROVE  Carries(n, t, OnWay(t))
<1>1. PICK q, r : q = t.deliveries /\ r = n.deliveries
  OBVIOUS
<1>2. q \in Seq(Deliveries) /\ r \in Seq(Deliveries) /\ n.job = t.job
  BY <1>1 DEF Same, Managers
<1>3. PICK h : Picks(q, K, r, h)
  BY <1>1 DEF PickedFrom
<1>4. \A i \in 1..Len(r) : h[i] \in K /\ h[i] \in 1..Len(q) /\ r[i] = q[h[i]]
  BY <1>1, <1>3 DEF Picks
<1>5. /\ \A k \in 1..Len(q) : q[k].id = IdOf(t, q[k].of) /\ q[k].of \notin t.flight
      /\ \A k, l \in 1..Len(q) : q[k].of = q[l].of => k = l
  BY <1>1 DEF Neat
<1>6. Queued(t) = {q[k].of : k \in 1..Len(q)} /\ Queued(n) = {r[k].of : k \in 1..Len(r)}
  BY <1>1 DEF Queued
<1>7. n.flight = t.flight \cup {q[k].of : k \in G} /\ K \subseteq 1..Len(q) /\ G \subseteq 1..Len(q)
  BY <1>1
<1>8. \A i \in 1..Len(r) : r[i].id = IdOf(n, r[i].of) /\ r[i].of \notin n.flight
  <2> SUFFICES ASSUME NEW i \in 1..Len(r)
               PROVE  r[i].id = IdOf(n, r[i].of) /\ r[i].of \notin n.flight
    OBVIOUS
  <2>1. r[i] = q[h[i]] /\ h[i] \in K /\ h[i] \in 1..Len(q)
    BY <1>4
  <2>2. r[i].id = IdOf(n, r[i].of) /\ r[i].of \notin t.flight
    BY <1>2, <1>5, <2>1 DEF IdOf
  <2>3. ASSUME NEW k \in G, q[k].of = r[i].of PROVE FALSE
    BY <1>5, <1>7, <2>1, <2>3
  <2> QED
    BY <1>7, <2>2, <2>3
<1>9. \A i, j \in 1..Len(r) : r[i].of = r[j].of => i = j
  <2> SUFFICES ASSUME NEW i \in 1..Len(r), NEW j \in 1..Len(r), r[i].of = r[j].of
               PROVE  i = j
    OBVIOUS
  <2>0. r[i] = q[h[i]] /\ r[j] = q[h[j]] /\ h[i] \in 1..Len(q) /\ h[j] \in 1..Len(q)
    BY <1>4
  <2>1. h[i] = h[j]
    BY <1>5, <2>0
  <2> QED
    BY <1>3, <2>1 DEF Picks
<1>10. Neat(n)
  BY <1>1, <1>8, <1>9 DEF Neat
<1>11. OnWay(n) \subseteq OnWay(t)
  <2>1. Queued(n) \subseteq Queued(t)
    BY <1>4, <1>6
  <2>2. n.flight \subseteq OnWay(t)
    BY <1>6, <1>7 DEF OnWay
  <2> QED
    BY <2>1, <2>2 DEF OnWay
<1>12. \A k \in OnWay(t) : k \in OnWay(n) \/ IsSuppressed(t, IdOf(t, k))
  <2> SUFFICES ASSUME NEW k \in OnWay(t), k \notin OnWay(n) PROVE IsSuppressed(t, IdOf(t, k))
    OBVIOUS
  <2>1. k \notin t.flight
    BY <1>7 DEF OnWay
  <2>2. PICK l \in 1..Len(q) : k = q[l].of
    BY <1>6, <2>1 DEF OnWay
  <2>3. l \notin G
    BY <1>7, <2>2 DEF OnWay
  <2>4. ASSUME l \in K PROVE FALSE
    <3>1. PICK i \in 1..Len(r) : h[i] = l
      BY <1>3, <2>4 DEF Picks
    <3>2. r[i] = q[l]
      BY <1>4, <3>1
    <3>3. k \in Queued(n)
      BY <1>6, <2>2, <3>2
    <3> QED
      BY <3>3 DEF OnWay
  <2> QED
    BY <1>1, <1>5, <2>2, <2>3, <2>4
<1> QED
  BY <1>10, <1>11, <1>12 DEF Carries

\* The fields of a manager.
LEMMA ManagerFields ==
  ASSUME NEW n \in Managers
  PROVE  /\ n.at \in [Ids -> Jobs \cup {None}] /\ n.last \in Nat
         /\ n.job \in [Jobs -> [status : Statuses, id : Ids \cup {None}]]
         /\ n.deliveries \in Seq(Deliveries) /\ n.flight \in SUBSET Jobs
         /\ n.loop \in [state : {"none", "ending", "delivering", "sleeping"}, of : Jobs \cup {None}]
         /\ n.suppressed \in SUBSET Ids /\ n.watched \in SUBSET Ids /\ n.timers \in SUBSET Ids
BY DEF Managers

\* A manager whose queue and loop are replaced is a manager.
LEMMA Rearranged ==
  ASSUME NEW t \in Managers, NEW q \in Seq(Deliveries), NEW F \in SUBSET Jobs,
         NEW s \in {"none", "ending", "delivering", "sleeping"}, NEW j \in Jobs \cup {None}
  PROVE  /\ Same([t EXCEPT !.deliveries = q, !.flight = F, !.loop = [state |-> s, of |-> j]], t)
         /\ Same([t EXCEPT !.deliveries = q, !.loop = [state |-> s, of |-> j]], t)
         /\ Same([t EXCEPT !.deliveries = q, !.flight = F], t)
         /\ Same([t EXCEPT !.loop = [state |-> s, of |-> j]], t)
         /\ Same([t EXCEPT !.deliveries = q], t)
         /\ Same([t EXCEPT !.flight = F], t)
         /\ Same(t, t)
BY DEF Managers, Same

\* The loop runs to its next await without losing a result that is not suppressed.
LEMMA RunLoopCarries ==
  ASSUME NEW t \in Managers, Neat(t)
  PROVE  Carries(RunLoop(t), t, OnWay(t))
<1>1. PICK q : q = t.deliveries
  OBVIOUS
<1>2. q \in Seq(Deliveries) /\ Len(q) \in Nat /\ t.flight \in SUBSET Jobs
  BY <1>1, ManagerFields
<1>3. PICK live : live = {k \in 1..Len(q) : ~IsSuppressed(t, q[k].id)}
  OBVIOUS
<1>4. live \in SUBSET Nat /\ live \subseteq 1..Len(q)
  BY <1>3
<1>5. PICK rest : rest = IF live = {} THEN <<>> ELSE SubSeq(q, Min(live), Len(q))
  OBVIOUS
<1>6. PICK n : n = RunLoop(t)
  OBVIOUS
<1>7. n = IF rest = <<>>
          THEN [t EXCEPT !.deliveries = rest, !.loop = [state |-> "ending", of |-> None]]
          ELSE IF Head(rest).due
               THEN [t EXCEPT !.deliveries = Tail(rest), !.flight = @ \cup {Head(rest).of},
                              !.loop = [state |-> "delivering", of |-> Head(rest).of]]
               ELSE [t EXCEPT !.deliveries = rest,
                              !.loop = [state |-> "sleeping", of |-> Head(rest).of]]
  BY <1>1, <1>3, <1>5, <1>6 DEF RunLoop
<1>8. CASE live = {}
  <2>1. rest = <<>> /\ rest \in Seq(Deliveries)
    BY <1>5, <1>8
  <2>2. n = [t EXCEPT !.deliveries = rest, !.loop = [state |-> "ending", of |-> None]]
    BY <1>7, <2>1
  <2>3. Same(n, t)
    BY <2>1, <2>2, Rearranged
  <2>4. n.deliveries = rest /\ n.flight = t.flight
    BY <2>2 DEF Managers
  <2>5. PickedFrom(q, {}, rest)
    <3>1. PICK h : h = [i \in 1..Len(rest) |-> i]
      OBVIOUS
    <3>2. Len(rest) = 0 /\ 1..Len(rest) = {}
      BY <2>1
    <3>3. h \in [1..Len(rest) -> {}]
      BY <3>1, <3>2
    <3>4. Picks(q, {}, rest, h)
      BY <3>2, <3>3 DEF Picks
    <3> QED
      BY <3>4 DEF PickedFrom
  <2>6. \A l \in 1..Len(q) : IsSuppressed(t, q[l].id)
    BY <1>3, <1>8
  <2>7. n.flight = t.flight \cup {q[k].of : k \in {}}
    BY <2>4
  <2>8. {} \in SUBSET (1..Len(q)) /\ {} \cap {} = {}
        /\ \A l \in (1..Len(q)) \ ({} \cup {}) : IsSuppressed(t, q[l].id)
    BY <2>6
  <2> QED
    BY <1>1, <1>6, <2>3, <2>4, <2>5, <2>7, <2>8, Sifted
<1>9. CASE live # {}
  <2>1. PICK a : a = Min(live)
    OBVIOUS
  <2>2. a \in live /\ \A y \in live : a <= y
    BY <1>4, <1>9, <2>1, MinFacts
  <2>3. a \in 1..Len(q) /\ a \in 1..(Len(q) + 1) /\ a + 1 \in 1..(Len(q) + 1)
    BY <1>2, <1>4, <2>2
  <2>4. rest = SubSeq(q, a, Len(q))
    BY <1>5, <1>9, <2>1
  <2>5. rest \in Seq(Deliveries) /\ PickedFrom(q, a..Len(q), rest)
    BY <1>2, <2>3, <2>4, RestPicks
  <2>6. Len(q) \in a..Len(q)
    BY <1>2, <2>3
  <2>7. Head(rest) = q[a] /\ Tail(rest) = SubSeq(q, a + 1, Len(q))
    BY <1>2, <2>3, <2>4, <2>6, HeadTailOfSubSeq
  <2>8. Tail(rest) \in Seq(Deliveries) /\ PickedFrom(q, (a + 1)..Len(q), Tail(rest))
    BY <1>2, <2>3, <2>7, RestPicks
  <2>9. q[a] \in Deliveries /\ q[a].of \in Jobs
    <3>1. q[a] \in Deliveries
      BY <1>2, <2>3
    <3> QED
      BY <3>1 DEF Deliveries
  <2>10. rest # <<>>
    <3>1. Len(rest) = Len(q) - a + 1
      <4>1. \A i \in a..Len(q) : q[i] \in Deliveries
        BY <1>2, <2>3
      <4>2. a \in Int /\ Len(q) \in Int /\ a <= Len(q)
        BY <1>2, <2>3
      <4>3. Len(SubSeq(q, a, Len(q))) = IF a <= Len(q) THEN Len(q) - a + 1 ELSE 0
        BY <4>1, <4>2, SubSeqProperties
      <4> QED
        BY <2>4, <4>2, <4>3
    <3> QED
      BY <1>2, <2>3, <3>1
  <2>11. \A l \in 1..Len(q) : l < a => IsSuppressed(t, q[l].id)
    <3> SUFFICES ASSUME NEW l \in 1..Len(q), l < a PROVE IsSuppressed(t, q[l].id)
      OBVIOUS
    <3>1. l \notin live
      BY <1>2, <2>2, <2>3
    <3> QED
      BY <1>3, <3>1
  <2>12. CASE Head(rest).due
    <3>1. n = [t EXCEPT !.deliveries = Tail(rest), !.flight = @ \cup {q[a].of},
                        !.loop = [state |-> "delivering", of |-> q[a].of]]
      BY <1>7, <2>7, <2>10, <2>12
    <3>2. n = [t EXCEPT !.deliveries = Tail(rest), !.flight = t.flight \cup {q[a].of},
                        !.loop = [state |-> "delivering", of |-> q[a].of]]
      BY <3>1 DEF Managers
    <3>3. t.flight \cup {q[a].of} \in SUBSET Jobs
      BY <1>2, <2>9
    <3>4. Same(n, t)
      BY <2>8, <2>9, <3>2, <3>3, Rearranged
    <3>5. n.deliveries = Tail(rest) /\ n.flight = t.flight \cup {q[a].of}
      BY <3>2 DEF Managers
    <3>6. n.flight = t.flight \cup {t.deliveries[k].of : k \in {a}}
      <4>1. {t.deliveries[k].of : k \in {a}} = {q[a].of}
        BY <1>1
      <4> QED
        BY <3>5, <4>1
    <3>7. (a + 1)..Len(q) \in SUBSET (1..Len(q)) /\ {a} \in SUBSET (1..Len(q))
          /\ ((a + 1)..Len(q)) \cap {a} = {}
      BY <1>2, <2>3
    <3>8. \A l \in (1..Len(q)) \ (((a + 1)..Len(q)) \cup {a}) : IsSuppressed(t, q[l].id)
      BY <1>2, <2>3, <2>11
    <3> QED
      BY <1>1, <1>6, <2>8, <3>4, <3>5, <3>6, <3>7, <3>8, Sifted
  <2>13. CASE ~Head(rest).due
    <3>1. n = [t EXCEPT !.deliveries = rest, !.loop = [state |-> "sleeping", of |-> q[a].of]]
      BY <1>7, <2>7, <2>10, <2>13
    <3>2. Same(n, t)
      BY <2>5, <2>9, <3>1, Rearranged
    <3>3. n.deliveries = rest /\ n.flight = t.flight
      BY <3>1 DEF Managers
    <3>4. n.flight = t.flight \cup {q[k].of : k \in {}}
      BY <3>3
    <3>5. a..Len(q) \in SUBSET (1..Len(q)) /\ {} \in SUBSET (1..Len(q)) /\ (a..Len(q)) \cap {} = {}
      BY <1>2, <2>3
    <3>6. \A l \in (1..Len(q)) \ ((a..Len(q)) \cup {}) : IsSuppressed(t, q[l].id)
      BY <1>2, <2>3, <2>11
    <3> QED
      BY <1>1, <1>6, <2>5, <3>2, <3>3, <3>4, <3>5, <3>6, Sifted
  <2> QED
    BY <2>12, <2>13
<1> QED
  BY <1>8, <1>9

\* A step that carries W starts from what another step, or a change of the loop, left.
LEMMA CarriedOn ==
  ASSUME NEW n, NEW t, NEW u, NEW W, Same(t, u), OnWay(t) = W, Carries(n, t, OnWay(t))
  PROVE  Carries(n, u, W)
<1>1. /\ n \in Managers
      /\ n.at = t.at /\ n.last = t.last /\ n.job = t.job
      /\ n.suppressed = t.suppressed /\ n.watched = t.watched /\ n.timers = t.timers
  BY DEF Carries, Same
<1>2. Same(n, u)
  BY <1>1 DEF Same
<1>3. \A k : IsSuppressed(t, IdOf(t, k)) <=> IsSuppressed(u, IdOf(u, k))
  BY DEF Same, IsSuppressed, IdOf
<1> QED
  BY <1>2, <1>3 DEF Carries

\* A queue of the same results in the same order, whether due or not.
LEMMA SameResults ==
  ASSUME NEW t, Neat(t), NEW n, Same(n, t), n.flight = t.flight,
         Len(n.deliveries) = Len(t.deliveries),
         \A k \in 1..Len(t.deliveries) : /\ n.deliveries[k].id = t.deliveries[k].id
                                         /\ n.deliveries[k].of = t.deliveries[k].of
  PROVE  Neat(n) /\ OnWay(n) = OnWay(t) /\ Carries(n, t, OnWay(t))
<1>1. n.job = t.job
  BY DEF Same
<1>2. Neat(n)
  <2>1. \A k \in 1..Len(n.deliveries) : /\ n.deliveries[k].id = IdOf(n, n.deliveries[k].of)
                                        /\ n.deliveries[k].of \notin n.flight
    BY <1>1 DEF Neat, IdOf
  <2>2. \A k, l \in 1..Len(n.deliveries) : n.deliveries[k].of = n.deliveries[l].of => k = l
    BY DEF Neat
  <2> QED
    BY <2>1, <2>2 DEF Neat
<1>3. Queued(n) = Queued(t)
  BY DEF Queued
<1>4. OnWay(n) = OnWay(t)
  BY <1>3 DEF OnWay
<1> QED
  BY <1>2, <1>4 DEF Carries

\* Starting the loop, unless it runs already, loses no result that is not suppressed.
LEMMA EnsureLoopCarries ==
  ASSUME NEW t \in Managers, Neat(t)
  PROVE  Carries(EnsureLoop(t), t, OnWay(t))
<1>1. Same(t, t)
  BY DEF Same
<1>2. Carries(t, t, OnWay(t))
  BY <1>1, SameResults
<1> QED
  BY <1>2, RunLoopCarries DEF EnsureLoop

\* The loop is over, or wakes up for a retry.
LEMMA LoopGoesOnCarries ==
  ASSUME NEW t \in Managers, Neat(t)
  PROVE  Carries(LoopEnds(t), t, OnWay(t)) /\ Carries(LoopWakes(t), t, OnWay(t))
<1>1. Carries(LoopEnds(t), t, OnWay(t))
  <2>1. PICK ended : ended = [t EXCEPT !.loop = [state |-> "none", of |-> None]]
    OBVIOUS
  <2>2. Same(ended, t)
    BY <2>1 DEF Same, Managers
  <2>3. ended.deliveries = t.deliveries /\ ended.flight = t.flight
    BY <2>1 DEF Managers
  <2>4. Neat(ended) /\ OnWay(ended) = OnWay(t) /\ Carries(ended, t, OnWay(t))
    BY <2>2, <2>3, SameResults
  <2>5. ended \in Managers
    BY <2>2 DEF Same
  <2>6. Carries(RunLoop(ended), t, OnWay(t))
    BY <2>2, <2>4, <2>5, RunLoopCarries, CarriedOn
  <2> QED
    BY <2>1, <2>4, <2>6 DEF LoopEnds
<1>2. Carries(LoopWakes(t), t, OnWay(t))
  <2>1. PICK q : q = t.deliveries
    OBVIOUS
  <2>2. q \in Seq(Deliveries) /\ Len(q) \in Nat /\ DOMAIN q = 1..Len(q)
    BY <2>1, ManagerFields
  <2>3. PICK r : r = [k \in DOMAIN q |->
                        IF q[k].of = t.loop.of THEN [q[k] EXCEPT !.due = TRUE] ELSE q[k]]
    OBVIOUS
  <2>4. ASSUME NEW k \in 1..Len(q)
        PROVE  r[k] \in Deliveries /\ r[k].id = q[k].id /\ r[k].of = q[k].of
    <3>1. q[k] \in Deliveries
      BY <2>2
    <3>2. r[k] = IF q[k].of = t.loop.of THEN [q[k] EXCEPT !.due = TRUE] ELSE q[k]
      BY <2>2, <2>3
    <3> QED
      BY <3>1, <3>2 DEF Deliveries
  <2>5. r \in Seq(Deliveries) /\ Len(r) = Len(q)
    <3>1. r \in [1..Len(q) -> Deliveries]
      BY <2>2, <2>3, <2>4
    <3> QED
      BY <2>2, <3>1
  <2>6. PICK woken : woken = [t EXCEPT !.deliveries = r]
    OBVIOUS
  <2>7. LoopWakes(t) = RunLoop(woken)
    BY <2>1, <2>3, <2>6 DEF LoopWakes, Managers
  <2>8. Same(woken, t) /\ woken \in Managers
    BY <2>5, <2>6 DEF Same, Managers
  <2>9. woken.deliveries = r /\ woken.flight = t.flight
    BY <2>6 DEF Managers
  <2>10. Neat(woken) /\ OnWay(woken) = OnWay(t)
    BY <2>1, <2>4, <2>5, <2>8, <2>9, SameResults
  <2> QED
    BY <2>7, <2>8, <2>10, RunLoopCarries, CarriedOn
<1> QED
  BY <1>1, <1>2

\* A drain takes a delivery out of the queue, into flight.
LEMMA TakeOutCarries ==
  ASSUME NEW t \in Managers, Neat(t), NEW k \in 1..Len(t.deliveries)
  PROVE  Carries(TakeOut(t, k), t, OnWay(t))
<1>1. PICK q, r : q = t.deliveries /\ r = RemoveAt(q, k)
  OBVIOUS
<1>2. q \in Seq(Deliveries) /\ t.flight \in SUBSET Jobs /\ k \in 1..Len(q)
  BY <1>1, ManagerFields
<1>3. r \in Seq(Deliveries) /\ PickedFrom(q, (1..Len(q)) \ {k}, r)
  BY <1>1, <1>2, RemovalPicks
<1>4. q[k].of \in Jobs
  <2>1. q[k] \in Deliveries
    BY <1>2
  <2> QED
    BY <2>1 DEF Deliveries
<1>5. PICK n : n = [t EXCEPT !.deliveries = r, !.flight = t.flight \cup {q[k].of}]
  OBVIOUS
<1>6. TakeOut(t, k) = n
  BY <1>1, <1>5 DEF TakeOut, Managers
<1>7. Same(n, t)
  BY <1>2, <1>3, <1>4, <1>5, Rearranged
<1>8. n.deliveries = r /\ n.flight = t.flight \cup {q[k].of}
  BY <1>5 DEF Managers
<1>9. n.flight = t.flight \cup {t.deliveries[l].of : l \in {k}}
  <2>1. {t.deliveries[l].of : l \in {k}} = {q[k].of}
    BY <1>1
  <2> QED
    BY <1>8, <2>1
<1>10. /\ (1..Len(q)) \ {k} \in SUBSET (1..Len(q)) /\ {k} \in SUBSET (1..Len(q))
       /\ ((1..Len(q)) \ {k}) \cap {k} = {}
       /\ \A l \in (1..Len(q)) \ (((1..Len(q)) \ {k}) \cup {k}) : IsSuppressed(t, q[l].id)
  BY <1>2
<1> QED
  BY <1>1, <1>3, <1>6, <1>7, <1>8, <1>9, <1>10, Sifted

\* A result that is not queued yet is queued last.
LEMMA AppendedQueue ==
  ASSUME NEW t \in Managers, Neat(t), NEW j \in Jobs, j \notin Queued(t), NEW b \in BOOLEAN,
         NEW n, Same(n, t), n.flight \subseteq t.flight, j \notin n.flight,
         n.deliveries = Append(t.deliveries, [id |-> IdOf(t, j), of |-> j, due |-> b]),
         IdOf(t, j) \in Ids
  PROVE  Neat(n) /\ Queued(n) = Queued(t) \cup {j}
<1>1. PICK q, r, d : q = t.deliveries /\ r = n.deliveries
                     /\ d = [id |-> IdOf(t, j), of |-> j, due |-> b]
  OBVIOUS
<1>2. q \in Seq(Deliveries) /\ Len(q) \in Nat /\ d \in Deliveries /\ r = Append(q, d)
      /\ n.job = t.job
  <2>1. d \in Deliveries
    BY <1>1 DEF Deliveries
  <2>2. q \in Seq(Deliveries)
    BY <1>1, ManagerFields
  <2> QED
    BY <1>1, <2>1, <2>2 DEF Same
<1>3. /\ Len(r) = Len(q) + 1 /\ r[Len(q) + 1] = d
      /\ \A k \in 1..Len(q) : r[k] = q[k]
  BY <1>2, AppendProperties
<1>4. \A k \in 1..Len(r) : k \in 1..Len(q) \/ k = Len(q) + 1
  BY <1>2, <1>3
<1>5. \A k \in 1..Len(q) : /\ q[k].id = IdOf(t, q[k].of) /\ q[k].of \notin t.flight
                           /\ q[k].of # j
  BY <1>1 DEF Neat, Queued
<1>6. d.id = IdOf(t, j) /\ d.of = j
  BY <1>1
<1>7. \A k \in 1..Len(r) : r[k].id = IdOf(n, r[k].of) /\ r[k].of \notin n.flight
  <2> SUFFICES ASSUME NEW k \in 1..Len(r)
               PROVE  r[k].id = IdOf(n, r[k].of) /\ r[k].of \notin n.flight
    OBVIOUS
  <2>1. CASE k \in 1..Len(q)
    BY <1>2, <1>3, <1>5, <2>1 DEF IdOf
  <2>2. CASE k = Len(q) + 1
    BY <1>2, <1>3, <1>6, <2>2 DEF IdOf
  <2> QED
    BY <1>4, <2>1, <2>2
<1>8. \A k, l \in 1..Len(r) : r[k].of = r[l].of => k = l
  <2> SUFFICES ASSUME NEW k \in 1..Len(r), NEW l \in 1..Len(r), r[k].of = r[l].of
               PROVE  k = l
    OBVIOUS
  <2>1. CASE k \in 1..Len(q) /\ l \in 1..Len(q)
    BY <1>1, <1>3, <2>1 DEF Neat
  <2>2. CASE k = Len(q) + 1 \/ l = Len(q) + 1
    BY <1>3, <1>4, <1>5, <1>6, <2>2
  <2> QED
    BY <1>4, <2>1, <2>2
<1>9. Queued(n) = Queued(t) \cup {j}
  <2>1. Queued(n) = {r[k].of : k \in 1..Len(r)} /\ Queued(t) = {q[k].of : k \in 1..Len(q)}
    BY <1>1 DEF Queued
  <2>2. Queued(n) \subseteq Queued(t) \cup {j}
    BY <1>3, <1>4, <1>6, <2>1
  <2>3. Queued(t) \subseteq Queued(n)
    <3>1. \A k \in 1..Len(q) : k \in 1..Len(r)
      BY <1>2, <1>3
    <3> QED
      BY <1>3, <2>1, <3>1
  <2>4. j \in Queued(n)
    <3>1. Len(q) + 1 \in 1..Len(r)
      BY <1>2, <1>3
    <3> QED
      BY <1>3, <1>6, <2>1, <3>1
  <2> QED
    BY <2>2, <2>3, <2>4
<1> QED
  BY <1>1, <1>7, <1>8, <1>9 DEF Neat

\* A result that is enqueued is on its way afterwards, unless its id is suppressed.
LEMMA EnqueueCarries ==
  ASSUME NEW t \in Managers, Neat(t), NEW j \in Jobs, IdOf(t, j) \in Ids, j \notin OnWay(t)
  PROVE  Carries(EnqueueDelivery(t, j), t,
                 IF IsSuppressed(t, IdOf(t, j)) THEN OnWay(t) ELSE OnWay(t) \cup {j})
<1>1. CASE IsSuppressed(t, IdOf(t, j))
  <2>1. EnqueueDelivery(t, j) = t
    BY <1>1 DEF EnqueueDelivery, IdOf
  <2>2. Same(t, t)
    BY DEF Same
  <2> QED
    BY <1>1, <2>1, <2>2, SameResults
<1>2. CASE ~IsSuppressed(t, IdOf(t, j))
  <2>1. PICK d : d = [id |-> IdOf(t, j), of |-> j, due |-> TRUE]
    OBVIOUS
  <2>2. PICK q : q = Append(t.deliveries, d)
    OBVIOUS
  <2>3. q \in Seq(Deliveries)
    <3>1. d \in Deliveries
      BY <2>1 DEF Deliveries
    <3> QED
      BY <2>2, <3>1, ManagerFields
  <2>4. PICK n : n = [t EXCEPT !.deliveries = q]
    OBVIOUS
  <2>5. EnqueueDelivery(t, j) = EnsureLoop(n)
    BY <1>2, <2>1, <2>2, <2>4 DEF EnqueueDelivery, IdOf, Managers
  <2>6. Same(n, t) /\ n \in Managers
    BY <2>3, <2>4 DEF Same, Managers
  <2>7. n.deliveries = q /\ n.flight = t.flight
    BY <2>4 DEF Managers
  <2>8. j \notin Queued(t) /\ j \notin n.flight
    BY <2>7 DEF OnWay
  <2>9. Neat(n) /\ Queued(n) = Queued(t) \cup {j}
    BY <2>1, <2>2, <2>6, <2>7, <2>8, AppendedQueue
  <2>10. OnWay(n) = OnWay(t) \cup {j}
    BY <2>7, <2>9 DEF OnWay
  <2>11. Carries(EnsureLoop(n), t, OnWay(t) \cup {j})
    BY <2>6, <2>9, <2>10, EnsureLoopCarries, CarriedOn
  <2> QED
    BY <1>2, <2>5, <2>11
<1> QED
  BY <1>1, <1>2

\* A delivery is over.
LEMMA LandGoesOn ==
  ASSUME NEW t \in Managers, NEW j, NEW landed, landed = [t EXCEPT !.flight = @ \ {j}],
         Neat(landed)
  PROVE  Carries(Land(t, j), landed, OnWay(landed))
<1>1. landed \in Managers /\ Same(landed, landed)
  BY DEF Managers, Same
<1>2. Carries(landed, landed, OnWay(landed))
  BY <1>1, SameResults
<1>3. Land(t, j) = RunLoop(landed) \/ Land(t, j) = EnsureLoop(landed) \/ Land(t, j) = landed
  BY DEF Land
<1> QED
  BY <1>1, <1>2, <1>3, RunLoopCarries, EnsureLoopCarries

\* A delivery that is over takes its own result out of flight, and no other one.
LEMMA LandCarries ==
  ASSUME NEW t \in Managers, Neat(t), NEW j \in t.flight
  PROVE  Carries(Land(t, j), t, OnWay(t) \ {j})
<1>1. PICK landed : landed = [t EXCEPT !.flight = @ \ {j}]
  OBVIOUS
<1>2. Same(landed, t)
  BY <1>1 DEF Managers, Same
<1>3. landed.deliveries = t.deliveries /\ landed.flight = t.flight \ {j} /\ landed.job = t.job
  BY <1>1 DEF Managers
<1>4. Neat(landed)
  BY <1>3 DEF Neat, IdOf
<1>5. OnWay(landed) = OnWay(t) \ {j}
  <2>1. Queued(landed) = Queued(t)
    BY <1>3 DEF Queued
  <2>2. j \notin Queued(t)
    BY DEF Neat, Queued
  <2> QED
    BY <1>3, <2>1, <2>2 DEF OnWay
<1> QED
  BY <1>1, <1>2, <1>4, <1>5, LandGoesOn, CarriedOn

\* A delivery that threw is queued again.
LEMMA RejectedCarries ==
  ASSUME NEW t \in Managers, Neat(t), NEW j \in t.flight, IdOf(t, j) \in Ids
  PROVE  Carries(Rejected(t, j), t, OnWay(t))
<1>1. CASE IsSuppressed(t, IdOf(t, j))
  <2>1. Rejected(t, j) = Land(t, j)
    BY <1>1 DEF Rejected, IdOf
  <2>2. Carries(Rejected(t, j), t, OnWay(t) \ {j})
    BY <2>1, LandCarries
  <2> QED
    BY <1>1, <2>2 DEF Carries
<1>2. CASE ~IsSuppressed(t, IdOf(t, j))
  <2>1. PICK d : d = [id |-> IdOf(t, j), of |-> j, due |-> FALSE]
    OBVIOUS
  <2>2. PICK q : q = Append(t.deliveries, d)
    OBVIOUS
  <2>3. j \in Jobs /\ t.flight \in SUBSET Jobs
    BY ManagerFields
  <2>4. q \in Seq(Deliveries)
    <3>1. d \in Deliveries
      BY <2>1, <2>3 DEF Deliveries
    <3> QED
      BY <2>2, <3>1, ManagerFields
  <2>5. PICK later, landed : /\ later = [t EXCEPT !.deliveries = q]
                             /\ landed = [later EXCEPT !.flight = @ \ {j}]
    OBVIOUS
  <2>6. Rejected(t, j) = Land(later, j)
    BY <1>2, <2>1, <2>2, <2>5 DEF Rejected, IdOf, Managers
  <2>7. later \in Managers
    BY <2>4, <2>5 DEF Managers
  <2>8. landed = [t EXCEPT !.deliveries = q, !.flight = t.flight \ {j}]
    BY <2>5 DEF Managers
  <2>9. Same(landed, t)
    BY <2>3, <2>4, <2>8, Rearranged
  <2>10. landed.deliveries = q /\ landed.flight = t.flight \ {j}
    BY <2>8 DEF Managers
  <2>11. j \notin Queued(t)
    BY DEF Neat, Queued
  <2>12. Neat(landed) /\ Queued(landed) = Queued(t) \cup {j}
    BY <2>1, <2>2, <2>3, <2>9, <2>10, <2>11, AppendedQueue
  <2>13. OnWay(landed) = OnWay(t)
    BY <2>10, <2>12 DEF OnWay
  <2>14. Carries(Land(later, j), landed, OnWay(landed))
    BY <2>5, <2>7, <2>12, LandGoesOn
  <2> QED
    BY <2>6, <2>9, <2>13, <2>14, CarriedOn
<1> QED
  BY <1>1, <1>2

\* Arming a retention timer moves no result.
LEMMA TimerCarries ==
  ASSUME NEW t \in Managers, NEW n, NEW W, Carries(n, t, W), NEW i \in Ids
  PROVE  Carries(ScheduleEviction(n, i), ScheduleEviction(t, i), W)
<1>1. n \in Managers /\ Same(n, t)
  BY DEF Carries, Same
<1>2. PICK u, v : u = ScheduleEviction(n, i) /\ v = ScheduleEviction(t, i)
  OBVIOUS
<1>3. /\ u = [n EXCEPT !.timers = @ \cup {i}]
      /\ v = [t EXCEPT !.timers = @ \cup {i}]
  BY <1>2 DEF ScheduleEviction
<1>4. u \in Managers
  BY <1>1, <1>3 DEF Managers
<1>5. /\ u.at = v.at /\ u.last = v.last /\ u.job = v.job
      /\ u.suppressed = v.suppressed /\ u.watched = v.watched /\ u.timers = v.timers
  BY <1>1, <1>3 DEF Managers, Same
<1>6. Same(u, v)
  BY <1>4, <1>5 DEF Same
<1>7. u.deliveries = n.deliveries /\ u.flight = n.flight /\ u.job = n.job
      /\ v.job = t.job /\ v.suppressed = t.suppressed /\ v.watched = t.watched
  BY <1>1, <1>3 DEF Managers
<1>8. Neat(u) /\ OnWay(u) = OnWay(n)
  BY <1>7 DEF Neat, OnWay, Queued, IdOf, Carries
<1>9. \A k : IsSuppressed(v, IdOf(v, k)) <=> IsSuppressed(t, IdOf(t, k))
  BY <1>7 DEF IsSuppressed, IdOf
<1> QED
  BY <1>2, <1>6, <1>8, <1>9 DEF Carries

\* Results that are acknowledged are taken out of the queue.
LEMMA AcknowledgeCarries ==
  ASSUME NEW t \in Managers, Neat(t), NEW S \in SUBSET Ids,
         NEW u, u = [t EXCEPT !.suppressed = @ \cup S]
  PROVE  Carries(Acknowledge(t, S), u, OnWay(t))
<1>1. u \in Managers
  BY DEF Managers
<1>2. u.deliveries = t.deliveries /\ u.flight = t.flight /\ u.job = t.job
  BY DEF Managers
<1>3. Neat(u) /\ OnWay(u) = OnWay(t)
  BY <1>2 DEF Neat, OnWay, Queued, IdOf
<1>4. CASE S = {}
  <2>1. u = t
    BY <1>4 DEF Managers
  <2>2. Acknowledge(t, S) = u
    BY <1>4, <2>1 DEF Acknowledge
  <2>3. Same(u, u)
    BY <1>1 DEF Same
  <2> QED
    BY <1>3, <2>2, <2>3, SameResults
<1>5. CASE S # {}
  <2>1. PICK q : q = t.deliveries
    OBVIOUS
  <2>2. q \in Seq(Deliveries) /\ DOMAIN q = 1..Len(q)
    BY <2>1, ManagerFields
  <2>3. PICK K : K = {k \in 1..Len(q) : ~IsSuppressed(u, q[k].id)}
    OBVIOUS
  <2>4. PICK n : n = [u EXCEPT !.deliveries = Kept(q, K)]
    OBVIOUS
  <2>5. Acknowledge(t, S) = n
    BY <1>2, <1>5, <2>1, <2>2, <2>3, <2>4 DEF Acknowledge
  <2>6. Kept(q, K) \in Seq(Deliveries) /\ PickedFrom(q, K, Kept(q, K))
    BY <2>2, <2>3, KeptFacts DEF PickedFrom
  <2>7. Same(n, u)
    BY <1>1, <2>4, <2>6, Rearranged
  <2>8. n.deliveries = Kept(q, K) /\ n.flight = u.flight
    BY <1>1, <2>4 DEF Managers
  <2>9. n.flight = u.flight \cup {u.deliveries[k].of : k \in {}}
    BY <2>8
  <2>10. K \in SUBSET (1..Len(q)) /\ {} \in SUBSET (1..Len(q)) /\ K \cap {} = {}
    BY <2>3
  <2>11. \A l \in (1..Len(q)) \ (K \cup {}) : IsSuppressed(u, q[l].id)
    BY <2>3
  <2>12. q = u.deliveries
    BY <1>2, <2>1
  <2>13. PickedFrom(u.deliveries, K, n.deliveries)
    BY <2>6, <2>8, <2>12
  <2>14. K \in SUBSET (1..Len(u.deliveries)) /\ {} \in SUBSET (1..Len(u.deliveries))
    BY <2>10, <2>12
  <2>15. \A l \in (1..Len(u.deliveries)) \ (K \cup {}) : IsSuppressed(u, u.deliveries[l].id)
    BY <2>11, <2>12
  <2>16. Carries(n, u, OnWay(u))
    BY <1>1, <1>3, <2>7, <2>9, <2>10, <2>13, <2>14, <2>15, Sifted
  <2> QED
    BY <1>3, <2>5, <2>16
<1> QED
  BY <1>4, <1>5

\* Jobs and ids are the numbers from 1 to MaxJobs, and None is not one of them.
LEMMA Numbers ==
  /\ MaxJobs \in Nat /\ MaxJobs >= 1
  /\ None \notin Ids /\ None \notin Jobs /\ None \in Nat
  /\ \A j \in Jobs : j \in Nat /\ j >= 1 /\ j <= MaxJobs
  /\ \A j \in Nat : j >= 1 /\ j <= MaxJobs => j \in Jobs
BY MaxJobsAssumption DEF None, Ids, Jobs

\* The values the records of the jobs and the ids have.
LEMMA JobFields ==
  ASSUME NEW n \in Managers
  PROVE  /\ \A k \in Jobs : IdOf(n, k) \in Ids \cup {None} /\ StatusOf(n, k) \in Statuses
         /\ \A i \in Ids : n.at[i] \in Jobs \cup {None}
<1>1. n.at \in [Ids -> Jobs \cup {None}]
      /\ n.job \in [Jobs -> [status : Statuses, id : Ids \cup {None}]]
  BY ManagerFields
<1>2. \A k \in Jobs : n.job[k] \in [status : Statuses, id : Ids \cup {None}]
  BY <1>1
<1> QED
  BY <1>1, <1>2 DEF IdOf, StatusOf

\* What a registered job, and an id that is taken, are known to be.
LEMMA LedgerFacts ==
  ASSUME NEW t, Ledger(t)
  PROVE  /\ t \in Managers /\ t.last \in Nat /\ t.last <= MaxJobs
         /\ \A j \in Jobs : StatusOf(t, j) # "none" => j <= t.last /\ IdOf(t, j) \in Ids
         /\ \A j \in Jobs : IdOf(t, j) # None => j <= t.last /\ StatusOf(t, j) # "none"
         /\ \A i \in Ids : t.at[i] # None => /\ t.at[i] \in Jobs /\ IdOf(t, t.at[i]) = i
                                             /\ StatusOf(t, t.at[i]) # "none"
                                             /\ t.at[i] <= t.last
         /\ \A i \in Ids : t.at[i] # None => \A k \in Jobs : IdOf(t, k) = i => k <= t.at[i]
<1>1. t \in Managers /\ Registered(t)
  BY DEF Ledger
<1>2. t.last \in Nat
  BY <1>1, ManagerFields
<1>3. \A j \in Jobs : (StatusOf(t, j) = "none" <=> j > t.last) /\ (IdOf(t, j) = None <=> j > t.last)
  BY <1>1 DEF Registered
<1>4. \A j \in Jobs : j > t.last \/ j <= t.last
  BY <1>2, Numbers
<1>5. \A j \in Jobs : ~(j > t.last /\ j <= t.last)
  BY <1>2, Numbers
<1>6. \A j \in Jobs : StatusOf(t, j) # "none" => j <= t.last /\ IdOf(t, j) \in Ids
  BY <1>1, <1>3, <1>4, JobFields
<1>7. \A j \in Jobs : IdOf(t, j) # None => j <= t.last /\ StatusOf(t, j) # "none"
  BY <1>3, <1>4
<1>8. ASSUME NEW i \in Ids, t.at[i] # None
      PROVE  t.at[i] \in Jobs /\ IdOf(t, t.at[i]) = i
             /\ \A k \in Jobs : IdOf(t, k) = i => k <= t.at[i]
  BY <1>1, <1>8, JobFields DEF Registered
<1>9. \A i \in Ids : i # None
  BY Numbers
<1>10. ASSUME NEW i \in Ids, t.at[i] # None
       PROVE  t.at[i] \in Jobs /\ IdOf(t, t.at[i]) = i /\ StatusOf(t, t.at[i]) # "none"
              /\ t.at[i] <= t.last
  BY <1>7, <1>8, <1>9, <1>10
<1>11. t.last <= MaxJobs
  BY <1>1 DEF Registered
<1> QED
  BY <1>1, <1>2, <1>6, <1>7, <1>8, <1>10, <1>11

\* n and t know the same jobs under the same ids, and the same timers are armed.
Alike(n, t) == /\ n \in Managers /\ n.at = t.at /\ n.last = t.last
               /\ n.job = t.job /\ n.timers = t.timers

\* Two managers that know the same jobs under the same ids agree on all that is said of jobs.
LEMMA AlikeBooks ==
  ASSUME NEW t, Ledger(t), NEW n, Alike(n, t)
  PROVE  /\ Ledger(n)
         /\ \A k : /\ Placed(t, k) => Placed(n, k)
                   /\ IdOf(n, k) = IdOf(t, k) /\ StatusOf(n, k) = StatusOf(t, k)
                   /\ Cancelled(n, k) <=> Cancelled(t, k)
                   /\ Listed(n, k) <=> Listed(t, k)
                   /\ Later(n, k) <=> Later(t, k)
                   /\ Spooked(n, k) <=> Spooked(t, k)
                   /\ Orderly(n, k) <=> Orderly(t, k)
         /\ Finished(n) = Finished(t) /\ Running(n) = Running(t)
<1>1. n.at = t.at /\ n.last = t.last /\ n.job = t.job /\ n.timers = t.timers /\ n \in Managers
  BY DEF Alike
<1>2. \A k : IdOf(n, k) = IdOf(t, k) /\ StatusOf(n, k) = StatusOf(t, k)
  BY <1>1 DEF IdOf, StatusOf
<1>3. \A k : Cancelled(n, k) <=> Cancelled(t, k)
  BY <1>2 DEF Cancelled
<1>4. \A k : Listed(n, k) <=> Listed(t, k)
  BY <1>1 DEF Listed
<1>5. \A k : Later(n, k) <=> Later(t, k)
  BY <1>2 DEF Later
<1>6. \A k : Spooked(n, k) <=> Spooked(t, k)
  BY <1>2, <1>3 DEF Spooked
<1>7. \A i : Spoilt(n, i) <=> Spoilt(t, i)
  BY <1>2, <1>3 DEF Spoilt
<1>8. \A k : Placed(t, k) => Placed(n, k)
  BY <1>1, <1>2, <1>6, <1>7 DEF Placed
<1>9. Registered(n)
  BY <1>1, <1>2 DEF Registered, Ledger
<1>10. Retained(n)
  BY <1>1, <1>2, <1>4, <1>6, <1>7 DEF Retained, Ledger
<1>11. \A k : Orderly(n, k) <=> Orderly(t, k)
  BY <1>5, <1>6 DEF Orderly
<1>12. Finished(n) = Finished(t) /\ Running(n) = Running(t)
  BY <1>1 DEF Finished, Running
<1> QED
  BY <1>1, <1>2, <1>3, <1>4, <1>5, <1>6, <1>8, <1>9, <1>10, <1>11, <1>12 DEF Ledger

\* The books are in order after a step that carries results.
LEMMA CarriedBooks ==
  ASSUME NEW t, Ledger(t), NEW n, NEW W, Carries(n, t, W), \A k \in W : Placed(t, k)
  PROVE  Books(n) /\ Alike(n, t)
<1>1. Alike(n, t)
  BY DEF Carries, Same, Alike
<1> QED
  BY <1>1, AlikeBooks DEF Books, Carries

-----------------------------------------------------------------------------
\* What register() does to the records.
Registers(n, t, j, id) ==
  /\ n \in Managers /\ j \in Jobs /\ j = t.last + 1 /\ n.last = j
  /\ id \in Ids /\ t.at[id] = None /\ n.at[id] = j
  /\ \A i \in Ids : i # id => n.at[i] = t.at[i]
  /\ IdOf(n, j) = id /\ StatusOf(n, j) = "running"
  /\ \A k \in Jobs : k # j => IdOf(n, k) = IdOf(t, k) /\ StatusOf(n, k) = StatusOf(t, k)
  /\ n.suppressed = t.suppressed \ {id} /\ n.watched = t.watched /\ n.timers = t.timers
  /\ n.deliveries = t.deliveries /\ n.flight = t.flight

\* There is a free id as long as there is a job to come.
LEMMA FreeId ==
  ASSUME NEW t, Ledger(t), t.last < MaxJobs
  PROVE  \E i \in Ids : t.at[i] = None
<1> SUFFICES ASSUME \A i \in Ids : t.at[i] # None PROVE FALSE
  OBVIOUS
<1>1. PICK f : f = [i \in Ids |-> t.at[i]]
  OBVIOUS
<1>2. t.last \in Nat /\ \A i \in Ids : t.at[i] \in Jobs /\ t.at[i] <= t.last /\ IdOf(t, t.at[i]) = i
  BY LedgerFacts
<1>3. f \in [Ids -> 1..t.last]
  BY <1>1, <1>2, Numbers
<1>4. IsFiniteSet(Ids) /\ Cardinality(Ids) = MaxJobs
  <2>1. 1 \in Int /\ MaxJobs \in Int /\ MaxJobs >= 1
    BY Numbers
  <2> QED
    BY <2>1, FS_Interval DEF Ids
<1>5. IsFiniteSet(1..t.last) /\ Cardinality(1..t.last) < MaxJobs
  <2>1. 1 \in Int /\ t.last \in Int
    BY <1>2
  <2>2. IsFiniteSet(1..t.last) /\ Cardinality(1..t.last) = IF 1 <= t.last THEN t.last - 1 + 1 ELSE 0
    BY <2>1, FS_Interval
  <2> QED
    BY <1>2, <2>2, Numbers
<1>6. \E x, y \in Ids : x # y /\ f[x] = f[y]
  BY <1>3, <1>4, <1>5, FS_PigeonHole
<1> QED
  BY <1>1, <1>2, <1>6

\* Registering takes a free id and the next number, and changes no other record.
LEMMA RegisterFacts ==
  ASSUME NEW t, Ledger(t), t.last < MaxJobs
  PROVE  \E id \in Ids : Registers(Register(t), t, t.last + 1, id)
<1>1. PICK j, free : j = t.last + 1 /\ free = {i \in Ids : t.at[i] = None}
  OBVIOUS
<1>2. PICK id : id = Min(free)
  OBVIOUS
<1>3. id \in Ids /\ t.at[id] = None
  <2>1. free \in SUBSET Nat
    BY <1>1 DEF Ids
  <2>2. free # {}
    BY <1>1, FreeId
  <2>3. id \in free
    BY <1>2, <2>1, <2>2, MinFacts
  <2> QED
    BY <1>1, <2>3
<1>4. j \in Jobs /\ j \in Nat
  BY <1>1, LedgerFacts, Numbers
<1>5. PICK n : n = [t EXCEPT !.last = j, !.at[id] = j, !.suppressed = @ \ {id},
                             !.job[j] = [status |-> "running", id |-> id]]
  OBVIOUS
<1>6. n = Register(t)
  BY <1>1, <1>2, <1>5 DEF Register
<1>7. t \in Managers /\ t.at \in [Ids -> Jobs \cup {None}]
      /\ t.job \in [Jobs -> [status : Statuses, id : Ids \cup {None}]]
  BY LedgerFacts, ManagerFields
<1>8. PICK r : r = [status |-> "running", id |-> id]
  OBVIOUS
<1>9. r \in [status : Statuses, id : Ids \cup {None}] /\ r.id = id /\ r.status = "running"
  BY <1>3, <1>8 DEF Statuses
<1>10. n = [t EXCEPT !.last = j, !.at = [t.at EXCEPT ![id] = j], !.suppressed = t.suppressed \ {id},
                     !.job = [t.job EXCEPT ![j] = r]]
  BY <1>5, <1>7, <1>8 DEF Managers
<1>11. /\ n.last = j /\ n.at = [t.at EXCEPT ![id] = j] /\ n.suppressed = t.suppressed \ {id}
       /\ n.job = [t.job EXCEPT ![j] = r] /\ n.watched = t.watched /\ n.timers = t.timers
       /\ n.deliveries = t.deliveries /\ n.flight = t.flight
  BY <1>7, <1>10 DEF Managers
<1>12. n \in Managers
  <2>1. [t.at EXCEPT ![id] = j] \in [Ids -> Jobs \cup {None}]
        /\ [t.job EXCEPT ![j] = r] \in [Jobs -> [status : Statuses, id : Ids \cup {None}]]
    BY <1>3, <1>4, <1>7, <1>9
  <2> QED
    BY <1>4, <1>7, <1>10, <2>1 DEF Managers
<1>13. n.at[id] = j /\ \A i \in Ids : i # id => n.at[i] = t.at[i]
  BY <1>3, <1>7, <1>11
<1>14. n.job[j] = r /\ \A k \in Jobs : k # j => n.job[k] = t.job[k]
  BY <1>4, <1>7, <1>11
<1>15. IdOf(n, j) = id /\ StatusOf(n, j) = "running"
       /\ \A k \in Jobs : k # j => IdOf(n, k) = IdOf(t, k) /\ StatusOf(n, k) = StatusOf(t, k)
  BY <1>9, <1>14 DEF IdOf, StatusOf
<1> QED
  BY <1>1, <1>3, <1>4, <1>6, <1>11, <1>12, <1>13, <1>15 DEF Registers

\* The books after a registration: an id that is free now is that of an ended job,
\* or one that is spoilt, and stays so for the new job.
LEMMA RegisterBooks ==
  ASSUME NEW t, Books(t), NEW n, NEW j, NEW id, Registers(n, t, j, id)
  PROVE  /\ Books(n) /\ OnWay(n) = OnWay(t) /\ Finished(n) = Finished(t)
         /\ StatusOf(t, j) = "none" /\ Listed(n, j) /\ IdOf(n, j) = id
         /\ \A k \in Jobs : k # j =>
              /\ IdOf(n, k) = IdOf(t, k) /\ StatusOf(n, k) = StatusOf(t, k)
              /\ Cancelled(n, k) <=> Cancelled(t, k)
              /\ Orderly(n, k) => Orderly(t, k) /\ IdOf(t, k) # id
              /\ Later(n, k) => Later(t, k) \/ IdOf(t, k) = id
         /\ \A k \in Jobs : StatusOf(t, k) # "none" =>
              /\ k # j
              /\ Listed(n, k) <=> Listed(t, k)
              /\ Listed(n, k) => IdOf(t, k) # id
<1>1. Ledger(t)
  BY DEF Books
<1>2. /\ n \in Managers /\ j \in Jobs /\ j = t.last + 1 /\ n.last = j
      /\ id \in Ids /\ t.at[id] = None /\ n.at[id] = j /\ id # None
      /\ \A i \in Ids : i # id => n.at[i] = t.at[i]
      /\ IdOf(n, j) = id /\ StatusOf(n, j) = "running"
      /\ \A k \in Jobs : k # j => IdOf(n, k) = IdOf(t, k) /\ StatusOf(n, k) = StatusOf(t, k)
      /\ n.timers = t.timers /\ n.deliveries = t.deliveries /\ n.flight = t.flight
  BY Numbers DEF Registers
<1>3. /\ t \in Managers /\ t.last \in Nat
      /\ \A k \in Jobs : StatusOf(t, k) # "none" => k <= t.last /\ IdOf(t, k) \in Ids
      /\ \A k \in Jobs : IdOf(t, k) # None => k <= t.last /\ StatusOf(t, k) # "none"
      /\ \A i \in Ids : t.at[i] # None => /\ t.at[i] \in Jobs /\ IdOf(t, t.at[i]) = i
                                          /\ StatusOf(t, t.at[i]) # "none"
                                          /\ t.at[i] <= t.last
      /\ \A i \in Ids : t.at[i] # None => \A k \in Jobs : IdOf(t, k) = i => k <= t.at[i]
  BY <1>1, LedgerFacts
<1>4. \A k \in Jobs : StatusOf(t, k) # "none" => k # j /\ k < j
  BY <1>2, <1>3, Numbers
<1>5. StatusOf(t, j) = "none" /\ IdOf(t, j) = None
  BY <1>2, <1>3, <1>4
<1>6. \A k \in Jobs : StatusOf(t, k) # "none" =>
        (Listed(n, k) <=> Listed(t, k)) /\ (Listed(n, k) => IdOf(t, k) # id)
  <2> SUFFICES ASSUME NEW k \in Jobs, StatusOf(t, k) # "none"
               PROVE  (Listed(n, k) <=> Listed(t, k)) /\ (Listed(n, k) => IdOf(t, k) # id)
    OBVIOUS
  <2>1. k # j /\ IdOf(n, k) = IdOf(t, k) /\ IdOf(t, k) \in Ids /\ k # None
    BY <1>2, <1>3, <1>4, Numbers
  <2>2. Listed(n, k) <=> n.at[IdOf(t, k)] = k
    BY <2>1 DEF Listed, IdOf
  <2>3. Listed(t, k) <=> t.at[IdOf(t, k)] = k
    BY DEF Listed, IdOf
  <2> QED
    BY <1>2, <2>1, <2>2, <2>3
<1>7. Listed(n, j)
  BY <1>2 DEF Listed, IdOf
<1>8. \A k \in Jobs : k # j => (Cancelled(n, k) <=> Cancelled(t, k))
  BY <1>2 DEF Cancelled
<1>9. \A k \in Jobs : Cancelled(t, k) => k # j /\ k < j /\ Cancelled(n, k)
  BY <1>2, <1>4, <1>8 DEF Cancelled
<1>10. \A k \in Jobs : k # j => (Spooked(t, k) => Spooked(n, k))
  BY <1>2, <1>9 DEF Spooked
<1>11. \A k \in Jobs : k # j /\ IdOf(t, k) = id => Later(n, k)
  <2> SUFFICES ASSUME NEW k \in Jobs, k # j, IdOf(t, k) = id PROVE Later(n, k)
    OBVIOUS
  <2>1. k < j /\ IdOf(n, k) = id
    BY <1>2, <1>3, <1>4
  <2>2. j > k
    BY <2>1, <1>2, Numbers
  <2> QED
    BY <1>2, <2>1, <2>2 DEF Later
<1>12. \A k \in Jobs : k # j => (Later(t, k) => Later(n, k))
  <2> SUFFICES ASSUME NEW k \in Jobs, k # j, Later(t, k) PROVE Later(n, k)
    OBVIOUS
  <2>1. PICK l \in Jobs : l > k /\ IdOf(t, l) = IdOf(t, k)
    BY DEF Later
  <2>2. CASE l # j
    BY <1>2, <2>1, <2>2 DEF Later
  <2>3. CASE l = j
    <3>1. IdOf(n, k) = None
      BY <1>2, <1>5, <2>1, <2>3
    <3>2. StatusOf(t, k) = "none"
      BY <1>2, <1>3, <1>5, <2>1, <2>3, Numbers
    <3>3. k \in Nat /\ j \in Nat /\ k < j
      BY <2>1, <2>3, <1>2, Numbers
    <3>4. k <= t.last
      BY <1>2, <1>3, <3>3
    <3>5. \A i \in Jobs : (StatusOf(t, i) = "none" <=> i > t.last)
      BY <1>1 DEF Ledger, Registered
    <3> QED
      BY <1>3, <3>2, <3>3, <3>4, <3>5
  <2> QED
    BY <2>2, <2>3
<1>13. \A k \in Jobs : k # j => (Later(n, k) => Later(t, k) \/ IdOf(t, k) = id)
  BY <1>2 DEF Later
<1>14. \A k \in Jobs : k # j => (Orderly(n, k) => Orderly(t, k) /\ IdOf(t, k) # id)
  BY <1>10, <1>11, <1>12 DEF Orderly
<1>15. Finished(n) = Finished(t)
  <2>1. \A k \in Jobs : StatusOf(n, k) = "finished" <=> StatusOf(t, k) = "finished"
    BY <1>2, <1>5
  <2> QED
    BY <2>1 DEF Finished, StatusOf
<1>16. OnWay(n) = OnWay(t) /\ Queued(n) = Queued(t)
  BY <1>2 DEF OnWay, Queued
<1>17. \A k \in OnWay(t) : k \in Jobs /\ k # j /\ StatusOf(t, k) = "finished"
  <2>1. Queued(t) \subseteq Jobs
    <3>1. t.deliveries \in Seq(Deliveries)
      BY <1>3, ManagerFields
    <3>2. \A k \in 1..Len(t.deliveries) : t.deliveries[k] \in Deliveries
      BY <3>1
    <3> QED
      BY <3>2 DEF Queued, Deliveries
  <2>2. OnWay(t) \subseteq Jobs
    BY <1>3, <2>1, ManagerFields DEF OnWay
  <2>3. \A k \in OnWay(t) : StatusOf(t, k) = "finished"
    BY DEF Books, Placed
  <2> QED
    BY <1>5, <2>2, <2>3
<1>18. Neat(n)
  <2>1. \A k \in 1..Len(t.deliveries) : t.deliveries[k].of \in OnWay(t)
    BY DEF OnWay, Queued
  <2>2. \A k \in 1..Len(n.deliveries) : n.deliveries[k].id = IdOf(n, n.deliveries[k].of)
                                        /\ n.deliveries[k].of \notin n.flight
    <3> SUFFICES ASSUME NEW k \in 1..Len(n.deliveries)
                 PROVE  n.deliveries[k].id = IdOf(n, n.deliveries[k].of)
                        /\ n.deliveries[k].of \notin n.flight
      OBVIOUS
    <3>1. k \in 1..Len(t.deliveries) /\ n.deliveries[k] = t.deliveries[k]
      BY <1>2
    <3>2. t.deliveries[k].id = IdOf(t, t.deliveries[k].of) /\ t.deliveries[k].of \notin t.flight
      BY <3>1 DEF Books, Neat
    <3>3. IdOf(n, t.deliveries[k].of) = IdOf(t, t.deliveries[k].of)
      BY <1>2, <1>17, <2>1, <3>1
    <3> QED
      BY <1>2, <3>1, <3>2, <3>3
  <2>3. \A k, l \in 1..Len(n.deliveries) : n.deliveries[k].of = n.deliveries[l].of => k = l
    BY <1>2 DEF Books, Neat
  <2> QED
    BY <2>2, <2>3 DEF Neat
<1>19. \A i \in Ids : Spoilt(t, i) => Spoilt(n, i)
  BY <1>2, <1>9 DEF Spoilt
<1>20. Spoilt(t, id) => Spooked(n, j)
  <2> SUFFICES ASSUME Spoilt(t, id) PROVE Spooked(n, j)
    OBVIOUS
  <2>1. PICK k \in Jobs : IdOf(t, k) = id /\ Cancelled(t, k)
    BY DEF Spoilt
  <2>2. k < j /\ Cancelled(n, k) /\ IdOf(n, k) = IdOf(n, j)
    BY <1>2, <1>9, <2>1
  <2> QED
    BY <2>2 DEF Spooked
<1>21. \A k \in OnWay(n) : Placed(n, k)
  <2> SUFFICES ASSUME NEW k \in OnWay(t) PROVE Placed(n, k)
    BY <1>16
  <2>1. k \in Jobs /\ k # j /\ StatusOf(t, k) = "finished" /\ IdOf(n, k) = IdOf(t, k)
        /\ StatusOf(n, k) = "finished" /\ IdOf(t, k) \in Ids
    BY <1>2, <1>3, <1>17
  <2>2. IF t.at[IdOf(t, k)] = None THEN Spoilt(t, IdOf(t, k))
        ELSE t.at[IdOf(t, k)] = k \/ Spooked(t, t.at[IdOf(t, k)])
    BY DEF Books, Placed
  <2>3. CASE IdOf(t, k) = id
    <3>1. Spooked(n, j)
      BY <1>2, <1>20, <2>2, <2>3
    <3> QED
      BY <1>2, <2>1, <2>3, <3>1, Numbers DEF Placed
  <2>4. CASE IdOf(t, k) # id
    <3>1. n.at[IdOf(n, k)] = t.at[IdOf(t, k)]
      BY <1>2, <2>1, <2>4
    <3>2. CASE t.at[IdOf(t, k)] = None
      BY <1>19, <2>1, <2>2, <3>1, <3>2 DEF Placed
    <3>3. CASE t.at[IdOf(t, k)] # None
      <4>1. t.at[IdOf(t, k)] \in Jobs /\ t.at[IdOf(t, k)] # j
        BY <1>3, <1>4, <2>1, <3>3
      <4>2. Spooked(t, t.at[IdOf(t, k)]) => Spooked(n, t.at[IdOf(t, k)])
        BY <1>10, <4>1
      <4> QED
        BY <2>1, <2>2, <3>1, <3>3, <4>2 DEF Placed
    <3> QED
      BY <3>2, <3>3
  <2> QED
    BY <2>3, <2>4
<1>22. Registered(n)
  <2>1. n.last <= MaxJobs
    BY <1>2, Numbers
  <2>2. ASSUME NEW k \in Jobs
        PROVE  (StatusOf(n, k) = "none" <=> k > n.last) /\ (IdOf(n, k) = None <=> k > n.last)
    <3>1. (StatusOf(t, k) = "none" <=> k > t.last) /\ (IdOf(t, k) = None <=> k > t.last)
      BY <1>1 DEF Ledger, Registered
    <3>2. CASE k = j
      BY <1>2, <3>2, Numbers
    <3>3. CASE k # j
      <4>1. k > t.last <=> k > n.last
        BY <1>2, <1>3, <3>3, Numbers
      <4> QED
        BY <1>2, <3>1, <3>3, <4>1
    <3> QED
      BY <3>2, <3>3
  <2>3. ASSUME NEW i \in Ids, n.at[i] # None
        PROVE  IdOf(n, n.at[i]) = i /\ \A k \in Jobs : IdOf(n, k) = i => k <= n.at[i]
    <3>1. CASE i = id
      <4>1. \A k \in Jobs : IdOf(n, k) = id => k <= j
        <5>1. \A k \in Jobs : k # j /\ IdOf(t, k) = id => k < j
          BY <1>2, <1>3, <1>4
        <5> QED
          BY <1>2, <5>1, Numbers
      <4> QED
        BY <1>2, <3>1, <4>1
    <3>2. CASE i # id
      <4>1. n.at[i] = t.at[i] /\ t.at[i] # None /\ t.at[i] \in Jobs /\ t.at[i] # j
            /\ IdOf(t, t.at[i]) = i
        BY <1>2, <1>3, <1>4, <2>3, <3>2
      <4>2. \A k \in Jobs : IdOf(n, k) = i => k # j /\ IdOf(t, k) = i
        BY <1>2, <3>2
      <4> QED
        BY <1>2, <1>3, <4>1, <4>2, ZenonT(60)
    <3> QED
      BY <3>1, <3>2
  <2> QED
    BY <2>1, <2>2, <2>3 DEF Registered
<1>23. Retained(n)
  <2>1. ASSUME NEW k \in Jobs, StatusOf(n, k) = "running", ~Listed(n, k) PROVE Spooked(n, k)
    <3>1. k # j /\ StatusOf(t, k) = "running" /\ ~Listed(t, k)
      BY <1>2, <1>6, <1>7, <2>1
    <3>2. Spooked(t, k)
      BY <1>1, <3>1 DEF Ledger, Retained
    <3> QED
      BY <1>10, <3>1, <3>2
  <2>2. ASSUME NEW i \in n.timers
        PROVE  IF n.at[i] = None THEN Spoilt(n, i)
               ELSE StatusOf(n, n.at[i]) # "running" \/ Spooked(n, n.at[i])
    <3>1. i \in t.timers /\ i \in Ids
      BY <1>2, <1>3, ManagerFields
    <3>2. IF t.at[i] = None THEN Spoilt(t, i)
          ELSE StatusOf(t, t.at[i]) # "running" \/ Spooked(t, t.at[i])
      BY <1>1, <3>1 DEF Ledger, Retained
    <3>3. CASE i = id
      BY <1>2, <1>20, <3>2, <3>3, Numbers
    <3>4. CASE i # id /\ t.at[i] = None
      BY <1>2, <1>19, <3>1, <3>2, <3>4
    <3>5. CASE i # id /\ t.at[i] # None
      <4>1. n.at[i] = t.at[i] /\ t.at[i] \in Jobs /\ t.at[i] # j
        BY <1>2, <1>3, <1>4, <3>1, <3>5
      <4> QED
        BY <1>2, <1>10, <3>2, <3>5, <4>1
    <3> QED
      BY <3>3, <3>4, <3>5
  <2> QED
    BY <2>1, <2>2 DEF Retained
<1>24. Books(n)
  BY <1>2, <1>18, <1>21, <1>22, <1>23 DEF Books, Ledger
<1>25. \A k \in Jobs : k # j =>
         /\ IdOf(n, k) = IdOf(t, k) /\ StatusOf(n, k) = StatusOf(t, k)
         /\ Cancelled(n, k) <=> Cancelled(t, k)
         /\ Orderly(n, k) => Orderly(t, k) /\ IdOf(t, k) # id
         /\ Later(n, k) => Later(t, k) \/ IdOf(t, k) = id
  BY <1>2, <1>8, <1>13, <1>14
<1>26. \A k \in Jobs : StatusOf(t, k) # "none" =>
         /\ k # j
         /\ Listed(n, k) <=> Listed(t, k)
         /\ Listed(n, k) => IdOf(t, k) # id
  BY <1>4, <1>6
<1> QED
  BY <1>2, <1>5, <1>7, <1>15, <1>16, <1>24, <1>25, <1>26

\* Job j, which ran or was cancelled, has now status s, and the timer of its id is armed.
Ends(n, t, j, s) ==
  /\ n \in Managers /\ n.at = t.at /\ n.last = t.last
  /\ n.suppressed = t.suppressed /\ n.watched = t.watched
  /\ n.timers = t.timers \cup {IdOf(t, j)}
  /\ \A k \in Jobs : /\ IdOf(n, k) = IdOf(t, k)
                     /\ StatusOf(n, k) = IF k = j THEN s ELSE StatusOf(t, k)

\* The statuses a job can get from the one it has.
Ending(old, s) == \/ old = "running" /\ s \in {"finished", "cancelled"}
                  \/ old = "cancelled" /\ s = "cancelled_ended"

\* The ledger stays in order when a job finishes, is cancelled or ends after that, and
\* what finished may be put on its way.
LEMMA EndsLedger ==
  ASSUME NEW t, Ledger(t), NEW j \in Jobs, NEW s, Ending(StatusOf(t, j), s),
         NEW n, Ends(n, t, j, s)
  PROVE  /\ Ledger(n) /\ StatusOf(n, j) = s
         /\ \A k \in Jobs : Placed(t, k) => Placed(n, k)
         /\ s = "finished" => Placed(n, j)
         /\ \A k \in Jobs : /\ Listed(n, k) <=> Listed(t, k)
                            /\ Later(n, k) <=> Later(t, k)
                            /\ Cancelled(t, k) => Cancelled(n, k)
                            /\ Orderly(n, k) => Orderly(t, k)
<1>1. /\ n \in Managers /\ n.at = t.at /\ n.last = t.last
      /\ n.timers = t.timers \cup {IdOf(t, j)}
      /\ \A k \in Jobs : /\ IdOf(n, k) = IdOf(t, k)
                         /\ StatusOf(n, k) = IF k = j THEN s ELSE StatusOf(t, k)
  BY DEF Ends
<1>2. StatusOf(t, j) # "none" /\ StatusOf(t, j) # "finished" /\ s # "none" /\ s # "running"
      /\ (StatusOf(t, j) \in {"cancelled", "cancelled_ended"} => s \in {"cancelled", "cancelled_ended"})
  BY DEF Ending
<1>3. /\ t \in Managers /\ t.last \in Nat
      /\ \A k \in Jobs : StatusOf(t, k) # "none" => k <= t.last /\ IdOf(t, k) \in Ids
      /\ \A i \in Ids : t.at[i] # None => /\ t.at[i] \in Jobs /\ IdOf(t, t.at[i]) = i
                                          /\ StatusOf(t, t.at[i]) # "none"
      /\ \A i \in Ids : t.at[i] # None => \A k \in Jobs : IdOf(t, k) = i => k <= t.at[i]
  BY LedgerFacts
<1>4. \A k \in Jobs : Listed(n, k) <=> Listed(t, k)
  BY <1>1 DEF Listed, IdOf
<1>5. \A k \in Jobs : Later(n, k) <=> Later(t, k)
  BY <1>1 DEF Later
<1>6. \A k \in Jobs : Cancelled(t, k) => Cancelled(n, k)
  BY <1>1, <1>2 DEF Cancelled
<1>7. \A k \in Jobs : Spooked(t, k) => Spooked(n, k)
  BY <1>1, <1>6 DEF Spooked
<1>8. \A k \in Jobs : Orderly(n, k) => Orderly(t, k)
  BY <1>5, <1>7 DEF Orderly
<1>9. \A i : Spoilt(t, i) => Spoilt(n, i)
  BY <1>1, <1>6 DEF Spoilt
<1>10. IdOf(t, j) \in Ids
  BY <1>2, <1>3
\* The job of id i was cancelled before, or has got the id after j was cancelled.
<1>11. IF t.at[IdOf(t, j)] = None THEN Spoilt(n, IdOf(t, j))
       ELSE t.at[IdOf(t, j)] = j \/ Spooked(n, t.at[IdOf(t, j)])
  <2>1. CASE Listed(t, j)
    <3>1. t.at[IdOf(t, j)] = j
      BY <2>1 DEF Listed, IdOf
    <3> QED
      BY <3>1, Numbers
  <2>2. CASE ~Listed(t, j)
    <3>1. t.at[IdOf(t, j)] # j
      BY <2>2 DEF Listed, IdOf
    <3>2. PICK k \in Jobs : k <= j /\ IdOf(t, k) = IdOf(t, j) /\ Cancelled(n, k)
      <4>1. CASE StatusOf(t, j) = "running"
        <5>1. Spooked(t, j)
          BY <2>2, <4>1 DEF Ledger, Retained
        <5>2. PICK k \in Jobs : k < j /\ IdOf(t, k) = IdOf(t, j) /\ Cancelled(t, k)
          BY <5>1 DEF Spooked
        <5>3. k <= j
          BY <5>2, Numbers
        <5> QED
          BY <1>6, <5>2, <5>3
      <4>2. CASE StatusOf(t, j) # "running"
        <5>1. Cancelled(n, j)
          BY <1>1, <4>2 DEF Ending, Cancelled
        <5>2. j <= j
          BY Numbers
        <5> QED
          BY <5>1, <5>2
      <4> QED
        BY <4>1, <4>2
    <3>3. Spoilt(n, IdOf(t, j))
      BY <1>1, <3>2 DEF Spoilt
    <3>4. t.at[IdOf(t, j)] # None => Spooked(n, t.at[IdOf(t, j)])
      <4> SUFFICES ASSUME t.at[IdOf(t, j)] # None PROVE Spooked(n, t.at[IdOf(t, j)])
        OBVIOUS
      <4>1. PICK l : l = t.at[IdOf(t, j)]
        OBVIOUS
      <4>2. l \in Jobs /\ IdOf(t, l) = IdOf(t, j) /\ j <= l /\ l # j
        BY <1>3, <1>10, <3>1, <4>1
      <4>3. k < l
        BY <3>2, <4>2, Numbers
      <4> QED
        BY <1>1, <3>2, <4>1, <4>2, <4>3 DEF Spooked
    <3> QED
      BY <3>3, <3>4
  <2> QED
    BY <2>1, <2>2
<1>12. \A k \in Jobs : Placed(t, k) => Placed(n, k)
  <2> SUFFICES ASSUME NEW k \in Jobs, Placed(t, k) PROVE Placed(n, k)
    OBVIOUS
  <2>1. StatusOf(n, k) = "finished" /\ IdOf(n, k) = IdOf(t, k) /\ IdOf(t, k) \in Ids
    BY <1>1, <1>2, <1>3 DEF Placed
  <2>2. t.at[IdOf(t, k)] # None => t.at[IdOf(t, k)] \in Jobs
    BY <1>3, <2>1
  <2> QED
    BY <1>1, <1>7, <1>9, <2>1, <2>2 DEF Placed
<1>13. s = "finished" => Placed(n, j)
  BY <1>1, <1>11 DEF Placed
<1>14. Registered(n)
  <2>1. \A k \in Jobs : StatusOf(n, k) = "none" <=> StatusOf(t, k) = "none"
    BY <1>1, <1>2
  <2>2. ASSUME NEW i \in Ids, n.at[i] # None
        PROVE  IdOf(n, n.at[i]) = i /\ \A k \in Jobs : IdOf(n, k) = i => k <= n.at[i]
    BY <1>1, <1>3, <2>2
  <2>3. \A k \in Jobs : (StatusOf(t, k) = "none" <=> k > t.last) /\ (IdOf(t, k) = None <=> k > t.last)
    BY DEF Ledger, Registered
  <2>4. n.last <= MaxJobs
    BY <1>1 DEF Ledger, Registered
  <2>5. \A k \in Jobs : (StatusOf(n, k) = "none" <=> k > n.last) /\ (IdOf(n, k) = None <=> k > n.last)
    BY <1>1, <2>1, <2>3
  <2> QED
    BY <2>2, <2>4, <2>5 DEF Registered
<1>15. Retained(n)
  <2>1. ASSUME NEW k \in Jobs, StatusOf(n, k) = "running", ~Listed(n, k) PROVE Spooked(n, k)
    <3>1. StatusOf(t, k) = "running" /\ ~Listed(t, k)
      BY <1>1, <1>2, <1>4, <2>1
    <3> QED
      BY <1>7, <3>1 DEF Ledger, Retained
  <2>2. ASSUME NEW i \in n.timers
        PROVE  IF n.at[i] = None THEN Spoilt(n, i)
               ELSE StatusOf(n, n.at[i]) # "running" \/ Spooked(n, n.at[i])
    <3>1. CASE i = IdOf(t, j)
      BY <1>1, <1>2, <1>11, <3>1
    <3>2. CASE i # IdOf(t, j)
      <4>1. i \in t.timers /\ i \in Ids
        BY <1>1, <1>3, <2>2, <3>2, ManagerFields
      <4>2. IF t.at[i] = None THEN Spoilt(t, i)
            ELSE StatusOf(t, t.at[i]) # "running" \/ Spooked(t, t.at[i])
        BY <4>1 DEF Ledger, Retained
      <4>3. CASE t.at[i] = None
        BY <1>1, <1>9, <4>2, <4>3
      <4>4. CASE t.at[i] # None
        <5>1. t.at[i] \in Jobs
          BY <1>3, <4>1, <4>4
        <5> QED
          BY <1>1, <1>2, <1>7, <4>2, <4>4, <5>1
      <4> QED
        BY <4>3, <4>4
    <3> QED
      BY <3>1, <3>2
  <2> QED
    BY <2>1, <2>2 DEF Retained
<1>16. StatusOf(n, j) = s
  BY <1>1
<1> QED
  BY <1>1, <1>4, <1>5, <1>6, <1>8, <1>12, <1>13, <1>14, <1>15, <1>16 DEF Ledger

\* What is on its way has finished, and its id has it on its way.
LEMMA OnWayFacts ==
  ASSUME NEW t, Books(t)
  PROVE  /\ t \in Managers /\ Ledger(t) /\ Neat(t)
         /\ \A k \in OnWay(t) : /\ k \in Jobs /\ Placed(t, k) /\ IdOf(t, k) \in Ids
                                /\ StatusOf(t, k) = "finished" /\ k \in Finished(t)
         /\ \A i : OnItsWay(t, i) <=> \E k \in OnWay(t) : IdOf(t, k) = i
<1>1. t \in Managers /\ Ledger(t) /\ Neat(t)
  BY DEF Books, Ledger
<1>2. OnWay(t) \subseteq Jobs
  <2>1. \A k \in 1..Len(t.deliveries) : t.deliveries[k] \in Deliveries
    BY <1>1, ManagerFields
  <2>2. Queued(t) \subseteq Jobs
    BY <2>1 DEF Queued, Deliveries
  <2> QED
    BY <1>1, <2>2, ManagerFields DEF OnWay
<1>3. \A k \in OnWay(t) : Placed(t, k) /\ StatusOf(t, k) = "finished"
  BY DEF Books, Placed
<1>4. \A k \in OnWay(t) : IdOf(t, k) \in Ids /\ k \in Finished(t)
  BY <1>1, <1>2, <1>3, LedgerFacts DEF Finished, StatusOf
<1>5. ASSUME NEW i, OnItsWay(t, i) PROVE \E k \in OnWay(t) : IdOf(t, k) = i
  <2>1. CASE \E k \in 1..Len(t.deliveries) : t.deliveries[k].id = i
    <3>1. PICK k \in 1..Len(t.deliveries) : t.deliveries[k].id = i
      BY <2>1
    <3>2. IdOf(t, t.deliveries[k].of) = i
      BY <1>1, <3>1 DEF Neat
    <3>3. t.deliveries[k].of \in OnWay(t)
      BY <3>1 DEF OnWay, Queued
    <3> QED
      BY <3>2, <3>3
  <2>2. CASE \E j \in t.flight : t.job[j].id = i
    BY <2>2 DEF OnWay, IdOf
  <2> QED
    BY <1>5, <2>1, <2>2 DEF OnItsWay
<1>6. ASSUME NEW i, NEW k \in OnWay(t), IdOf(t, k) = i PROVE OnItsWay(t, i)
  <2>1. CASE k \in t.flight
    BY <1>6, <2>1 DEF OnItsWay, IdOf
  <2>2. CASE k \in Queued(t)
    <3>1. PICK l \in 1..Len(t.deliveries) : k = t.deliveries[l].of
      BY <2>2 DEF Queued
    <3>2. t.deliveries[l].id = i
      BY <1>1, <1>6, <3>1 DEF Neat
    <3> QED
      BY <3>2 DEF OnItsWay
  <2> QED
    BY <1>6, <2>1, <2>2 DEF OnWay
<1> QED
  BY <1>1, <1>2, <1>3, <1>4, <1>5, <1>6

\* A queue that stays is as neat as it was.
LEMMA NeatAgain ==
  ASSUME NEW t, Neat(t), NEW n, n.deliveries = t.deliveries, n.flight = t.flight,
         \A k \in OnWay(t) : IdOf(n, k) = IdOf(t, k)
  PROVE  Neat(n)
<1>1. ASSUME NEW k \in 1..Len(n.deliveries)
      PROVE  n.deliveries[k].id = IdOf(n, n.deliveries[k].of) /\ n.deliveries[k].of \notin n.flight
  <2>1. k \in 1..Len(t.deliveries) /\ n.deliveries[k] = t.deliveries[k]
    OBVIOUS
  <2>2. t.deliveries[k].id = IdOf(t, t.deliveries[k].of) /\ t.deliveries[k].of \notin t.flight
    BY <2>1 DEF Neat
  <2>3. t.deliveries[k].of \in OnWay(t)
    BY <2>1 DEF OnWay, Queued
  <2> QED
    BY <2>1, <2>2, <2>3
<1>2. \A k, l \in 1..Len(n.deliveries) : n.deliveries[k].of = n.deliveries[l].of => k = l
  BY DEF Neat
<1> QED
  BY <1>1, <1>2 DEF Neat

\* What a job that ended or was cancelled leaves of what the session knows of the others.
Ended(n, t, j, s) ==
  /\ n.at = t.at /\ n.suppressed = t.suppressed /\ n.watched = t.watched
  /\ \A k \in Jobs : /\ IdOf(n, k) = IdOf(t, k)
                     /\ StatusOf(n, k) = IF k = j THEN s ELSE StatusOf(t, k)
                     /\ Listed(n, k) <=> Listed(t, k)
                     /\ Later(n, k) <=> Later(t, k)
                     /\ Cancelled(t, k) => Cancelled(n, k)
                     /\ Orderly(n, k) => Orderly(t, k)

\* A cancelled job moves no result.
LEMMA CancelledBooks ==
  ASSUME NEW t, Books(t), NEW j \in Jobs, NEW s, Ending(StatusOf(t, j), s), s # "finished",
         NEW n, n = ScheduleEviction([t EXCEPT !.job[j].status = s], t.job[j].id)
  PROVE  Books(n) /\ Ended(n, t, j, s) /\ OnWay(n) = OnWay(t)
<1>1. t \in Managers /\ Ledger(t) /\ Neat(t)
  BY OnWayFacts
<1>2. PICK i, r : i = IdOf(t, j) /\ r = [t.job[j] EXCEPT !.status = s]
  OBVIOUS
<1>3. t.job \in [Jobs -> [status : Statuses, id : Ids \cup {None}]]
      /\ t.job[j] \in [status : Statuses, id : Ids \cup {None}]
  BY <1>1, ManagerFields
<1>4. s \in Statuses /\ r \in [status : Statuses, id : Ids \cup {None}] /\ r.status = s
      /\ r.id = i
  BY <1>2, <1>3 DEF Ending, Statuses, IdOf
<1>5. i \in Ids
  BY <1>1, <1>2, LedgerFacts DEF Ending
<1>6. n = [t EXCEPT !.job = [t.job EXCEPT ![j] = r], !.timers = t.timers \cup {i}]
  BY <1>1, <1>2 DEF ScheduleEviction, IdOf, Managers
<1>7. [t.job EXCEPT ![j] = r] \in [Jobs -> [status : Statuses, id : Ids \cup {None}]]
  BY <1>3, <1>4
<1>8. n \in Managers
  <2>1. t.timers \cup {i} \in SUBSET Ids
    BY <1>1, <1>5, ManagerFields
  <2> QED
    BY <1>1, <1>6, <1>7, <2>1 DEF Managers
<1>9. /\ n.at = t.at /\ n.last = t.last /\ n.suppressed = t.suppressed /\ n.watched = t.watched
      /\ n.timers = t.timers \cup {i} /\ n.job = [t.job EXCEPT ![j] = r]
      /\ n.deliveries = t.deliveries /\ n.flight = t.flight
  BY <1>1, <1>6 DEF Managers
<1>10. n.job[j] = r /\ \A k \in Jobs : k # j => n.job[k] = t.job[k]
  BY <1>3, <1>9
<1>11. \A k \in Jobs : /\ IdOf(n, k) = IdOf(t, k)
                       /\ StatusOf(n, k) = IF k = j THEN s ELSE StatusOf(t, k)
  BY <1>2, <1>4, <1>10 DEF IdOf, StatusOf
<1>12. Ends(n, t, j, s)
  BY <1>2, <1>8, <1>9, <1>11 DEF Ends
<1>13. /\ Ledger(n)
       /\ \A k \in Jobs : Placed(t, k) => Placed(n, k)
       /\ \A k \in Jobs : /\ Listed(n, k) <=> Listed(t, k)
                          /\ Later(n, k) <=> Later(t, k)
                          /\ Cancelled(t, k) => Cancelled(n, k)
                          /\ Orderly(n, k) => Orderly(t, k)
  BY <1>1, <1>12, EndsLedger
<1>14. OnWay(n) = OnWay(t)
  BY <1>9, ZenonT(60) DEF OnWay, Queued
<1>15. Neat(n)
  <2>1. \A k \in OnWay(t) : k \in Jobs
    BY OnWayFacts
  <2> QED
    BY <1>1, <1>9, <1>11, <2>1, NeatAgain
<1>16. \A k \in OnWay(n) : Placed(n, k)
  BY <1>13, <1>14, OnWayFacts
<1> QED
  BY <1>9, <1>11, <1>13, <1>14, <1>15, <1>16 DEF Books, Ended

\* The result of a job that finished is on its way, unless it is suppressed.
LEMMA FinishedBooks ==
  ASSUME NEW t, Books(t), NEW j \in Jobs, StatusOf(t, j) = "running",
         NEW n, n = Settle(t, j)
  PROVE  /\ Books(n) /\ Ended(n, t, j, "finished")
         /\ OnWay(n) \subseteq OnWay(t) \cup {j}
         /\ IsSuppressed(t, IdOf(t, j)) => OnWay(n) \subseteq OnWay(t)
         /\ \A k \in OnWay(t) \cup {j} : k \in OnWay(n) \/ IsSuppressed(t, IdOf(t, k))
<1>1. t \in Managers /\ Ledger(t) /\ Neat(t)
  BY OnWayFacts
<1>2. PICK i, r : i = IdOf(t, j) /\ r = [t.job[j] EXCEPT !.status = "finished"]
  OBVIOUS
<1>3. t.job \in [Jobs -> [status : Statuses, id : Ids \cup {None}]]
      /\ t.job[j] \in [status : Statuses, id : Ids \cup {None}]
  BY <1>1, ManagerFields
<1>4. r \in [status : Statuses, id : Ids \cup {None}] /\ r.status = "finished" /\ r.id = i
  BY <1>2, <1>3 DEF Statuses, IdOf
<1>5. i \in Ids
  BY <1>1, <1>2, LedgerFacts
<1>6. PICK u : u = [t EXCEPT !.job = [t.job EXCEPT ![j] = r]]
  OBVIOUS
<1>7. [t.job EXCEPT ![j] = r] \in [Jobs -> [status : Statuses, id : Ids \cup {None}]]
  BY <1>3, <1>4
<1>8. u \in Managers
  BY <1>1, <1>6, <1>7 DEF Managers
<1>9. /\ u.at = t.at /\ u.last = t.last /\ u.suppressed = t.suppressed /\ u.watched = t.watched
      /\ u.timers = t.timers /\ u.job = [t.job EXCEPT ![j] = r]
      /\ u.deliveries = t.deliveries /\ u.flight = t.flight
  BY <1>1, <1>6 DEF Managers
<1>10. u.job[j] = r /\ \A k \in Jobs : k # j => u.job[k] = t.job[k]
  BY <1>3, <1>9
<1>11. \A k \in Jobs : /\ IdOf(u, k) = IdOf(t, k)
                       /\ StatusOf(u, k) = IF k = j THEN "finished" ELSE StatusOf(t, k)
  BY <1>2, <1>4, <1>10 DEF IdOf, StatusOf
<1>12. n = ScheduleEviction(EnqueueDelivery(u, j), i)
  <2>1. t.job[j].status = "running" /\ t.job[j].id = i
    BY <1>2 DEF StatusOf, IdOf
  <2>2. u = [t EXCEPT !.job[j].status = "finished"]
    BY <1>1, <1>2, <1>6 DEF Managers
  <2> QED
    BY <2>1, <2>2 DEF Settle
<1>13. OnWay(u) = OnWay(t) /\ j \notin OnWay(u)
  BY <1>9, OnWayFacts DEF OnWay, Queued
<1>14. Neat(u)
  <2>1. \A k \in OnWay(t) : k \in Jobs
    BY OnWayFacts
  <2> QED
    BY <1>1, <1>9, <1>11, <2>1, NeatAgain
<1>15. PICK W : W = IF IsSuppressed(u, i) THEN OnWay(u) ELSE OnWay(u) \cup {j}
  OBVIOUS
<1>16. IdOf(u, j) = i
  BY <1>2, <1>11
<1>17. Carries(EnqueueDelivery(u, j), u, W)
  BY <1>5, <1>8, <1>13, <1>14, <1>15, <1>16, EnqueueCarries
<1>18. PICK v : v = ScheduleEviction(u, i)
  OBVIOUS
<1>19. Carries(n, v, W)
  BY <1>5, <1>8, <1>12, <1>17, <1>18, TimerCarries
<1>20. /\ v \in Managers /\ v.at = t.at /\ v.last = t.last /\ v.job = u.job
       /\ v.suppressed = t.suppressed /\ v.watched = t.watched /\ v.timers = t.timers \cup {i}
  <2>1. v = [u EXCEPT !.timers = @ \cup {i}]
    BY <1>18 DEF ScheduleEviction
  <2> QED
    BY <1>5, <1>8, <1>9, <2>1 DEF Managers
<1>21. \A k : IdOf(v, k) = IdOf(u, k) /\ StatusOf(v, k) = StatusOf(u, k)
  BY <1>20 DEF IdOf, StatusOf
<1>22. Ends(v, t, j, "finished")
  BY <1>2, <1>11, <1>20, <1>21 DEF Ends
<1>23. /\ Ledger(v) /\ Placed(v, j)
       /\ \A k \in Jobs : Placed(t, k) => Placed(v, k)
       /\ \A k \in Jobs : /\ Listed(v, k) <=> Listed(t, k)
                          /\ Later(v, k) <=> Later(t, k)
                          /\ Cancelled(t, k) => Cancelled(v, k)
                          /\ Orderly(v, k) => Orderly(t, k)
  <2>1. Ending(StatusOf(t, j), "finished")
    BY DEF Ending
  <2> QED
    BY <1>1, <1>22, <2>1, EndsLedger
<1>24. \A k \in W : Placed(v, k)
  BY <1>13, <1>15, <1>23, OnWayFacts
<1>25. Books(n) /\ Alike(n, v)
  BY <1>19, <1>23, <1>24, CarriedBooks
<1>26. \A k : /\ IdOf(n, k) = IdOf(v, k) /\ StatusOf(n, k) = StatusOf(v, k)
              /\ Cancelled(n, k) <=> Cancelled(v, k)
              /\ Listed(n, k) <=> Listed(v, k)
              /\ Later(n, k) <=> Later(v, k)
              /\ Orderly(n, k) <=> Orderly(v, k)
  BY <1>23, <1>25, AlikeBooks
<1>27. n.at = t.at /\ n.suppressed = t.suppressed /\ n.watched = t.watched
  BY <1>19, <1>20 DEF Carries, Same
<1>28. Ended(n, t, j, "finished")
  BY <1>11, <1>21, <1>23, <1>26, <1>27 DEF Ended
<1>29. IsSuppressed(u, i) <=> IsSuppressed(t, IdOf(t, j))
  BY <1>2, <1>9 DEF IsSuppressed
<1>30. OnWay(n) \subseteq W /\ \A k \in W : k \in OnWay(n) \/ IsSuppressed(v, IdOf(v, k))
  BY <1>19 DEF Carries
<1>31. \A k \in Jobs : IsSuppressed(v, IdOf(v, k)) <=> IsSuppressed(t, IdOf(t, k))
  BY <1>11, <1>20, <1>21 DEF IsSuppressed
<1>32. OnWay(t) \subseteq Jobs
  BY OnWayFacts
<1>33. \A k \in OnWay(t) \cup {j} : k \in OnWay(n) \/ IsSuppressed(t, IdOf(t, k))
  BY <1>13, <1>15, <1>29, <1>30, <1>31, <1>32
<1> QED
  BY <1>13, <1>15, <1>25, <1>28, <1>29, <1>30, <1>33

\* The retention timer of an id takes what is known of the id away, nothing else.
LEMMA EvictBooks ==
  ASSUME NEW t, Books(t), NEW i \in t.timers, ~OnItsWay(t, i), NEW n, n = Evict(t, i)
  PROVE  /\ Books(n) /\ OnWay(n) = OnWay(t) /\ i \in Ids
         /\ n.at[i] = None /\ \A l \in Ids : l # i => n.at[l] = t.at[l]
         /\ n.suppressed = t.suppressed \ {i} /\ n.watched = t.watched \ {i}
         /\ n.job = t.job
<1>1. t \in Managers /\ Ledger(t) /\ Neat(t)
  BY OnWayFacts
<1>2. i \in Ids /\ t.at \in [Ids -> Jobs \cup {None}] /\ t.suppressed \in SUBSET Ids
      /\ t.watched \in SUBSET Ids /\ t.timers \in SUBSET Ids
  BY <1>1, ManagerFields
<1>3. n = [t EXCEPT !.timers = t.timers \ {i}, !.at = [t.at EXCEPT ![i] = None],
                    !.suppressed = t.suppressed \ {i}, !.watched = t.watched \ {i}]
  BY <1>1 DEF Evict, Managers
<1>4. [t.at EXCEPT ![i] = None] \in [Ids -> Jobs \cup {None}]
  BY <1>2
<1>5. n \in Managers
  <2>1. t.timers \ {i} \in SUBSET Ids /\ t.suppressed \ {i} \in SUBSET Ids
        /\ t.watched \ {i} \in SUBSET Ids
    BY <1>2
  <2> QED
    BY <1>1, <1>3, <1>4, <2>1 DEF Managers
<1>6. /\ n.at = [t.at EXCEPT ![i] = None] /\ n.timers = t.timers \ {i}
      /\ n.suppressed = t.suppressed \ {i} /\ n.watched = t.watched \ {i}
      /\ n.job = t.job /\ n.last = t.last /\ n.deliveries = t.deliveries /\ n.flight = t.flight
  BY <1>1, <1>3 DEF Managers
<1>7. n.at[i] = None /\ \A l \in Ids : l # i => n.at[l] = t.at[l]
  BY <1>2, <1>6
<1>8. \A k : IdOf(n, k) = IdOf(t, k) /\ StatusOf(n, k) = StatusOf(t, k)
  BY <1>6 DEF IdOf, StatusOf
<1>9. \A k : Spooked(n, k) <=> Spooked(t, k)
  BY <1>8 DEF Spooked, Cancelled
<1>10. \A l : Spoilt(n, l) <=> Spoilt(t, l)
  BY <1>8 DEF Spoilt, Cancelled
<1>11. Neat(n) /\ OnWay(n) = OnWay(t)
  BY <1>1, <1>6, <1>8, NeatAgain DEF OnWay, Queued
<1>12. Registered(n)
  <2>1. Registered(t) /\ \A l \in Ids : n.at[l] # None => n.at[l] = t.at[l]
    BY <1>1, <1>7 DEF Ledger
  <2> QED
    BY <1>6, <1>8, <2>1 DEF Registered
<1>13. Retained(n)
  <2>1. ASSUME NEW k \in Jobs, StatusOf(n, k) = "running", ~Listed(n, k) PROVE Spooked(n, k)
    <3>1. StatusOf(t, k) = "running" /\ IdOf(t, k) \in Ids
      BY <1>1, <1>8, <2>1, LedgerFacts
    <3>2. CASE ~Listed(t, k)
      BY <1>1, <1>9, <3>1, <3>2 DEF Ledger, Retained
    <3>3. CASE Listed(t, k)
      <4>1. t.at[IdOf(t, k)] = k /\ n.at[IdOf(t, k)] # k
        BY <1>8, <2>1, <3>3 DEF Listed, IdOf
      <4>2. IdOf(t, k) = i
        BY <1>7, <3>1, <4>1
      <4>3. t.at[i] = k /\ k # None
        BY <4>1, <4>2, <2>1, Numbers
      <4>4. StatusOf(t, t.at[i]) # "running" \/ Spooked(t, t.at[i])
        BY <1>1, <4>3 DEF Ledger, Retained
      <4> QED
        BY <1>9, <3>1, <4>3, <4>4
    <3> QED
      BY <3>2, <3>3
  <2>2. ASSUME NEW l \in n.timers
        PROVE  IF n.at[l] = None THEN Spoilt(n, l)
               ELSE StatusOf(n, n.at[l]) # "running" \/ Spooked(n, n.at[l])
    <3>1. l \in t.timers /\ l \in Ids /\ l # i
      BY <1>2, <1>6
    <3>2. n.at[l] = t.at[l]
      BY <1>7, <3>1
    <3> QED
      BY <1>1, <1>8, <1>9, <1>10, <3>1, <3>2 DEF Ledger, Retained
  <2> QED
    BY <2>1, <2>2 DEF Retained
<1>14. \A k \in OnWay(n) : Placed(n, k)
  <2> SUFFICES ASSUME NEW k \in OnWay(t) PROVE Placed(n, k)
    BY <1>11
  <2>1. Placed(t, k) /\ IdOf(t, k) \in Ids /\ IdOf(t, k) # i
    BY OnWayFacts
  <2>2. n.at[IdOf(t, k)] = t.at[IdOf(t, k)]
    BY <1>7, <2>1
  <2> QED
    BY <1>8, <1>9, <1>10, <2>1, <2>2 DEF Placed
<1> QED
  BY <1>2, <1>5, <1>6, <1>7, <1>11, <1>12, <1>13, <1>14 DEF Books, Ledger

\* Other ids are suppressed and watched.
Muted(t, S, R) == [t EXCEPT !.suppressed = S, !.watched = R]

\* Suppressing and watching other ids leaves the books as they are.
LEMMA MutedBooks ==
  ASSUME NEW t, Books(t), NEW S \in SUBSET Ids, NEW R \in SUBSET Ids,
         NEW n, n = Muted(t, S, R)
  PROVE  /\ Books(n) /\ Alike(n, t) /\ OnWay(n) = OnWay(t)
         /\ n.suppressed = S /\ n.watched = R /\ n.loop = t.loop
<1>1. t \in Managers /\ Ledger(t) /\ Neat(t)
  BY OnWayFacts
<1>2. n \in Managers
  BY <1>1 DEF Managers, Muted
<1>3. /\ n.at = t.at /\ n.timers = t.timers /\ n.suppressed = S /\ n.watched = R /\ n.loop = t.loop
      /\ n.job = t.job /\ n.last = t.last /\ n.deliveries = t.deliveries /\ n.flight = t.flight
  BY <1>1 DEF Managers, Muted
<1>4. Alike(n, t)
  BY <1>2, <1>3 DEF Alike
<1>5. Neat(n) /\ OnWay(n) = OnWay(t)
  BY <1>1, <1>3, NeatAgain DEF OnWay, Queued, IdOf
<1> QED
  BY <1>1, <1>3, <1>4, <1>5, AlikeBooks DEF Books

\* acknowledgeDeliveries() drops results of the acknowledged ids, or suppressed ones.
LEMMA AcknowledgeBooks ==
  ASSUME NEW t, Books(t), NEW S \in SUBSET Ids, NEW n, n = Acknowledge(t, S)
  PROVE  /\ Books(n) /\ Alike(n, t) /\ OnWay(n) \subseteq OnWay(t)
         /\ n.suppressed = t.suppressed \cup S /\ n.watched = t.watched
         /\ \A k \in OnWay(t) : k \in OnWay(n) \/ IdOf(t, k) \in S \/ IsSuppressed(t, IdOf(t, k))
<1>1. t \in Managers /\ Ledger(t) /\ Neat(t)
  BY OnWayFacts
<1>2. PICK u : u = [t EXCEPT !.suppressed = @ \cup S]
  OBVIOUS
<1>3. u = [t EXCEPT !.suppressed = t.suppressed \cup S, !.watched = t.watched]
      /\ t.suppressed \cup S \in SUBSET Ids /\ t.watched \in SUBSET Ids
  <2>1. t.suppressed \in SUBSET Ids /\ t.watched \in SUBSET Ids
    BY <1>1, ManagerFields
  <2>2. t.suppressed \cup S \in SUBSET Ids
    BY <2>1
  <2>3. u = [t EXCEPT !.suppressed = t.suppressed \cup S, !.watched = t.watched]
    BY <1>1, <1>2 DEF Managers
  <2> QED
    BY <2>1, <2>2, <2>3
<1>4. /\ Books(u) /\ Alike(u, t) /\ OnWay(u) = OnWay(t)
      /\ u.suppressed = t.suppressed \cup S /\ u.watched = t.watched
  <2>1. PICK Q, R : Q = t.suppressed \cup S /\ R = t.watched
    OBVIOUS
  <2>2. Q \in SUBSET Ids /\ R \in SUBSET Ids /\ u = Muted(t, Q, R)
    BY <1>3, <2>1 DEF Muted
  <2>3. /\ Books(u) /\ Alike(u, t) /\ OnWay(u) = OnWay(t)
        /\ u.suppressed = Q /\ u.watched = R
    BY <2>2, MutedBooks
  <2> QED
    BY <2>1, <2>3
<1>5. Carries(n, u, OnWay(u))
  BY <1>1, <1>2, <1>4, AcknowledgeCarries
<1>6. Ledger(u) /\ \A k \in OnWay(u) : Placed(u, k)
  BY <1>4, OnWayFacts
<1>7. Books(n) /\ Alike(n, u)
  BY <1>5, <1>6, CarriedBooks
<1>8. Alike(n, t)
  BY <1>4, <1>7 DEF Alike
<1>9. n.suppressed = u.suppressed /\ n.watched = u.watched
  BY <1>5 DEF Carries, Same
<1>10. ASSUME NEW k \in OnWay(t)
       PROVE  k \in OnWay(n) \/ IdOf(t, k) \in S \/ IsSuppressed(t, IdOf(t, k))
  <2>1. k \in OnWay(n) \/ IsSuppressed(u, IdOf(u, k))
    BY <1>4, <1>5 DEF Carries
  <2>2. IdOf(u, k) = IdOf(t, k)
    BY <1>4 DEF Alike, IdOf
  <2> QED
    BY <1>4, <2>1, <2>2 DEF IsSuppressed
<1> QED
  BY <1>4, <1>5, <1>7, <1>8, <1>9, <1>10 DEF Carries

\* resumeDeliveries() queues the result of the job the id stands for, if it has one
\* that is not on its way.
LEMMA ResumeBooks ==
  ASSUME NEW t, Books(t), NEW i \in t.suppressed, NEW w, w = t.at[i], w # None,
         NEW n, n = ResumeDeliveries(t, i)
  PROVE  /\ Books(n) /\ Alike(n, t) /\ n.suppressed = t.suppressed \ {i} /\ n.watched = t.watched
         /\ OnWay(n) \subseteq OnWay(t) \cup ({w} \cap Finished(t))
         /\ \A k \in OnWay(t) : k \in OnWay(n) \/ IsSuppressed(t, IdOf(t, k))
         /\ w \in Finished(t) => \/ w \in OnWay(n) \/ i \in t.watched
                                 \/ \E k \in OnWay(t) : IdOf(t, k) = i
<1>1. t \in Managers /\ Ledger(t) /\ Neat(t)
  BY OnWayFacts
<1>2. t.suppressed \in SUBSET Ids /\ t.watched \in SUBSET Ids /\ i \in Ids
  BY <1>1, ManagerFields
<1>3. PICK u : u = [t EXCEPT !.suppressed = @ \ {i}]
  OBVIOUS
<1>4. u = [t EXCEPT !.suppressed = t.suppressed \ {i}, !.watched = t.watched]
      /\ t.suppressed \ {i} \in SUBSET Ids
  BY <1>1, <1>2, <1>3 DEF Managers
<1>5. /\ Books(u) /\ Alike(u, t) /\ OnWay(u) = OnWay(t)
      /\ u.suppressed = t.suppressed \ {i} /\ u.watched = t.watched
  <2>1. PICK Q, R : Q = t.suppressed \ {i} /\ R = t.watched
    OBVIOUS
  <2>2. Q \in SUBSET Ids /\ R \in SUBSET Ids /\ u = Muted(t, Q, R)
    BY <1>2, <1>4, <2>1 DEF Muted
  <2>3. /\ Books(u) /\ Alike(u, t) /\ OnWay(u) = OnWay(t)
        /\ u.suppressed = Q /\ u.watched = R
    BY <2>2, MutedBooks
  <2> QED
    BY <2>1, <2>3
<1>6. Ledger(u) /\ u \in Managers /\ Neat(u) /\ \A k \in OnWay(u) : Placed(u, k)
  BY <1>5, OnWayFacts
<1>7. \A k : IdOf(u, k) = IdOf(t, k) /\ StatusOf(u, k) = StatusOf(t, k)
  BY <1>5 DEF Alike, IdOf, StatusOf
<1>8. \A k : IsSuppressed(u, IdOf(u, k)) => IsSuppressed(t, IdOf(t, k))
  BY <1>5, <1>7 DEF IsSuppressed
<1>9. w \in Jobs /\ IdOf(t, w) = i
  BY <1>1, <1>2, LedgerFacts
<1>10. w \in Finished(t) <=> t.job[w].status = "finished"
  BY <1>9 DEF Finished
<1>11. CASE w \in Finished(t) /\ ~OnItsWay(t, i)
  <2>1. n = EnqueueDelivery(u, w)
    BY <1>3, <1>10, <1>11 DEF ResumeDeliveries
  <2>2. w \notin OnWay(u)
    BY <1>5, <1>9, <1>11, OnWayFacts
  <2>3. IdOf(u, w) = i
    BY <1>7, <1>9
  <2>4. PICK W : W = IF IsSuppressed(u, IdOf(u, w)) THEN OnWay(u) ELSE OnWay(u) \cup {w}
    OBVIOUS
  <2>5. Carries(n, u, W)
    BY <1>2, <1>6, <1>9, <2>1, <2>2, <2>3, <2>4, EnqueueCarries
  <2>6. Placed(u, w)
    <3>1. StatusOf(u, w) = "finished"
      BY <1>7, <1>10, <1>11 DEF StatusOf
    <3>2. u.at = t.at
      BY <1>5 DEF Alike
    <3> QED
      BY <2>3, <3>1, <3>2 DEF Placed
  <2>7. \A k \in W : Placed(u, k)
    BY <1>6, <2>4, <2>6
  <2>8. Books(n) /\ Alike(n, u)
    BY <1>6, <2>5, <2>7, CarriedBooks
  <2>9. Alike(n, t)
    BY <1>5, <2>8 DEF Alike
  <2>10. n.suppressed = u.suppressed /\ n.watched = u.watched
    BY <2>5 DEF Carries, Same
  <2>11. OnWay(n) \subseteq W /\ \A k \in W : k \in OnWay(n) \/ IsSuppressed(u, IdOf(u, k))
    BY <2>5 DEF Carries
  <2>12. \A k \in OnWay(t) : k \in OnWay(n) \/ IsSuppressed(t, IdOf(t, k))
    BY <1>5, <1>8, <2>4, <2>11
  <2>13. w \in OnWay(n) \/ i \in t.watched
    <3>1. IsSuppressed(u, i) => i \in t.watched
      BY <1>5 DEF IsSuppressed
    <3>2. w \in OnWay(n) \/ IsSuppressed(u, i)
      BY <2>3, <2>4, <2>11
    <3> QED
      BY <3>1, <3>2
  <2>14. OnWay(n) \subseteq OnWay(t) \cup ({w} \cap Finished(t))
    BY <1>5, <1>11, <2>4, <2>11
  <2> QED
    BY <1>5, <2>8, <2>9, <2>10, <2>12, <2>13, <2>14
<1>12. CASE ~(w \in Finished(t) /\ ~OnItsWay(t, i))
  <2>1. n = u
    BY <1>3, <1>10, <1>12 DEF ResumeDeliveries
  <2>2. w \in Finished(t) => \E k \in OnWay(t) : IdOf(t, k) = i
    BY <1>12, OnWayFacts
  <2> QED
    BY <1>5, <2>1, <2>2
<1> QED
  BY <1>11, <1>12

\* What the invariant says of the values of the variables.
LEMMA StateFacts ==
  ASSUME IInv
  PROVE  /\ Books(m) /\ Ledger(m) /\ m \in Managers /\ Neat(m)
         /\ m.suppressed \in SUBSET Ids /\ m.watched \in SUBSET Ids
         /\ staged \in SUBSET Jobs /\ waiting \in Jobs \cup {None}
         /\ poll \in [Polls -> PollStates] /\ shown \in [Jobs -> Sightings]
         /\ \A k \in OnWay(m) : /\ k \in Jobs /\ IdOf(m, k) \in Ids
                                /\ StatusOf(m, k) = "finished" /\ k \in Finished(m)
         /\ waiting # None => /\ waiting \in Jobs /\ IdOf(m, waiting) \in Ids
                              /\ StatusOf(m, waiting) # "none"
                              /\ m.at[IdOf(m, waiting)] = waiting
<1>1. Books(m) /\ Typed
  BY DEF IInv
<1>2. Ledger(m) /\ m \in Managers /\ Neat(m)
      /\ \A k \in OnWay(m) : /\ k \in Jobs /\ IdOf(m, k) \in Ids
                             /\ StatusOf(m, k) = "finished" /\ k \in Finished(m)
  BY <1>1, OnWayFacts
<1>3. m.suppressed \in SUBSET Ids /\ m.watched \in SUBSET Ids
  BY <1>2, ManagerFields
<1>4. waiting # None => /\ waiting \in Jobs /\ IdOf(m, waiting) \in Ids
                        /\ m.at[IdOf(m, waiting)] = waiting
  BY <1>1, <1>3 DEF Typed, IInv, HeldBack, Listed, IdOf
<1>5. waiting # None => StatusOf(m, waiting) # "none"
  BY <1>2, <1>4, LedgerFacts, Numbers
<1> QED
  BY <1>1, <1>2, <1>3, <1>4, <1>5 DEF Typed

\* A result is unseen when no tool has shown it and no message has told it.
LEMMA SightingFacts ==
  ASSUME NEW f \in [Jobs -> Sightings], NEW j \in Jobs
  PROVE  /\ f[j].tool \in BOOLEAN /\ f[j].messages \in Nat
         /\ f[j] = Unseen <=> ~f[j].tool /\ f[j].messages = 0
<1>1. f[j] \in Sightings
  OBVIOUS
<1> QED
  BY <1>1 DEF Sightings, Unseen

\* The id of the last job that got it stands for it, or for none.
LEMMA LastOfItsId ==
  ASSUME NEW n, Ledger(n), NEW j \in Jobs, IdOf(n, j) \in Ids, ~Later(n, j)
  PROVE  n.at[IdOf(n, j)] = None \/ n.at[IdOf(n, j)] = j
<1> SUFFICES ASSUME n.at[IdOf(n, j)] # None PROVE n.at[IdOf(n, j)] = j
  OBVIOUS
<1>1. PICK l : l = n.at[IdOf(n, j)]
  OBVIOUS
<1>2. l \in Jobs /\ IdOf(n, l) = IdOf(n, j) /\ j <= l
  BY <1>1, LedgerFacts
<1>3. ~(l > j)
  BY <1>2 DEF Later
<1> QED
  BY <1>1, <1>2, <1>3, Numbers

\* The result of an orderly job is suppressed for the sake of that job.
LEMMA SuppressedForItself ==
  ASSUME IInv, NEW j \in Jobs, Orderly(m, j), ~Cancelled(m, j), StatusOf(m, j) # "none",
         IsSuppressed(m, IdOf(m, j))
  PROVE  waiting = j \/ shown[j].tool \/ Tracked(j)
<1>1. CASE IdOf(m, j) \in m.suppressed
  BY <1>1 DEF IInv, Justified
<1>2. CASE IdOf(m, j) \in m.watched
  <2>1. /\ m.at[IdOf(m, j)] # None
        /\ \E p \in Polls : /\ IdOf(m, j) \in poll[p].watches
                            /\ m.at[IdOf(m, j)] \in poll[p].tracked
    BY <1>2 DEF IInv, Watching
  <2>2. IdOf(m, j) \in Ids
    BY StateFacts, LedgerFacts
  <2>3. m.at[IdOf(m, j)] = j
    BY <2>1, <2>2, StateFacts, LastOfItsId DEF Orderly
  <2> QED
    BY <2>1, <2>3 DEF Tracked
<1> QED
  BY <1>1, <1>2 DEF IsSuppressed

-----------------------------------------------------------------------------
\* Results move between the queue, the loop and the YieldQueue; those that are
\* suppressed may be dropped.
LEMMA ResultsMove ==
  ASSUME IInv, Books(m'), Alike(m', m),
         m'.suppressed = m.suppressed, m'.watched = m.watched,
         OnWay(m') \cup staged' \subseteq OnWay(m) \cup staged, OnWay(m') \cap staged' = {},
         \A k \in OnWay(m) \cup staged :
           k \in OnWay(m') \cup staged' \/ IsSuppressed(m, IdOf(m, k)),
         UNCHANGED <<poll, waiting, timedOut, shown>>
  PROVE  IInv'
<1>1. Ledger(m) /\ staged \in SUBSET Jobs
      /\ \A k \in OnWay(m) : k \in Jobs /\ k \in Finished(m)
  BY StateFacts
<1>2. /\ \A k : /\ IdOf(m', k) = IdOf(m, k) /\ StatusOf(m', k) = StatusOf(m, k)
                /\ Cancelled(m', k) <=> Cancelled(m, k)
                /\ Listed(m', k) <=> Listed(m, k)
                /\ Later(m', k) <=> Later(m, k)
                /\ Orderly(m', k) <=> Orderly(m, k)
      /\ Finished(m') = Finished(m)
  BY <1>1, AlikeBooks
<1>3. m'.at = m.at
  BY DEF Alike
<1>4. Typed'
  <2>1. staged' \in SUBSET Jobs
    BY <1>1
  <2> QED
    BY <2>1 DEF IInv, Typed
<1>5. InOnePlace'
  <2>1. staged' \subseteq Finished(m')
    BY <1>1, <1>2 DEF IInv, InOnePlace
  <2>2. \A j \in OnWay(m') \cup staged' : shown'[j].messages = 0
    BY DEF IInv, InOnePlace
  <2>3. \A j \in Jobs : /\ shown'[j].messages > 0 => j \in Finished(m')
                        /\ shown'[j].tool => StatusOf(m', j) \notin {"none", "running"}
    BY <1>2 DEF IInv, InOnePlace
  <2> QED
    BY <2>1, <2>2, <2>3 DEF InOnePlace
<1>6. HeldBack'
  BY <1>2 DEF IInv, HeldBack
<1>7. Unshown'
  BY <1>2 DEF IInv, Unshown
<1>8. Silenced'
  BY <1>2 DEF IInv, Silenced
<1>9. Watching'
  BY <1>2, <1>3 DEF IInv, Watching
<1>10. Justified'
  BY <1>2 DEF IInv, Justified
<1>11. Accounted'
  <2> SUFFICES ASSUME NEW j \in Finished(m'), Orderly(m', j), shown'[j] = Unseen
               PROVE  j \in OnWay(m') \cup staged' \cup {waiting'} \/ Tracked(j)'
    BY DEF Accounted
  <2>1. j \in Finished(m) /\ Orderly(m, j) /\ shown[j] = Unseen /\ j \in Jobs
        /\ StatusOf(m, j) = "finished"
    BY <1>2 DEF Finished, StatusOf
  <2>2. j \in OnWay(m) \cup staged \cup {waiting} \/ Tracked(j)
    BY <2>1 DEF IInv, Accounted
  <2>3. Tracked(j) => Tracked(j)'
    BY DEF Tracked
  <2>4. ASSUME IsSuppressed(m, IdOf(m, j)) PROVE waiting = j \/ Tracked(j)
    <3>1. ~Cancelled(m, j)
      BY <2>1 DEF Cancelled
    <3>2. waiting = j \/ shown[j].tool \/ Tracked(j)
      BY <2>1, <2>4, <3>1, SuppressedForItself
    <3> QED
      BY <2>1, <3>2 DEF Unseen
  <2> QED
    BY <2>2, <2>3, <2>4
<1> QED
  BY <1>4, <1>5, <1>6, <1>7, <1>8, <1>9, <1>10, <1>11 DEF IInv

\* The loop of the manager ends, or wakes up, and starts over.
LEMMA LoopGoesOnStep ==
  ASSUME IInv, LoopGoesOn
  PROVE  IInv'
<1>1. Books(m) /\ Ledger(m) /\ m \in Managers /\ Neat(m)
  BY StateFacts
<1>2. Carries(m', m, OnWay(m))
  BY <1>1, LoopGoesOnCarries DEF LoopGoesOn
<1>3. Books(m') /\ Alike(m', m)
  BY <1>1, <1>2, CarriedBooks DEF Books
<1>4. /\ m'.suppressed = m.suppressed /\ m'.watched = m.watched /\ OnWay(m') \subseteq OnWay(m)
      /\ \A k \in OnWay(m) : k \in OnWay(m') \/ IsSuppressed(m, IdOf(m, k))
  BY <1>2 DEF Carries, Same
<1>5. staged' = staged /\ UNCHANGED <<poll, waiting, timedOut, shown>>
  BY DEF LoopGoesOn, session, tools
<1>6. OnWay(m') \cap staged' = {}
  BY <1>4, <1>5 DEF IInv, InOnePlace
<1> QED
  BY <1>3, <1>4, <1>5, <1>6, ResultsMove

\* A drain takes a result from the queue into flight, past the loop.
LEMMA DrainStep ==
  ASSUME IInv, NEW l \in Jobs, Drain(l)
  PROVE  IInv'
<1>1. Books(m) /\ Ledger(m) /\ m \in Managers /\ Neat(m)
  BY StateFacts
<1>2. Carries(m', m, OnWay(m))
  <2>1. l \in 1..Len(m.deliveries)
    BY <1>1, ManagerFields DEF Drain
  <2> QED
    BY <1>1, <2>1, TakeOutCarries DEF Drain
<1>3. Books(m') /\ Alike(m', m)
  BY <1>1, <1>2, CarriedBooks DEF Books
<1>4. /\ m'.suppressed = m.suppressed /\ m'.watched = m.watched /\ OnWay(m') \subseteq OnWay(m)
      /\ \A k \in OnWay(m) : k \in OnWay(m') \/ IsSuppressed(m, IdOf(m, k))
  BY <1>2 DEF Carries, Same
<1>5. staged' = staged /\ UNCHANGED <<poll, waiting, timedOut, shown>>
  BY DEF Drain, session, tools
<1>6. OnWay(m') \cap staged' = {}
  BY <1>4, <1>5 DEF IInv, InOnePlace
<1> QED
  BY <1>3, <1>4, <1>5, <1>6, ResultsMove

\* A delivery that threw puts its result back into the queue.
LEMMA DeliveryThrowsStep ==
  ASSUME IInv, NEW j \in Jobs, DeliveryThrows(j)
  PROVE  IInv'
<1>1. Books(m) /\ Ledger(m) /\ m \in Managers /\ Neat(m)
  BY StateFacts
<1>2. Carries(m', m, OnWay(m))
  <2>1. j \in m.flight /\ m' = Rejected(m, j)
    BY DEF DeliveryThrows
  <2>2. IdOf(m, j) \in Ids
    BY <2>1, StateFacts DEF OnWay
  <2> QED
    BY <1>1, <2>1, <2>2, RejectedCarries
<1>3. Books(m') /\ Alike(m', m)
  BY <1>1, <1>2, CarriedBooks DEF Books
<1>4. /\ m'.suppressed = m.suppressed /\ m'.watched = m.watched /\ OnWay(m') \subseteq OnWay(m)
      /\ \A k \in OnWay(m) : k \in OnWay(m') \/ IsSuppressed(m, IdOf(m, k))
  BY <1>2 DEF Carries, Same
<1>5. staged' = staged /\ UNCHANGED <<poll, waiting, timedOut, shown>>
  BY DEF DeliveryThrows, session, tools
<1>6. OnWay(m') \cap staged' = {}
  BY <1>4, <1>5 DEF IInv, InOnePlace
<1> QED
  BY <1>3, <1>4, <1>5, <1>6, ResultsMove

\* The result goes from flight to the YieldQueue, unless it was shown meanwhile.
LEMMA DeliveredStep ==
  ASSUME IInv, NEW j \in Jobs, Delivered(j)
  PROVE  IInv'
<1>1. Books(m) /\ Ledger(m) /\ m \in Managers /\ Neat(m) /\ j \in m.flight
  BY StateFacts DEF Delivered
<1>2. Carries(m', m, OnWay(m) \ {j}) /\ j \in OnWay(m)
  BY <1>1, LandCarries DEF Delivered, OnWay
<1>3. Books(m') /\ Alike(m', m)
  BY <1>1, <1>2, CarriedBooks DEF Books
<1>4. /\ m'.suppressed = m.suppressed /\ m'.watched = m.watched
      /\ OnWay(m') \subseteq OnWay(m) \ {j}
      /\ \A k \in OnWay(m) \ {j} : k \in OnWay(m') \/ IsSuppressed(m, IdOf(m, k))
  BY <1>2 DEF Carries, Same
<1>5. UNCHANGED <<poll, waiting, timedOut, shown>>
  BY DEF Delivered, tools
<1>6. IF IsSuppressed(m, IdOf(m, j)) THEN staged' = staged ELSE staged' = staged \cup {j}
  BY DEF Delivered, Stage, IdOf
<1>7. OnWay(m') \cap staged' = {} /\ OnWay(m') \cup staged' \subseteq OnWay(m) \cup staged
  BY <1>2, <1>4, <1>6 DEF IInv, InOnePlace
<1>8. \A k \in OnWay(m) \cup staged :
        k \in OnWay(m') \cup staged' \/ IsSuppressed(m, IdOf(m, k))
  BY <1>4, <1>6
<1> QED
  BY <1>3, <1>4, <1>5, <1>7, <1>8, ResultsMove

\* A new job takes its id over from jobs that are over; none of them is orderly any more.
LEMMA StartStep ==
  ASSUME IInv, Start
  PROVE  IInv'
<1>1. Books(m) /\ Ledger(m) /\ staged \in SUBSET Jobs
      /\ \A k \in OnWay(m) : k \in Jobs /\ k \in Finished(m)
  BY StateFacts
<1>2. PICK j, id : Registers(m', m, j, id)
  BY <1>1, RegisterFacts DEF Start
<1>3. /\ Books(m') /\ OnWay(m') = OnWay(m) /\ Finished(m') = Finished(m)
      /\ StatusOf(m, j) = "none" /\ Listed(m', j) /\ IdOf(m', j) = id
      /\ \A k \in Jobs : k # j =>
           /\ IdOf(m', k) = IdOf(m, k) /\ StatusOf(m', k) = StatusOf(m, k)
           /\ Cancelled(m', k) <=> Cancelled(m, k)
           /\ Orderly(m', k) => Orderly(m, k) /\ IdOf(m, k) # id
           /\ Later(m', k) => Later(m, k) \/ IdOf(m, k) = id
      /\ \A k \in Jobs : StatusOf(m, k) # "none" =>
           /\ k # j
           /\ Listed(m', k) <=> Listed(m, k)
           /\ Listed(m', k) => IdOf(m, k) # id
  BY <1>1, <1>2, RegisterBooks
<1>4. /\ j \in Jobs /\ id \in Ids /\ m.at[id] = None /\ m'.at[id] = j /\ j # None
      /\ \A i \in Ids : i # id => m'.at[i] = m.at[i]
      /\ m'.suppressed = m.suppressed \ {id} /\ m'.watched = m.watched
  BY <1>2, Numbers DEF Registers
<1>5. UNCHANGED <<staged, poll, waiting, timedOut, shown>>
  BY DEF Start, session, tools
<1>6. \A k \in Finished(m) : k \in Jobs /\ StatusOf(m, k) = "finished" /\ k # j
  BY <1>3 DEF Finished, StatusOf
<1>7. Typed'
  BY <1>5 DEF IInv, Typed
<1>8. InOnePlace'
  <2>1. \A k \in Jobs : shown'[k].tool => StatusOf(m', k) \notin {"none", "running"}
    BY <1>3, <1>5 DEF IInv, InOnePlace
  <2> QED
    BY <1>3, <1>5, <2>1 DEF IInv, InOnePlace
<1>9. HeldBack'
  <2> SUFFICES ASSUME waiting # None PROVE HeldBack'
    BY <1>5 DEF HeldBack
  <2>1. waiting \in Jobs /\ StatusOf(m, waiting) # "none"
    BY StateFacts
  <2>2. waiting # j /\ Listed(m', waiting) /\ IdOf(m', waiting) = IdOf(m, waiting)
        /\ IdOf(m, waiting) # id
    BY <1>3, <2>1 DEF IInv, HeldBack
  <2> QED
    BY <1>3, <1>4, <1>5, <2>2 DEF IInv, HeldBack
<1>10. Unshown'
  <2> SUFFICES ASSUME timedOut PROVE Unshown'
    BY <1>5 DEF Unshown
  <2>1. waiting # None
    BY DEF IInv, Unshown
  <2>2. waiting \in Jobs /\ waiting # j
    BY <1>3, <2>1, StateFacts
  <2> QED
    BY <1>3, <1>5, <2>2 DEF IInv, Unshown
<1>11. Silenced'
  <2> SUFFICES ASSUME NEW k \in Finished(m'), Listed(m', k), shown'[k].tool
               PROVE  IdOf(m', k) \in m'.suppressed
    BY DEF Silenced
  <2>1. k \in Finished(m) /\ k \in Jobs /\ StatusOf(m, k) # "none" /\ k # j
    BY <1>3, <1>6
  <2>2. Listed(m, k) /\ IdOf(m, k) # id /\ IdOf(m', k) = IdOf(m, k)
    BY <1>3, <2>1
  <2> QED
    BY <1>4, <1>5, <2>1, <2>2 DEF IInv, Silenced
<1>12. Watching'
  <2>1. ASSUME NEW i \in m'.watched
        PROVE  m'.at[i] # None
               /\ \E p \in Polls : i \in poll'[p].watches /\ m'.at[i] \in poll'[p].tracked
    <3>1. i \in Ids /\ i \in m.watched /\ m.at[i] # None
      BY <1>4, StateFacts DEF IInv, Watching
    <3>2. m'.at[i] = m.at[i]
      BY <1>4, <3>1
    <3> QED
      BY <1>5, <3>1, <3>2 DEF IInv, Watching
  <2>2. ASSUME NEW p \in Polls, NEW k \in poll'[p].tracked, k \in Jobs
        PROVE  /\ StatusOf(m', k) # "none"
               /\ ~Listed(m', k) => IdOf(m', k) \notin poll'[p].armed
               /\ Later(m', k) => m'.at[IdOf(m', k)] # None
    <3>1. /\ StatusOf(m, k) # "none"
          /\ ~Listed(m, k) => IdOf(m, k) \notin poll[p].armed
          /\ Later(m, k) => m.at[IdOf(m, k)] # None
      BY <1>5, <2>2 DEF IInv, Watching
    <3>2. k # j /\ StatusOf(m', k) # "none" /\ IdOf(m', k) = IdOf(m, k) /\ IdOf(m, k) \in Ids
      BY <1>1, <1>3, <2>2, <3>1, LedgerFacts
    <3>3. ~Listed(m', k) => IdOf(m', k) \notin poll'[p].armed
      BY <1>3, <1>5, <2>2, <3>1, <3>2
    <3>4. Later(m', k) => m'.at[IdOf(m', k)] # None
      BY <1>3, <1>4, <2>2, <3>1, <3>2
    <3> QED
      BY <3>2, <3>3, <3>4
  <2>3. \A p \in Polls : \A k \in poll'[p].tracked : k \in Jobs
    BY <1>5, StateFacts DEF PollStates
  <2> QED
    BY <2>1, <2>2, <2>3 DEF Watching
<1>13. Justified'
  <2> SUFFICES ASSUME NEW k \in Jobs, Orderly(m', k), IdOf(m', k) \in m'.suppressed
               PROVE  waiting' = k \/ shown'[k].tool \/ Cancelled(m', k)
    BY DEF Justified
  <2>1. k # j
    BY <1>3, <1>4
  <2> QED
    BY <1>3, <1>4, <1>5, <2>1 DEF IInv, Justified
<1>14. Accounted'
  <2> SUFFICES ASSUME NEW k \in Finished(m'), Orderly(m', k), shown'[k] = Unseen
               PROVE  k \in OnWay(m') \cup staged' \cup {waiting'} \/ Tracked(k)'
    BY DEF Accounted
  <2>1. k \in Finished(m) /\ k \in Jobs /\ k # j
    BY <1>3, <1>6
  <2>2. Orderly(m, k)
    BY <1>3, <2>1
  <2>3. k \in OnWay(m) \cup staged \cup {waiting} \/ Tracked(k)
    BY <1>5, <2>1, <2>2 DEF IInv, Accounted
  <2>4. Tracked(k) => Tracked(k)'
    BY <1>5 DEF Tracked
  <2> QED
    BY <1>3, <1>5, <2>3, <2>4
<1> QED
  BY <1>3, <1>7, <1>8, <1>9, <1>10, <1>11, <1>12, <1>13, <1>14 DEF IInv

\* The new job keeps its result to the call that waits for it.
LEMMA WaitInForegroundStep ==
  ASSUME IInv, WaitInForeground
  PROVE  IInv'
<1>1. Books(m) /\ Ledger(m) /\ staged \in SUBSET Jobs
      /\ \A k \in OnWay(m) : k \in Jobs /\ k \in Finished(m)
  BY StateFacts
<1>2. PICK t : t = Register(m)
  OBVIOUS
<1>3. PICK j, id : Registers(t, m, j, id)
  BY <1>1, <1>2, RegisterFacts DEF WaitInForeground
<1>4. /\ Books(t) /\ OnWay(t) = OnWay(m) /\ Finished(t) = Finished(m)
      /\ StatusOf(m, j) = "none" /\ Listed(t, j) /\ IdOf(t, j) = id
      /\ \A k \in Jobs : k # j =>
           /\ IdOf(t, k) = IdOf(m, k) /\ StatusOf(t, k) = StatusOf(m, k)
           /\ Cancelled(t, k) <=> Cancelled(m, k)
           /\ Orderly(t, k) => Orderly(m, k) /\ IdOf(m, k) # id
           /\ Later(t, k) => Later(m, k) \/ IdOf(m, k) = id
      /\ \A k \in Jobs : StatusOf(m, k) # "none" =>
           /\ k # j
           /\ Listed(t, k) <=> Listed(m, k)
           /\ Listed(t, k) => IdOf(m, k) # id
  BY <1>1, <1>3, RegisterBooks
<1>5. /\ j \in Jobs /\ id \in Ids /\ m.at[id] = None /\ t.at[id] = j /\ j # None
      /\ \A i \in Ids : i # id => t.at[i] = m.at[i]
      /\ t.suppressed = m.suppressed \ {id} /\ t.watched = m.watched /\ t.last = j
  BY <1>3, Numbers DEF Registers
<1>6. m' = Acknowledge(t, {id}) /\ waiting' = j /\ waiting = None
      /\ UNCHANGED <<staged, poll, timedOut, shown>>
  BY <1>2, <1>4, <1>5 DEF WaitInForeground, session, IdOf
<1>7. /\ Books(m') /\ Alike(m', t) /\ OnWay(m') \subseteq OnWay(t)
      /\ m'.suppressed = t.suppressed \cup {id} /\ m'.watched = t.watched
      /\ \A k \in OnWay(t) : k \in OnWay(m') \/ IdOf(t, k) \in {id} \/ IsSuppressed(t, IdOf(t, k))
  <2>1. {id} \in SUBSET Ids
    BY <1>5
  <2> QED
    BY <1>4, <1>6, <2>1, AcknowledgeBooks
<1>8. /\ \A k : /\ IdOf(m', k) = IdOf(t, k) /\ StatusOf(m', k) = StatusOf(t, k)
                /\ Cancelled(m', k) <=> Cancelled(t, k)
                /\ Listed(m', k) <=> Listed(t, k)
                /\ Later(m', k) <=> Later(t, k)
                /\ Orderly(m', k) <=> Orderly(t, k)
      /\ Finished(m') = Finished(t)
  <2>1. Ledger(t)
    BY <1>4, OnWayFacts
  <2> QED
    BY <1>7, <2>1, AlikeBooks
<1>9. m'.at = t.at
  BY <1>7 DEF Alike
<1>10. \A k \in Finished(m) : k \in Jobs /\ StatusOf(m, k) = "finished" /\ k # j
  BY <1>4 DEF Finished, StatusOf
<1>11. Typed'
  BY <1>5, <1>6 DEF IInv, Typed
<1>12. InOnePlace'
  <2>1. \A k \in Jobs : shown'[k].tool => StatusOf(m', k) \notin {"none", "running"}
    BY <1>4, <1>6, <1>8 DEF IInv, InOnePlace
  <2>2. \A k \in Jobs : shown'[k].messages > 0 => k \in Finished(m')
    BY <1>4, <1>6, <1>8 DEF IInv, InOnePlace
  <2>3. OnWay(m') \cap staged' = {} /\ staged' \subseteq Finished(m')
        /\ \A k \in OnWay(m') \cup staged' : shown'[k].messages = 0
    BY <1>4, <1>6, <1>7, <1>8 DEF IInv, InOnePlace
  <2> QED
    BY <2>1, <2>2, <2>3 DEF InOnePlace
<1>13. HeldBack'
  <2>1. j \notin OnWay(m') \cup staged'
    BY <1>1, <1>4, <1>6, <1>7, <1>10 DEF IInv, InOnePlace
  <2>2. ~(shown[j].messages > 0)
    BY <1>5, <1>10 DEF IInv, InOnePlace
  <2>3. shown[j].messages \in Nat
    BY <1>5, StateFacts, SightingFacts
  <2>4. shown'[j].messages = 0
    BY <1>6, <2>2, <2>3
  <2> QED
    BY <1>4, <1>6, <1>7, <1>8, <2>1, <2>4 DEF HeldBack
<1>14. Unshown'
  BY <1>6 DEF IInv, Unshown
<1>15. Silenced'
  <2> SUFFICES ASSUME NEW k \in Finished(m'), Listed(m', k), shown'[k].tool
               PROVE  IdOf(m', k) \in m'.suppressed
    BY DEF Silenced
  <2>1. k \in Finished(m) /\ k \in Jobs /\ StatusOf(m, k) # "none" /\ k # j
    BY <1>4, <1>8, <1>10
  <2>2. Listed(m, k) /\ IdOf(m, k) # id /\ IdOf(m', k) = IdOf(m, k)
    BY <1>4, <1>8, <2>1
  <2> QED
    BY <1>5, <1>6, <1>7, <2>1, <2>2 DEF IInv, Silenced
<1>16. Watching'
  <2>1. ASSUME NEW i \in m'.watched
        PROVE  m'.at[i] # None
               /\ \E p \in Polls : i \in poll'[p].watches /\ m'.at[i] \in poll'[p].tracked
    <3>1. i \in Ids /\ i \in m.watched /\ m.at[i] # None
      BY <1>5, <1>7, StateFacts DEF IInv, Watching
    <3>2. m'.at[i] = m.at[i]
      BY <1>5, <1>9, <3>1
    <3> QED
      BY <1>6, <3>1, <3>2 DEF IInv, Watching
  <2>2. ASSUME NEW p \in Polls, NEW k \in poll'[p].tracked, k \in Jobs
        PROVE  /\ StatusOf(m', k) # "none"
               /\ ~Listed(m', k) => IdOf(m', k) \notin poll'[p].armed
               /\ Later(m', k) => m'.at[IdOf(m', k)] # None
    <3>1. /\ StatusOf(m, k) # "none"
          /\ ~Listed(m, k) => IdOf(m, k) \notin poll[p].armed
          /\ Later(m, k) => m.at[IdOf(m, k)] # None
      BY <1>6, <2>2 DEF IInv, Watching
    <3>2. k # j /\ StatusOf(m', k) # "none" /\ IdOf(m', k) = IdOf(m, k) /\ IdOf(m, k) \in Ids
      BY <1>1, <1>4, <1>8, <2>2, <3>1, LedgerFacts
    <3>3. ~Listed(m', k) => IdOf(m', k) \notin poll'[p].armed
      BY <1>4, <1>6, <1>8, <2>2, <3>1, <3>2
    <3>4. Later(m', k) => m'.at[IdOf(m', k)] # None
      BY <1>4, <1>5, <1>8, <1>9, <2>2, <3>1, <3>2
    <3> QED
      BY <3>2, <3>3, <3>4
  <2>3. \A p \in Polls : \A k \in poll'[p].tracked : k \in Jobs
    BY <1>6, StateFacts DEF PollStates
  <2> QED
    BY <2>1, <2>2, <2>3 DEF Watching
<1>17. Justified'
  <2> SUFFICES ASSUME NEW k \in Jobs, Orderly(m', k), IdOf(m', k) \in m'.suppressed, k # j
               PROVE  shown'[k].tool \/ Cancelled(m', k)
    BY <1>6 DEF Justified
  <2>1. Orderly(m, k) /\ IdOf(m, k) # id /\ IdOf(m', k) = IdOf(m, k)
    BY <1>4, <1>8
  <2>2. IdOf(m, k) \in m.suppressed
    BY <1>5, <1>7, <2>1
  <2>3. waiting # k
    BY <1>6, Numbers
  <2>4. shown[k].tool \/ Cancelled(m, k)
    BY <2>1, <2>2, <2>3 DEF IInv, Justified
  <2> QED
    BY <1>4, <1>6, <1>8, <2>4
<1>18. Accounted'
  <2> SUFFICES ASSUME NEW k \in Finished(m'), Orderly(m', k), shown'[k] = Unseen
               PROVE  k \in OnWay(m') \cup staged' \cup {waiting'} \/ Tracked(k)'
    BY DEF Accounted
  <2>1. k \in Finished(m) /\ k \in Jobs /\ k # j /\ StatusOf(m, k) = "finished" /\ k # None
    BY <1>4, <1>8, <1>10, Numbers
  <2>2. Orderly(m, k) /\ IdOf(m, k) # id /\ IdOf(t, k) = IdOf(m, k)
    BY <1>4, <1>8, <2>1
  <2>3. k \in OnWay(m) \cup staged \/ Tracked(k)
    BY <1>6, <2>1, <2>2 DEF IInv, Accounted
  <2>4. Tracked(k) => Tracked(k)'
    BY <1>6 DEF Tracked
  <2>5. ASSUME IsSuppressed(t, IdOf(t, k)) PROVE Tracked(k)
    <3>1. IsSuppressed(m, IdOf(m, k))
      BY <1>5, <2>2, <2>5 DEF IsSuppressed
    <3>2. ~Cancelled(m, k)
      BY <2>1 DEF Cancelled
    <3>3. waiting = k \/ shown[k].tool \/ Tracked(k)
      BY <2>1, <2>2, <3>1, <3>2, SuppressedForItself
    <3> QED
      BY <1>6, <2>1, <3>3 DEF Unseen
  <2> QED
    BY <1>4, <1>6, <1>7, <2>2, <2>3, <2>4, <2>5
<1> QED
  BY <1>7, <1>11, <1>12, <1>13, <1>14, <1>15, <1>16, <1>17, <1>18 DEF IInv

-----------------------------------------------------------------------------
\* The invariant after a job ended or was cancelled whose result the tools have not shown.
LEMMA EndedStep ==
  ASSUME IInv, NEW j \in Jobs, NEW s, Ending(StatusOf(m, j), s), Books(m'), Ended(m', m, j, s),
         OnWay(m') \subseteq OnWay(m) \cup ({j} \cap Finished(m')),
         IsSuppressed(m, IdOf(m, j)) => OnWay(m') \subseteq OnWay(m),
         \A k \in OnWay(m) \cup ({j} \cap Finished(m')) :
           k \in OnWay(m') \/ IsSuppressed(m, IdOf(m, k)),
         UNCHANGED <<staged, poll, timedOut, shown>>,
         waiting' = waiting \/ (waiting' = None /\ ~timedOut /\ waiting \notin Finished(m)
                                /\ s # "finished" /\ (waiting = j \/ StatusOf(m, waiting) # "running"))
  PROVE  IInv'
<1>1. /\ Books(m) /\ Ledger(m) /\ staged \in SUBSET Jobs
      /\ \A k \in OnWay(m) : k \in Jobs /\ k \in Finished(m) /\ StatusOf(m, k) = "finished"
      /\ waiting # None => waiting \in Jobs /\ StatusOf(m, waiting) # "none"
  BY StateFacts
<1>2. /\ m'.at = m.at /\ m'.suppressed = m.suppressed /\ m'.watched = m.watched
      /\ \A k \in Jobs : /\ IdOf(m', k) = IdOf(m, k)
                         /\ StatusOf(m', k) = IF k = j THEN s ELSE StatusOf(m, k)
                         /\ Listed(m', k) <=> Listed(m, k)
                         /\ Later(m', k) <=> Later(m, k)
                         /\ Cancelled(m, k) => Cancelled(m', k)
                         /\ Orderly(m', k) => Orderly(m, k)
  BY DEF Ended
<1>3. /\ StatusOf(m, j) \notin {"none", "finished"} /\ s \notin {"none", "running"}
      /\ s = "finished" => StatusOf(m, j) = "running"
      /\ s # "finished" => Cancelled(m', j)
  BY <1>2 DEF Ending, Cancelled
<1>4. \A k \in Jobs : /\ k \in Finished(m) <=> StatusOf(m, k) = "finished"
                      /\ k \in Finished(m') <=> StatusOf(m', k) = "finished"
  BY DEF Finished, StatusOf
<1>5. Finished(m) \subseteq Jobs /\ Finished(m') \subseteq Jobs
      /\ Finished(m) \subseteq Finished(m') /\ Finished(m') \subseteq Finished(m) \cup {j}
  <2>1. Finished(m) \subseteq Jobs /\ Finished(m') \subseteq Jobs
    BY DEF Finished
  <2> QED
    BY <1>2, <1>3, <1>4, <2>1
<1>6. j \notin Finished(m) /\ j \notin OnWay(m) /\ j \notin staged /\ ~(shown[j].messages > 0)
  BY <1>1, <1>3, <1>4 DEF IInv, InOnePlace
<1>7. shown[j].messages = 0 /\ (StatusOf(m, j) = "running" => ~shown[j].tool)
  <2>1. shown[j].messages \in Nat
    BY StateFacts, SightingFacts
  <2> QED
    BY <1>6, <2>1 DEF IInv, InOnePlace
<1>8. Typed'
  BY DEF IInv, Typed
<1>9. InOnePlace'
  <2>1. \A k \in Jobs : shown'[k].tool => StatusOf(m', k) \notin {"none", "running"}
    BY <1>2, <1>3 DEF IInv, InOnePlace
  <2>2. \A k \in Jobs : shown'[k].messages > 0 => k \in Finished(m')
    BY <1>5 DEF IInv, InOnePlace
  <2>3. OnWay(m') \cap staged' = {} /\ staged' \subseteq Finished(m')
        /\ \A k \in OnWay(m') \cup staged' : shown'[k].messages = 0
    BY <1>5, <1>6, <1>7 DEF IInv, InOnePlace
  <2> QED
    BY <2>1, <2>2, <2>3 DEF InOnePlace
<1>10. HeldBack'
  <2> SUFFICES ASSUME waiting' # None PROVE HeldBack'
    BY DEF HeldBack
  <2>1. waiting' = waiting /\ waiting # None /\ waiting \in Jobs
    BY <1>1
  <2>2. waiting \notin OnWay(m')
    <3>1. waiting \notin OnWay(m) /\ IdOf(m, waiting) \in m.suppressed
      BY <2>1 DEF IInv, HeldBack
    <3>2. CASE waiting = j
      BY <3>1, <3>2 DEF IsSuppressed
    <3>3. CASE waiting # j
      BY <3>1, <3>3
    <3> QED
      BY <3>2, <3>3
  <2> QED
    BY <1>2, <2>1, <2>2 DEF IInv, HeldBack
<1>11. Unshown'
  BY <1>1, <1>2 DEF IInv, Unshown
<1>12. Silenced'
  <2> SUFFICES ASSUME NEW k \in Finished(m'), Listed(m', k), shown'[k].tool
               PROVE  IdOf(m', k) \in m'.suppressed
    BY DEF Silenced
  <2>1. k \in Jobs
    BY <1>5
  <2>2. CASE k = j
    BY <1>2, <1>3, <1>4, <1>7, <2>1, <2>2
  <2>3. CASE k # j
    BY <1>2, <1>5, <2>1, <2>3 DEF IInv, Silenced
  <2> QED
    BY <2>2, <2>3
<1>13. Watching'
  <2>1. \A p \in Polls : \A k \in poll[p].tracked : k \in Jobs
    BY StateFacts DEF PollStates
  <2>2. \A k \in Jobs : StatusOf(m, k) # "none" => StatusOf(m', k) # "none"
    BY <1>2, <1>3
  <2>3. \A i \in m'.watched :
          /\ m'.at[i] # None
          /\ \E p \in Polls : i \in poll'[p].watches /\ m'.at[i] \in poll'[p].tracked
    BY <1>2 DEF IInv, Watching
  <2>4. ASSUME NEW p \in Polls, NEW k \in poll'[p].tracked
        PROVE  /\ StatusOf(m', k) # "none"
               /\ ~Listed(m', k) => IdOf(m', k) \notin poll'[p].armed
               /\ Later(m', k) => m'.at[IdOf(m', k)] # None
    BY <1>2, <2>1, <2>2 DEF IInv, Watching
  <2> QED
    BY <2>3, <2>4 DEF Watching
<1>14. Justified'
  <2> SUFFICES ASSUME NEW k \in Jobs, Orderly(m', k), IdOf(m', k) \in m'.suppressed
               PROVE  waiting' = k \/ shown'[k].tool \/ Cancelled(m', k)
    BY DEF Justified
  <2>1. waiting = k \/ shown[k].tool \/ Cancelled(m, k)
    BY <1>2 DEF IInv, Justified
  <2>2. CASE waiting = k /\ waiting' # k
    <3>1. waiting \notin Finished(m) /\ (waiting = j \/ StatusOf(m, waiting) # "running")
          /\ waiting' = None /\ waiting # None /\ s # "finished"
      BY <2>2, Numbers
    <3>3. CASE k = j
      BY <1>3, <3>1, <3>3
    <3>4. CASE k # j
      <4>1. StatusOf(m, k) \notin {"none", "running", "finished"} /\ StatusOf(m, k) \in Statuses
        BY <1>1, <1>4, <2>2, <3>1, <3>4, StateFacts, JobFields
      <4>2. Cancelled(m, k)
        BY <4>1 DEF Statuses, Cancelled
      <4> QED
        BY <1>2, <4>2
    <3> QED
      BY <3>3, <3>4
  <2> QED
    BY <1>2, <2>1, <2>2
<1>15. Accounted'
  <2> SUFFICES ASSUME NEW k \in Finished(m'), Orderly(m', k), shown'[k] = Unseen
               PROVE  k \in OnWay(m') \cup staged' \cup {waiting'} \/ Tracked(k)'
    BY DEF Accounted
  <2>1. k \in Jobs /\ Orderly(m, k) /\ shown[k] = Unseen /\ StatusOf(m', k) = "finished"
    BY <1>2, <1>4, <1>5
  <2>2. Tracked(k) => Tracked(k)'
    BY DEF Tracked
  <2>3. waiting = k => waiting' = k
    <3> SUFFICES ASSUME waiting = k, waiting' # k PROVE FALSE
      OBVIOUS
    <3>1. k \notin Finished(m) /\ s # "finished"
      OBVIOUS
    <3> QED
      BY <1>2, <1>4, <2>1, <3>1
  <2>4. ASSUME IsSuppressed(m, IdOf(m, k)) PROVE waiting = k \/ Tracked(k)
    <3>1. StatusOf(m, k) # "none" /\ ~Cancelled(m, k)
      BY <1>2, <1>3, <2>1 DEF Cancelled
    <3>2. waiting = k \/ shown[k].tool \/ Tracked(k)
      BY <2>1, <2>4, <3>1, SuppressedForItself
    <3> QED
      BY <2>1, <3>2 DEF Unseen
  <2>5. CASE k = j
    BY <2>2, <2>3, <2>4, <2>5
  <2>6. CASE k # j
    <3>1. k \in Finished(m)
      BY <1>5, <2>6
    <3>2. k \in OnWay(m) \cup staged \cup {waiting} \/ Tracked(k)
      BY <2>1, <3>1 DEF IInv, Accounted
    <3> QED
      BY <2>2, <2>3, <2>4, <3>2
  <2> QED
    BY <2>5, <2>6
<1> QED
  BY <1>8, <1>9, <1>10, <1>11, <1>12, <1>13, <1>14, <1>15 DEF IInv

\* A job ends: its result is enqueued, or nothing when it was cancelled before.
LEMMA JobSettlesStep ==
  ASSUME IInv, NEW j \in Jobs, JobSettles(j)
  PROVE  IInv'
<1>1. Books(m) /\ Ledger(m) /\ \A k \in OnWay(m) : k \in Jobs
  BY StateFacts
<1>2. StatusOf(m, j) \in {"running", "cancelled"} /\ m' = Settle(m, j)
      /\ UNCHANGED <<staged, poll, timedOut, shown>> /\ waiting' = waiting
  BY DEF JobSettles, session, tools, StatusOf
<1>3. CASE StatusOf(m, j) = "running"
  <2>1. /\ Books(m') /\ Ended(m', m, j, "finished")
        /\ OnWay(m') \subseteq OnWay(m) \cup {j}
        /\ IsSuppressed(m, IdOf(m, j)) => OnWay(m') \subseteq OnWay(m)
        /\ \A k \in OnWay(m) \cup {j} : k \in OnWay(m') \/ IsSuppressed(m, IdOf(m, k))
    BY <1>1, <1>2, <1>3, FinishedBooks
  <2>2. Ending(StatusOf(m, j), "finished")
    BY <1>3 DEF Ending
  <2>3. {j} \cap Finished(m') = {j}
    <3>1. StatusOf(m', j) = "finished"
      BY <2>1 DEF Ended
    <3> QED
      BY <3>1 DEF Finished, StatusOf
  <2> QED
    BY <1>2, <2>1, <2>2, <2>3, EndedStep
<1>4. CASE StatusOf(m, j) = "cancelled"
  <2>1. m' = ScheduleEviction([m EXCEPT !.job[j].status = "cancelled_ended"], m.job[j].id)
    BY <1>2, <1>4 DEF Settle, StatusOf
  <2>2. Ending(StatusOf(m, j), "cancelled_ended")
    BY <1>4 DEF Ending
  <2>3. Books(m') /\ Ended(m', m, j, "cancelled_ended") /\ OnWay(m') = OnWay(m)
    BY <1>1, <2>1, <2>2, CancelledBooks
  <2>4. {j} \cap Finished(m') = {}
    <3>1. StatusOf(m', j) = "cancelled_ended"
      BY <2>3 DEF Ended
    <3> QED
      BY <3>1 DEF Finished, StatusOf
  <2>5. \A k \in OnWay(m) \cup ({j} \cap Finished(m')) :
          k \in OnWay(m') \/ IsSuppressed(m, IdOf(m, k))
    BY <2>3, <2>4
  <2> QED
    BY <1>2, <2>2, <2>3, <2>5, EndedStep
<1> QED
  BY <1>2, <1>3, <1>4

\* What a cancellation is to the invariant.
LEMMA CancelKeeps ==
  ASSUME IInv, NEW j \in Running(m), m' = Cancel(m, j),
         UNCHANGED <<staged, poll, timedOut, shown>>,
         waiting' = waiting \/ (waiting' = None /\ ~timedOut /\ waiting = j)
  PROVE  IInv'
<1>1. Books(m) /\ Ledger(m) /\ \A k \in OnWay(m) : k \in Jobs
  BY StateFacts
<1>2. j \in Jobs /\ StatusOf(m, j) = "running" /\ j \notin Finished(m)
  BY DEF Running, Finished, StatusOf
<1>3. m' = ScheduleEviction([m EXCEPT !.job[j].status = "cancelled"], m.job[j].id)
  BY DEF Cancel
<1>4. Ending(StatusOf(m, j), "cancelled")
  BY <1>2 DEF Ending
<1>5. Books(m') /\ Ended(m', m, j, "cancelled") /\ OnWay(m') = OnWay(m)
  BY <1>1, <1>2, <1>3, <1>4, CancelledBooks
<1>6. {j} \cap Finished(m') = {}
  <2>1. StatusOf(m', j) = "cancelled"
    BY <1>2, <1>5 DEF Ended
  <2> QED
    BY <2>1 DEF Finished, StatusOf
<1>7. \A k \in OnWay(m) \cup ({j} \cap Finished(m')) :
        k \in OnWay(m') \/ IsSuppressed(m, IdOf(m, k))
  BY <1>5, <1>6
<1> QED
  BY <1>2, <1>4, <1>5, <1>7, EndedStep

\* The user or the job tool cancels a job.
LEMMA CancelJobStep ==
  ASSUME IInv, NEW j \in Jobs, CancelJob(j)
  PROVE  IInv'
BY CancelKeeps DEF CancelJob, session, tools

-----------------------------------------------------------------------------
\* The wait of a bash call is aborted, and its job cancelled if it still runs.
LEMMA ForegroundAbortedStep ==
  ASSUME IInv, ForegroundAborted
  PROVE  IInv'
<1>1. waiting # None /\ waiting \notin Finished(m) /\ ~timedOut /\ waiting' = None
      /\ UNCHANGED <<staged, poll, timedOut, shown>>
  BY DEF ForegroundAborted, session
<1>2. CASE waiting \in Running(m)
  <2>1. m' = Cancel(m, waiting)
    BY <1>2 DEF ForegroundAborted
  <2> QED
    BY <1>1, <1>2, <2>1, CancelKeeps
<1>3. CASE waiting \notin Running(m)
  <2>1. m' = m
    BY <1>3 DEF ForegroundAborted
  <2>2. waiting \in Jobs /\ StatusOf(m, waiting) # "none" /\ m \in Managers
    BY <1>1, StateFacts
  <2>3. StatusOf(m, waiting) \notin {"running", "finished"} /\ StatusOf(m, waiting) \in Statuses
    BY <1>1, <1>3, <2>2, JobFields DEF Running, Finished, StatusOf
  <2>4. Cancelled(m, waiting)
    BY <2>2, <2>3 DEF Statuses, Cancelled
  <2>5. Typed' /\ Books(m') /\ InOnePlace' /\ HeldBack' /\ Unshown' /\ Silenced' /\ Watching'
    BY <1>1, <2>1 DEF IInv, Typed, InOnePlace, HeldBack, Unshown, Silenced, Watching
  <2>6. Justified'
    BY <1>1, <2>1, <2>4 DEF IInv, Justified
  <2>7. Accounted'
    <3>1. \A k : Tracked(k) => Tracked(k)'
      BY <1>1 DEF Tracked
    <3> QED
      BY <1>1, <2>1, <3>1 DEF IInv, Accounted
  <2> QED
    BY <2>5, <2>6, <2>7 DEF IInv
<1> QED
  BY <1>2, <1>3

\* The bash call that waited shows the result; its id stays suppressed.
LEMMA ForegroundShowsStep ==
  ASSUME IInv, ForegroundShows
  PROVE  IInv'
<1>1. /\ waiting \in Finished(m) /\ ~timedOut /\ waiting' = None /\ m' = m
      /\ UNCHANGED <<staged, poll, timedOut>>
      /\ shown' = [j \in Jobs |-> IF j \in {waiting} THEN [shown[j] EXCEPT !.tool = TRUE]
                                  ELSE shown[j]]
  BY DEF ForegroundShows, ShownByTool, session
<1>2. waiting \in Jobs /\ StatusOf(m, waiting) = "finished" /\ waiting # None
  BY <1>1, Numbers DEF Finished, StatusOf
<1>3. \A j \in Jobs : /\ shown[j] \in Sightings /\ shown'[j] \in Sightings
                      /\ shown'[j].messages = shown[j].messages
                      /\ shown'[j].tool <=> (shown[j].tool \/ j = waiting)
  <2> SUFFICES ASSUME NEW j \in Jobs
               PROVE  /\ shown[j] \in Sightings /\ shown'[j] \in Sightings
                      /\ shown'[j].messages = shown[j].messages
                      /\ shown'[j].tool <=> (shown[j].tool \/ j = waiting)
    OBVIOUS
  <2>1. shown[j] \in Sightings
    BY StateFacts
  <2>2. shown'[j] = IF j = waiting THEN [shown[j] EXCEPT !.tool = TRUE] ELSE shown[j]
    BY <1>1
  <2> QED
    BY <2>1, <2>2 DEF Sightings
<1>4. shown' \in [Jobs -> Sightings]
  BY <1>1, <1>3
<1>5. Typed' /\ Books(m')
  BY <1>1, <1>4 DEF IInv, Typed
<1>6. InOnePlace'
  <2>1. OnWay(m) \subseteq Jobs /\ staged \subseteq Jobs
    BY StateFacts
  <2> QED
    BY <1>1, <1>2, <1>3, <2>1 DEF IInv, InOnePlace
<1>7. HeldBack' /\ Unshown'
  BY <1>1 DEF IInv, HeldBack, Unshown
<1>8. Silenced'
  <2> SUFFICES ASSUME NEW k \in Finished(m), Listed(m, k), shown'[k].tool
               PROVE  IdOf(m, k) \in m.suppressed
    BY <1>1 DEF Silenced
  <2>1. k \in Jobs
    BY DEF Finished
  <2> QED
    BY <1>2, <1>3, <2>1 DEF IInv, Silenced, HeldBack
<1>9. Watching'
  BY <1>1 DEF IInv, Watching
<1>10. Justified'
  BY <1>1, <1>3 DEF IInv, Justified
<1>11. Accounted'
  <2>1. \A k : Tracked(k) => Tracked(k)'
    BY <1>1 DEF Tracked
  <2>2. ASSUME NEW k \in Finished(m), shown'[k] = Unseen PROVE k # waiting /\ shown[k] = Unseen
    <3>1. k \in Jobs
      BY DEF Finished
    <3>2. ~shown'[k].tool /\ shown'[k].messages = 0
      BY <1>4, <2>2, <3>1, SightingFacts
    <3>3. ~shown[k].tool /\ shown[k].messages = 0 /\ k # waiting
      BY <1>3, <3>1, <3>2
    <3> QED
      BY <3>1, <3>3, StateFacts, SightingFacts
  <2> QED
    BY <1>1, <2>1, <2>2 DEF IInv, Accounted
<1> QED
  BY <1>5, <1>6, <1>7, <1>8, <1>9, <1>10, <1>11 DEF IInv

\* The wait is over; the id stays suppressed until the call goes on.
LEMMA ForegroundTimesOutStep ==
  ASSUME IInv, ForegroundTimesOut
  PROVE  IInv'
<1>1. waiting # None /\ waiting \notin Finished(m) /\ timedOut' = TRUE
      /\ UNCHANGED <<m, staged, poll, waiting, shown>>
  BY DEF ForegroundTimesOut, session
<1>2. waiting \in Jobs /\ StatusOf(m, waiting) \in Statuses /\ StatusOf(m, waiting) # "finished"
  BY <1>1, StateFacts, JobFields DEF Finished, StatusOf
<1>3. shown[waiting].tool => StatusOf(m, waiting) \notin {"none", "running"}
  BY <1>2 DEF IInv, InOnePlace
<1>4. shown[waiting].tool => Cancelled(m, waiting)
  BY <1>2, <1>3 DEF Statuses, Cancelled
<1>5. Unshown'
  BY <1>1, <1>4 DEF Unshown
<1>6. \A k : Tracked(k) => Tracked(k)'
  BY <1>1 DEF Tracked
<1>7. Typed' /\ Books(m') /\ InOnePlace' /\ HeldBack' /\ Silenced' /\ Watching' /\ Justified'
  BY <1>1 DEF IInv, Typed, InOnePlace, HeldBack, Silenced, Watching, Justified
<1>8. Accounted'
  BY <1>1, <1>6 DEF IInv, Accounted
<1> QED
  BY <1>5, <1>7, <1>8 DEF IInv

\* The records stay; what changes is which ids stand for a job, and which are held back.
LEMMA SameRecords ==
  ASSUME NEW n, NEW t, n.job = t.job
  PROVE  /\ \A k : /\ IdOf(n, k) = IdOf(t, k) /\ StatusOf(n, k) = StatusOf(t, k)
                   /\ Cancelled(n, k) <=> Cancelled(t, k)
                   /\ Later(n, k) <=> Later(t, k)
                   /\ Orderly(n, k) <=> Orderly(t, k)
         /\ Finished(n) = Finished(t)
<1>1. \A k : IdOf(n, k) = IdOf(t, k) /\ StatusOf(n, k) = StatusOf(t, k)
  BY DEF IdOf, StatusOf
<1>2. \A k : Cancelled(n, k) <=> Cancelled(t, k)
  BY <1>1 DEF Cancelled
<1>3. \A k : Later(n, k) <=> Later(t, k)
  BY <1>1 DEF Later
<1>4. \A k : Spooked(n, k) <=> Spooked(t, k)
  BY <1>1, <1>2 DEF Spooked
<1>5. \A k : Orderly(n, k) <=> Orderly(t, k)
  BY <1>3, <1>4 DEF Orderly
<1>6. Finished(n) = Finished(t)
  BY DEF Finished
<1> QED
  BY <1>1, <1>2, <1>3, <1>5, <1>6

\* A timer that fires while a poll is open was armed when the poll began, so the poll
\* tracks no job that has got the id since.
LEMMA RetentionEndsStep ==
  ASSUME IInv, NEW id \in Ids, RetentionEnds(id)
  PROVE  IInv'
<1>1. Books(m) /\ Ledger(m) /\ poll \in [Polls -> PollStates]
  BY StateFacts
<1>2. /\ id \in m.timers /\ ~OnItsWay(m, id)
      /\ \A p \in Polls : poll[p].tracked # {} => id \in poll[p].armed
      /\ waiting # None => IdOf(m, waiting) # id
      /\ m' = Evict(m, id)
      /\ poll' = [p \in Polls |-> [poll[p] EXCEPT !.armed = @ \ {id}]]
      /\ UNCHANGED <<staged, waiting, timedOut, shown>>
  BY DEF RetentionEnds, session, IdOf
<1>3. /\ Books(m') /\ OnWay(m') = OnWay(m) /\ id \in Ids
      /\ m'.at[id] = None /\ \A l \in Ids : l # id => m'.at[l] = m.at[l]
      /\ m'.suppressed = m.suppressed \ {id} /\ m'.watched = m.watched \ {id}
      /\ m'.job = m.job
  BY <1>1, <1>2, EvictBooks
<1>4. /\ \A k : /\ IdOf(m', k) = IdOf(m, k) /\ StatusOf(m', k) = StatusOf(m, k)
                /\ Cancelled(m', k) <=> Cancelled(m, k)
                /\ Later(m', k) <=> Later(m, k)
                /\ Orderly(m', k) <=> Orderly(m, k)
      /\ Finished(m') = Finished(m)
  BY <1>3, SameRecords
<1>5. \A k \in Jobs : IdOf(m, k) \in Ids =>
        (Listed(m', k) <=> Listed(m, k) /\ IdOf(m, k) # id)
  <2> SUFFICES ASSUME NEW k \in Jobs, IdOf(m, k) \in Ids
               PROVE  Listed(m', k) <=> Listed(m, k) /\ IdOf(m, k) # id
    OBVIOUS
  <2>1. Listed(m', k) <=> m'.at[IdOf(m, k)] = k
    BY <1>4 DEF Listed, IdOf
  <2>2. Listed(m, k) <=> m.at[IdOf(m, k)] = k
    BY DEF Listed, IdOf
  <2> QED
    BY <1>3, <2>1, <2>2, Numbers
<1>6. \A p \in Polls : /\ poll[p] \in PollStates /\ poll'[p] \in PollStates
                       /\ poll'[p].tracked = poll[p].tracked /\ poll'[p].watches = poll[p].watches
                       /\ poll'[p].armed = poll[p].armed \ {id}
  <2> SUFFICES ASSUME NEW p \in Polls
               PROVE  /\ poll[p] \in PollStates /\ poll'[p] \in PollStates
                      /\ poll'[p].tracked = poll[p].tracked /\ poll'[p].watches = poll[p].watches
                      /\ poll'[p].armed = poll[p].armed \ {id}
    OBVIOUS
  <2>1. poll[p] \in PollStates /\ poll'[p] = [poll[p] EXCEPT !.armed = @ \ {id}]
    BY <1>1, <1>2
  <2> QED
    BY <2>1 DEF PollStates
<1>7. Typed'
  <2>1. poll' \in [Polls -> PollStates]
    BY <1>2, <1>6
  <2> QED
    BY <1>2, <2>1 DEF IInv, Typed
<1>8. InOnePlace'
  BY <1>2, <1>3, <1>4 DEF IInv, InOnePlace
<1>9. HeldBack'
  <2> SUFFICES ASSUME waiting # None PROVE HeldBack'
    BY <1>2 DEF HeldBack
  <2>1. waiting \in Jobs /\ IdOf(m, waiting) \in Ids
    BY StateFacts
  <2> QED
    BY <1>2, <1>3, <1>4, <1>5, <2>1 DEF IInv, HeldBack
<1>10. Unshown'
  BY <1>2, <1>4 DEF IInv, Unshown
<1>11. Silenced'
  <2> SUFFICES ASSUME NEW k \in Finished(m), Listed(m', k), shown[k].tool
               PROVE  IdOf(m', k) \in m'.suppressed
    BY <1>2, <1>4 DEF Silenced
  <2>1. k \in Jobs /\ StatusOf(m, k) = "finished"
    BY DEF Finished, StatusOf
  <2>2. IdOf(m, k) \in Ids
    BY <1>1, <2>1, LedgerFacts
  <2> QED
    BY <1>3, <1>4, <1>5, <2>1, <2>2 DEF IInv, Silenced
<1>12. Watching'
  <2>1. ASSUME NEW i \in m'.watched
        PROVE  m'.at[i] # None
               /\ \E p \in Polls : i \in poll'[p].watches /\ m'.at[i] \in poll'[p].tracked
    <3>1. i \in Ids /\ i \in m.watched /\ i # id
      BY <1>3, StateFacts
    <3>2. m'.at[i] = m.at[i]
      BY <1>3, <3>1
    <3> QED
      BY <1>6, <3>1, <3>2 DEF IInv, Watching
  <2>2. ASSUME NEW p \in Polls, NEW k \in poll'[p].tracked
        PROVE  /\ StatusOf(m', k) # "none"
               /\ ~Listed(m', k) => IdOf(m', k) \notin poll'[p].armed
               /\ Later(m', k) => m'.at[IdOf(m', k)] # None
    <3>1. /\ k \in poll[p].tracked /\ StatusOf(m, k) # "none"
          /\ ~Listed(m, k) => IdOf(m, k) \notin poll[p].armed
          /\ Later(m, k) => m.at[IdOf(m, k)] # None
      BY <1>6 DEF IInv, Watching
    <3>2. k \in Jobs /\ IdOf(m, k) \in Ids
      <4>1. k \in Jobs
        BY <1>6, <3>1 DEF PollStates
      <4> QED
        BY <1>1, <3>1, <4>1, LedgerFacts
    <3>3. ~Listed(m', k) => IdOf(m', k) \notin poll'[p].armed
      BY <1>4, <1>5, <1>6, <3>1, <3>2
    <3>4. Later(m', k) => m'.at[IdOf(m', k)] # None
      <4> SUFFICES ASSUME Later(m, k) PROVE m'.at[IdOf(m, k)] # None
        BY <1>4
      <4>1. CASE IdOf(m, k) # id
        BY <1>3, <3>1, <3>2, <4>1
      <4>2. CASE IdOf(m, k) = id
        <5>1. id \in poll[p].armed
          BY <1>2, <3>1
        <5>2. m.at[id] = k
          BY <3>1, <4>2, <5>1 DEF Listed, IdOf
        <5>3. PICK l \in Jobs : l > k /\ IdOf(m, l) = id
          BY <4>2 DEF Later
        <5>4. l <= k
          BY <1>1, <1>3, <3>2, <5>2, <5>3, LedgerFacts, Numbers
        <5> QED
          BY <3>2, <5>3, <5>4, Numbers
      <4> QED
        BY <4>1, <4>2
    <3> QED
      BY <1>4, <3>1, <3>3, <3>4
  <2> QED
    BY <2>1, <2>2 DEF Watching
<1>13. Justified'
  BY <1>2, <1>3, <1>4 DEF IInv, Justified
<1>14. Accounted'
  <2>1. \A k : Tracked(k) => Tracked(k)'
    BY <1>6 DEF Tracked
  <2> QED
    BY <1>2, <1>3, <1>4, <2>1 DEF IInv, Accounted
<1> QED
  BY <1>3, <1>7, <1>8, <1>9, <1>10, <1>11, <1>12, <1>13, <1>14 DEF IInv

\* The job that was waited for is left to the background: if it finished in the
\* meantime, its result is queued now.
LEMMA GoesToBackgroundStep ==
  ASSUME IInv, GoesToBackground
  PROVE  IInv'
<1>1. /\ timedOut /\ m' = ResumeDeliveries(m, IdOf(m, waiting))
      /\ waiting' = None /\ timedOut' = FALSE /\ UNCHANGED <<staged, poll, shown>>
  BY DEF GoesToBackground, session, IdOf
<1>2. Books(m) /\ Ledger(m) /\ staged \in SUBSET Jobs
      /\ \A k \in OnWay(m) : k \in Jobs /\ k \in Finished(m) /\ StatusOf(m, k) = "finished"
  BY StateFacts
<1>3. PICK w, id : w = waiting /\ id = IdOf(m, w)
  OBVIOUS
<1>4. /\ w # None /\ w \in Jobs /\ id \in Ids /\ m.at[id] = w
      /\ id \in m.suppressed /\ w \notin OnWay(m) \cup staged /\ shown[w].messages = 0
      /\ shown[w].tool => Cancelled(m, w)
  <2>1. waiting # None
    BY <1>1 DEF IInv, Unshown
  <2> QED
    BY <1>1, <1>3, <2>1, StateFacts DEF IInv, Unshown, HeldBack
<1>5. /\ Books(m') /\ Alike(m', m) /\ m'.suppressed = m.suppressed \ {id}
      /\ m'.watched = m.watched
      /\ OnWay(m') \subseteq OnWay(m) \cup ({w} \cap Finished(m))
      /\ \A k \in OnWay(m) : k \in OnWay(m') \/ IsSuppressed(m, IdOf(m, k))
      /\ w \in Finished(m) => \/ w \in OnWay(m') \/ id \in m.watched
                              \/ \E k \in OnWay(m) : IdOf(m, k) = id
  BY <1>1, <1>2, <1>3, <1>4, ResumeBooks
<1>6. /\ \A k : /\ IdOf(m', k) = IdOf(m, k) /\ StatusOf(m', k) = StatusOf(m, k)
                /\ Cancelled(m', k) <=> Cancelled(m, k)
                /\ Listed(m', k) <=> Listed(m, k)
                /\ Later(m', k) <=> Later(m, k)
                /\ Orderly(m', k) <=> Orderly(m, k)
      /\ Finished(m') = Finished(m)
  BY <1>2, <1>5, AlikeBooks
<1>7. m'.at = m.at
  BY <1>5 DEF Alike
<1>8. \A k \in Finished(m) : k \in Jobs /\ StatusOf(m, k) = "finished" /\ ~Cancelled(m, k)
  BY DEF Finished, StatusOf, Cancelled
<1>9. Typed'
  BY <1>1 DEF IInv, Typed
<1>10. InOnePlace'
  <2>1. OnWay(m') \cap staged' = {} /\ staged' \subseteq Finished(m')
        /\ \A k \in OnWay(m') \cup staged' : shown'[k].messages = 0
    BY <1>1, <1>4, <1>5, <1>6 DEF IInv, InOnePlace
  <2>2. \A k \in Jobs : /\ shown'[k].messages > 0 => k \in Finished(m')
                        /\ shown'[k].tool => StatusOf(m', k) \notin {"none", "running"}
    BY <1>1, <1>6 DEF IInv, InOnePlace
  <2> QED
    BY <2>1, <2>2 DEF InOnePlace
<1>11. HeldBack' /\ Unshown'
  BY <1>1 DEF HeldBack, Unshown
<1>12. Silenced'
  <2> SUFFICES ASSUME NEW k \in Finished(m), Listed(m, k), shown[k].tool
               PROVE  IdOf(m, k) \in m.suppressed \ {id}
    BY <1>1, <1>5, <1>6 DEF Silenced
  <2>1. IdOf(m, k) \in m.suppressed
    BY DEF IInv, Silenced
  <2>2. ASSUME IdOf(m, k) = id PROVE FALSE
    <3>1. k = w
      BY <1>4, <2>2 DEF Listed, IdOf
    <3> QED
      BY <1>4, <1>8, <3>1
  <2> QED
    BY <2>1, <2>2
<1>13. Watching'
  BY <1>1, <1>5, <1>6, <1>7 DEF IInv, Watching
<1>14. Justified'
  <2> SUFFICES ASSUME NEW k \in Jobs, Orderly(m, k), IdOf(m, k) \in m.suppressed \ {id}
               PROVE  shown[k].tool \/ Cancelled(m, k)
    BY <1>1, <1>5, <1>6 DEF Justified
  <2>1. waiting # k
    BY <1>3
  <2> QED
    BY <2>1 DEF IInv, Justified
<1>15. Accounted'
  <2> SUFFICES ASSUME NEW k \in Finished(m), Orderly(m, k), shown[k] = Unseen
               PROVE  k \in OnWay(m') \cup staged \/ Tracked(k)
    <3>1. \A k : Tracked(k) => Tracked(k)'
      BY <1>1 DEF Tracked
    <3> QED
      BY <1>1, <1>6, <3>1 DEF Accounted
  <2>1. CASE k = w
    <3>1. CASE id \in m.watched
      BY <1>4, <2>1, <3>1 DEF IInv, Watching, Tracked
    <3>2. ASSUME NEW l \in OnWay(m), IdOf(m, l) = id PROVE FALSE
      <4>1. m.at[id] = l \/ Spooked(m, m.at[id])
        BY <1>2, <1>4, <3>2, OnWayFacts DEF Placed
      <4> QED
        BY <1>4, <2>1, <4>1 DEF Orderly
    <3> QED
      BY <1>5, <2>1, <3>1, <3>2
  <2>2. CASE k # w
    <3>1. k \in OnWay(m) \cup staged \/ Tracked(k)
      BY <1>3, <2>2 DEF IInv, Accounted
    <3>2. ASSUME IsSuppressed(m, IdOf(m, k)) PROVE Tracked(k)
      <4>1. waiting = k \/ shown[k].tool \/ Tracked(k)
        BY <1>8, <3>2, SuppressedForItself
      <4> QED
        BY <1>3, <2>2, <4>1 DEF Unseen
    <3> QED
      BY <1>5, <3>1, <3>2
  <2> QED
    BY <2>1, <2>2
<1> QED
  BY <1>5, <1>9, <1>10, <1>11, <1>12, <1>13, <1>14, <1>15 DEF IInv

\* What the session does besides moves no result.
LEMMA QuietStep ==
  ASSUME IInv, UNCHANGED <<m, staged, poll, waiting, timedOut, shown>>
  PROVE  IInv'
<1>1. \A k : Tracked(k) => Tracked(k)'
  BY DEF Tracked
<1>2. Typed' /\ Books(m') /\ InOnePlace' /\ HeldBack' /\ Unshown' /\ Silenced' /\ Watching'
      /\ Justified'
  BY DEF IInv, Typed, InOnePlace, HeldBack, Unshown, Silenced, Watching, Justified
<1>3. Accounted'
  BY <1>1 DEF IInv, Accounted
<1> QED
  BY <1>2, <1>3 DEF IInv

\* The staged results are injected, or dropped when a tool has shown them or will.
LEMMA InjectStep ==
  ASSUME IInv, Inject(Fresh), UNCHANGED <<m, poll, waiting, timedOut>>
  PROVE  IInv'
<1>1. /\ OnWay(m) \subseteq Jobs /\ staged \in SUBSET Jobs
      /\ waiting # None => waiting \in Jobs
  BY StateFacts
<1>2. staged' = {} /\ shown' = [j \in Jobs |-> IF j \in Fresh
                                               THEN [shown[j] EXCEPT !.messages = @ + 1]
                                               ELSE shown[j]]
  BY DEF Inject
<1>3. Fresh = {j \in staged : ~IsSuppressed(m, IdOf(m, j))}
  BY DEF Fresh, IdOf
<1>4. \A j \in Jobs : /\ shown[j] \in Sightings /\ shown'[j] \in Sightings
                      /\ shown'[j].tool = shown[j].tool
                      /\ j \notin Fresh => shown'[j] = shown[j]
                      /\ j \in Fresh => shown'[j].messages > 0
  <2> SUFFICES ASSUME NEW j \in Jobs
               PROVE  /\ shown[j] \in Sightings /\ shown'[j] \in Sightings
                      /\ shown'[j].tool = shown[j].tool
                      /\ j \notin Fresh => shown'[j] = shown[j]
                      /\ j \in Fresh => shown'[j].messages > 0
    OBVIOUS
  <2>1. shown[j] \in Sightings
    BY StateFacts
  <2>2. shown'[j] = IF j \in Fresh THEN [shown[j] EXCEPT !.messages = @ + 1] ELSE shown[j]
    BY <1>2
  <2> QED
    BY <2>1, <2>2 DEF Sightings
<1>5. shown' \in [Jobs -> Sightings]
  BY <1>2, <1>4
<1>6. Typed' /\ Books(m')
  BY <1>2, <1>5 DEF IInv, Typed
<1>7. InOnePlace'
  <2>1. \A j \in OnWay(m') \cup staged' : shown'[j].messages = 0
    <3>1. \A j \in OnWay(m) : j \notin Fresh
      BY <1>3 DEF IInv, InOnePlace
    <3> QED
      BY <1>1, <1>2, <1>4, <3>1 DEF IInv, InOnePlace
  <2>2. \A j \in Jobs : shown'[j].messages > 0 => j \in Finished(m')
    <3>1. Fresh \subseteq Finished(m)
      BY <1>3 DEF IInv, InOnePlace
    <3> QED
      BY <1>4, <3>1 DEF IInv, InOnePlace
  <2>3. \A j \in Jobs : shown'[j].tool => StatusOf(m', j) \notin {"none", "running"}
    BY <1>4 DEF IInv, InOnePlace
  <2> QED
    BY <1>2, <2>1, <2>2, <2>3 DEF InOnePlace
<1>8. HeldBack'
  <2>1. waiting # None => waiting \notin Fresh
    BY <1>3 DEF IInv, HeldBack
  <2> QED
    BY <1>1, <1>2, <1>4, <2>1 DEF IInv, HeldBack
<1>9. Unshown'
  <2>1. timedOut => waiting \in Jobs
    BY <1>1 DEF IInv, Unshown
  <2> QED
    BY <1>4, <2>1 DEF IInv, Unshown
<1>10. Silenced'
  <2>1. Finished(m) \subseteq Jobs
    BY DEF Finished
  <2> QED
    BY <1>4, <2>1 DEF IInv, Silenced
<1>11. Watching'
  BY DEF IInv, Watching
<1>12. Justified'
  BY <1>4 DEF IInv, Justified
<1>13. Accounted'
  <2> SUFFICES ASSUME NEW k \in Finished(m), Orderly(m, k), shown'[k] = Unseen
               PROVE  k \in OnWay(m) \cup {waiting} \/ Tracked(k)
    <3>1. \A k : Tracked(k) => Tracked(k)'
      BY DEF Tracked
    <3> QED
      BY <1>2, <3>1 DEF Accounted
  <2>1. k \in Jobs /\ StatusOf(m, k) = "finished" /\ ~Cancelled(m, k)
    BY DEF Finished, StatusOf, Cancelled
  <2>2. k \notin Fresh /\ shown[k] = Unseen
    <3>1. ~(shown'[k].messages > 0)
      BY DEF Unseen
    <3> QED
      BY <1>4, <2>1, <3>1
  <2>3. k \in OnWay(m) \cup staged \cup {waiting} \/ Tracked(k)
    BY <2>2 DEF IInv, Accounted
  <2>4. CASE k \in staged
    <3>1. IsSuppressed(m, IdOf(m, k))
      BY <1>3, <2>2, <2>4
    <3>2. waiting = k \/ shown[k].tool \/ Tracked(k)
      BY <2>1, <3>1, SuppressedForItself
    <3> QED
      BY <2>2, <3>2 DEF Unseen
  <2> QED
    BY <2>3, <2>4
<1> QED
  BY <1>6, <1>7, <1>8, <1>9, <1>10, <1>11, <1>12, <1>13 DEF IInv

-----------------------------------------------------------------------------
\* The records a poll shows: what its jobs' ids stand for now, as far as it is over.
ShownOf(S) == {j \in {Latest(i) : i \in S} : Over(j)}

\* A poll can show a job, or the one that has got its id meanwhile.
Showable(S) == \A k \in S : StatusOf(m, k) # "none"
                            /\ (Later(m, k) => m.at[IdOf(m, k)] # None)

\* A poll acknowledges an orderly job only when it shows that job.
LEMMA ShownFacts ==
  ASSUME Ledger(m), NEW S \in SUBSET Jobs, Showable(S)
  PROVE  /\ IdsOf(ShownOf(S)) \in SUBSET Ids
         /\ \A o \in ShownOf(S) : /\ o \in Jobs /\ StatusOf(m, o) \notin {"none", "running"}
                                  /\ IdOf(m, o) \in IdsOf(ShownOf(S))
         /\ \A k \in Jobs : Orderly(m, k) /\ IdOf(m, k) \in IdsOf(ShownOf(S)) => k \in ShownOf(S)
         /\ \A k \in S : Orderly(m, k) /\ k \in Finished(m) => k \in ShownOf(S)
<1>1. IdsOf(ShownOf(S)) = {IdOf(m, j) : j \in ShownOf(S)}
  BY DEF IdsOf, IdOf
<1>2. ASSUME NEW i \in S
      PROVE  /\ i \in Jobs /\ IdOf(m, i) \in Ids
             /\ Latest(i) = IF m.at[IdOf(m, i)] # None THEN m.at[IdOf(m, i)] ELSE i
             /\ Latest(i) \in Jobs /\ IdOf(m, Latest(i)) = IdOf(m, i)
             /\ StatusOf(m, Latest(i)) # "none"
  <2>1. i \in Jobs /\ IdOf(m, i) \in Ids /\ StatusOf(m, i) # "none"
    BY LedgerFacts DEF Showable
  <2>2. Latest(i) = IF m.at[IdOf(m, i)] # None THEN m.at[IdOf(m, i)] ELSE i
    BY DEF Latest, IdOf
  <2> QED
    BY <2>1, <2>2, LedgerFacts
<1>3. \A j \in Jobs : Over(j) <=> StatusOf(m, j) # "running"
  BY DEF Over, Running, StatusOf
<1>4. ASSUME NEW o \in ShownOf(S)
      PROVE  /\ o \in Jobs /\ StatusOf(m, o) \notin {"none", "running"} /\ IdOf(m, o) \in Ids
             /\ \E i \in S : o = Latest(i)
  <2>1. PICK i \in S : o = Latest(i) /\ Over(o)
    BY DEF ShownOf
  <2> QED
    BY <1>2, <1>3, <2>1
<1>5. IdsOf(ShownOf(S)) \in SUBSET Ids
  BY <1>1, <1>4
<1>6. \A o \in ShownOf(S) : /\ o \in Jobs /\ StatusOf(m, o) \notin {"none", "running"}
                            /\ IdOf(m, o) \in IdsOf(ShownOf(S))
  BY <1>1, <1>4
<1>7. ASSUME NEW k \in Jobs, Orderly(m, k), IdOf(m, k) \in IdsOf(ShownOf(S))
      PROVE  k \in ShownOf(S)
  <2>1. PICK o \in ShownOf(S) : IdOf(m, o) = IdOf(m, k)
    BY <1>1, <1>7
  <2>2. PICK i \in S : o = Latest(i)
    BY <1>4
  <2>3. i \in Jobs /\ IdOf(m, i) = IdOf(m, k) /\ IdOf(m, k) \in Ids
        /\ o = IF m.at[IdOf(m, k)] # None THEN m.at[IdOf(m, k)] ELSE i
    BY <1>2, <2>1, <2>2
  <2>4. ~Later(m, k)
    BY <1>7 DEF Orderly
  <2>5. CASE m.at[IdOf(m, k)] # None
    BY <2>1, <2>3, <2>4, <2>5, LastOfItsId
  <2>6. CASE m.at[IdOf(m, k)] = None
    <3>1. o = i /\ ~Later(m, i)
      BY <2>3, <2>6 DEF Showable
    <3>2. ~(k > i) /\ ~(i > k)
      BY <2>3, <2>4, <3>1 DEF Later
    <3>3. k = i
      BY <2>3, <3>2, Numbers
    <3> QED
      BY <2>1, <3>1, <3>3
  <2> QED
    BY <2>5, <2>6
<1>8. ASSUME NEW k \in S, Orderly(m, k), k \in Finished(m) PROVE k \in ShownOf(S)
  <2>1. m.at[IdOf(m, k)] = None \/ m.at[IdOf(m, k)] = k
    BY <1>2, <1>8, LastOfItsId DEF Orderly
  <2>2. Latest(k) = k
    BY <1>2, <2>1
  <2>3. Over(k)
    BY <1>2, <1>3, <1>8 DEF Finished, StatusOf
  <2> QED
    BY <2>2, <2>3 DEF ShownOf
<1> QED
  BY <1>5, <1>6, <1>7, <1>8

\* A poll shows the jobs S that are over and acknowledges them; t is the manager with
\* the ids the poll watched taken off.
LEMMA PollShows ==
  ASSUME IInv, NEW t, Books(t), Alike(t, m), OnWay(t) = OnWay(m),
         t.suppressed = m.suppressed, t.watched \subseteq m.watched,
         NEW S \in SUBSET Jobs, Showable(S), ShowAndAcknowledge(t, S),
         UNCHANGED <<staged, waiting, timedOut>>, ~timedOut,
         poll' \in [Polls -> PollStates],
         \A i \in t.watched : \E p \in Polls : /\ i \in poll'[p].watches
                                               /\ m.at[i] \in poll'[p].tracked,
         \A p \in Polls : \A k \in poll'[p].tracked :
           k \in poll[p].tracked /\ poll'[p].armed = poll[p].armed,
         \A k : Tracked(k) => Tracked(k)' \/ k \in S
  PROVE  IInv'
<1>1. /\ Books(m) /\ Ledger(m) /\ staged \in SUBSET Jobs
      /\ OnWay(m) \subseteq Jobs
      /\ waiting # None => waiting \in Jobs
  BY StateFacts
<1>2. PICK over : over = ShownOf(S)
  OBVIOUS
<1>3. PICK ids : ids = IdsOf(over)
  OBVIOUS
<1>4. /\ ids \in SUBSET Ids
      /\ \A o \in over : /\ o \in Jobs /\ StatusOf(m, o) \notin {"none", "running"}
                         /\ IdOf(m, o) \in ids
      /\ \A k \in Jobs : Orderly(m, k) /\ IdOf(m, k) \in ids => k \in over
      /\ \A k \in S : Orderly(m, k) /\ k \in Finished(m) => k \in over
  BY <1>1, <1>2, <1>3, ShownFacts
<1>5. m' = Acknowledge(t, ids) /\ ShownByTool(over)
  BY <1>2, <1>3 DEF ShowAndAcknowledge, ShownOf
<1>6. /\ Books(m') /\ Alike(m', t) /\ OnWay(m') \subseteq OnWay(t)
      /\ m'.suppressed = t.suppressed \cup ids /\ m'.watched = t.watched
      /\ \A k \in OnWay(t) : k \in OnWay(m') \/ IdOf(t, k) \in ids \/ IsSuppressed(t, IdOf(t, k))
  BY <1>4, <1>5, AcknowledgeBooks
<1>7. Alike(m', m) /\ m'.at = m.at /\ \A k : IdOf(t, k) = IdOf(m, k)
  BY <1>6 DEF Alike, IdOf
<1>8. /\ \A k : /\ IdOf(m', k) = IdOf(m, k) /\ StatusOf(m', k) = StatusOf(m, k)
                /\ Cancelled(m', k) <=> Cancelled(m, k)
                /\ Listed(m', k) <=> Listed(m, k)
                /\ Later(m', k) <=> Later(m, k)
                /\ Orderly(m', k) <=> Orderly(m, k)
      /\ Finished(m') = Finished(m)
  BY <1>1, <1>7, AlikeBooks
<1>9. /\ m'.suppressed = m.suppressed \cup ids /\ OnWay(m') \subseteq OnWay(m)
      /\ \A k \in OnWay(m) : k \in OnWay(m') \/ IdOf(m, k) \in ids \/ IsSuppressed(m, IdOf(m, k))
  BY <1>6, <1>7 DEF IsSuppressed
<1>10. \A j \in Jobs : /\ shown[j] \in Sightings /\ shown'[j] \in Sightings
                       /\ shown'[j].messages = shown[j].messages
                       /\ shown'[j].tool <=> (shown[j].tool \/ j \in over)
  <2> SUFFICES ASSUME NEW j \in Jobs
               PROVE  /\ shown[j] \in Sightings /\ shown'[j] \in Sightings
                      /\ shown'[j].messages = shown[j].messages
                      /\ shown'[j].tool <=> (shown[j].tool \/ j \in over)
    OBVIOUS
  <2>1. shown[j] \in Sightings
    BY StateFacts
  <2>2. shown'[j] = IF j \in over THEN [shown[j] EXCEPT !.tool = TRUE] ELSE shown[j]
    BY <1>5 DEF ShownByTool
  <2> QED
    BY <2>1, <2>2 DEF Sightings
<1>11. shown' \in [Jobs -> Sightings]
  <2>1. shown' = [j \in Jobs |-> IF j \in over THEN [shown[j] EXCEPT !.tool = TRUE] ELSE shown[j]]
    BY <1>5 DEF ShownByTool
  <2> QED
    BY <1>10, <2>1
<1>12. Typed'
  BY <1>11 DEF IInv, Typed
<1>13. InOnePlace'
  <2>1. OnWay(m') \cap staged' = {} /\ staged' \subseteq Finished(m')
    BY <1>8, <1>9 DEF IInv, InOnePlace
  <2>2. \A j \in OnWay(m') \cup staged' : shown'[j].messages = 0
    BY <1>1, <1>9, <1>10 DEF IInv, InOnePlace
  <2>3. \A j \in Jobs : shown'[j].messages > 0 => j \in Finished(m')
    BY <1>8, <1>10 DEF IInv, InOnePlace
  <2>4. \A j \in Jobs : shown'[j].tool => StatusOf(m', j) \notin {"none", "running"}
    BY <1>4, <1>8, <1>10 DEF IInv, InOnePlace
  <2> QED
    BY <2>1, <2>2, <2>3, <2>4 DEF InOnePlace
<1>14. HeldBack' /\ Unshown'
  BY <1>1, <1>8, <1>9, <1>10 DEF IInv, HeldBack, Unshown
<1>15. Silenced'
  <2> SUFFICES ASSUME NEW k \in Finished(m), Listed(m, k), shown'[k].tool
               PROVE  IdOf(m, k) \in m.suppressed \cup ids
    BY <1>8, <1>9 DEF Silenced
  <2>1. k \in Jobs
    BY DEF Finished
  <2> QED
    BY <1>4, <1>10, <2>1 DEF IInv, Silenced
<1>16. Watching'
  <2>1. \A i \in m'.watched :
          /\ m'.at[i] # None
          /\ \E p \in Polls : i \in poll'[p].watches /\ m'.at[i] \in poll'[p].tracked
    <3> SUFFICES ASSUME NEW i \in t.watched
                 PROVE  m.at[i] # None /\ \E p \in Polls : /\ i \in poll'[p].watches
                                                           /\ m.at[i] \in poll'[p].tracked
      BY <1>6, <1>7
    <3>1. i \in m.watched
      OBVIOUS
    <3> QED
      BY <3>1 DEF IInv, Watching
  <2>2. \A p \in Polls : \A k \in poll'[p].tracked :
          /\ StatusOf(m', k) # "none"
          /\ ~Listed(m', k) => IdOf(m', k) \notin poll'[p].armed
          /\ Later(m', k) => m'.at[IdOf(m', k)] # None
    BY <1>7, <1>8 DEF IInv, Watching
  <2> QED
    BY <2>1, <2>2 DEF Watching
<1>17. Justified'
  <2> SUFFICES ASSUME NEW k \in Jobs, Orderly(m, k), IdOf(m, k) \in m.suppressed \cup ids
               PROVE  waiting = k \/ shown'[k].tool \/ Cancelled(m, k)
    BY <1>8, <1>9 DEF Justified
  <2> QED
    BY <1>4, <1>10 DEF IInv, Justified
<1>18. Accounted'
  <2> SUFFICES ASSUME NEW k \in Finished(m), Orderly(m, k), shown'[k] = Unseen
               PROVE  k \in OnWay(m') \cup staged \cup {waiting} \/ Tracked(k)'
    BY <1>8 DEF Accounted
  <2>1. k \in Jobs /\ StatusOf(m, k) = "finished" /\ ~Cancelled(m, k)
    BY DEF Finished, StatusOf, Cancelled
  <2>2. k \notin over /\ shown[k] = Unseen
    <3>1. ~shown'[k].tool /\ shown'[k].messages = 0
      BY DEF Unseen
    <3>2. ~shown[k].tool /\ shown[k].messages = 0 /\ k \notin over
      BY <1>10, <2>1, <3>1
    <3> QED
      BY <2>1, <3>2, StateFacts, SightingFacts
  <2>3. k \notin S /\ IdOf(m, k) \notin ids
    BY <1>4, <2>1, <2>2
  <2>4. k \in OnWay(m) \cup staged \cup {waiting} \/ Tracked(k)
    BY <2>2 DEF IInv, Accounted
  <2>5. ASSUME IsSuppressed(m, IdOf(m, k)) PROVE waiting = k \/ Tracked(k)
    <3>1. waiting = k \/ shown[k].tool \/ Tracked(k)
      BY <2>1, <2>5, SuppressedForItself
    <3> QED
      BY <2>2, <3>1 DEF Unseen
  <2> QED
    BY <1>9, <2>3, <2>4, <2>5
<1> QED
  BY <1>6, <1>12, <1>13, <1>14, <1>15, <1>16, <1>17, <1>18 DEF IInv

\* A poll that finds nothing running shows what it was asked for; otherwise it watches.
LEMMA PollStartsStep ==
  ASSUME IInv, NEW p \in Polls, NEW S \in SUBSET Jobs, PollStarts(p, S)
  PROVE  IInv'
<1>1. /\ Books(m) /\ Ledger(m) /\ staged \in SUBSET Jobs /\ m \in Managers
      /\ poll \in [Polls -> PollStates]
  BY StateFacts
<1>2. /\ ~timedOut /\ poll[p] = NoPoll
      /\ \A j \in S : StatusOf(m, j) # "none" /\ Listed(m, j)
      /\ UNCHANGED <<staged, waiting, timedOut>>
  BY DEF PollStarts, session, StatusOf
<1>3. \A j \in S : j \in Jobs /\ IdOf(m, j) \in Ids /\ m.at[IdOf(m, j)] = j /\ j # None
  BY <1>1, <1>2, LedgerFacts, Numbers DEF Listed, IdOf
<1>4. PICK run : run = S \cap Running(m)
  OBVIOUS
<1>5. CASE run = {}
  <2>1. ShowAndAcknowledge(m, S) /\ poll' = poll
    BY <1>4, <1>5 DEF PollStarts
  <2>2. Showable(S)
    BY <1>2, <1>3 DEF Showable
  <2>3. Alike(m, m)
    BY <1>1 DEF Alike
  <2>4. \A i \in m.watched : \E q \in Polls : /\ i \in poll'[q].watches
                                              /\ m.at[i] \in poll'[q].tracked
    BY <2>1 DEF IInv, Watching
  <2>5. \A k : Tracked(k) => Tracked(k)' \/ k \in S
    BY <2>1 DEF Tracked
  <2>6. \A q \in Polls : \A k \in poll'[q].tracked :
          k \in poll[q].tracked /\ poll'[q].armed = poll[q].armed
    BY <2>1
  <2> QED
    BY <1>1, <1>2, <2>1, <2>2, <2>3, <2>4, <2>5, <2>6, PollShows
<1>6. CASE run # {}
  <2>1. PICK ids : ids = IdsOf(run)
    OBVIOUS
  <2>2. ids = {IdOf(m, j) : j \in run}
    BY <2>1 DEF IdsOf, IdOf
  <2>3. /\ m' = Watch(m, ids)
        /\ poll' = [poll EXCEPT ![p] = [tracked |-> S, watches |-> ids, armed |-> m.timers]]
        /\ shown' = shown
    BY <1>4, <1>6, <2>1 DEF PollStarts
  <2>4. ids \in SUBSET Ids
    BY <1>3, <1>4, <2>2
  <2>5. PICK A, R : A = m.suppressed /\ R = m.watched \cup ids
    OBVIOUS
  <2>6. A \in SUBSET Ids /\ R \in SUBSET Ids /\ m' = Muted(m, A, R)
    BY <1>1, <2>3, <2>4, <2>5, ManagerFields DEF Watch, Muted, Managers
  <2>7. /\ Books(m') /\ Alike(m', m) /\ OnWay(m') = OnWay(m)
        /\ m'.suppressed = A /\ m'.watched = R
    BY <1>1, <2>6, MutedBooks
  <2>8. /\ \A k : /\ IdOf(m', k) = IdOf(m, k) /\ StatusOf(m', k) = StatusOf(m, k)
                  /\ Cancelled(m', k) <=> Cancelled(m, k)
                  /\ Listed(m', k) <=> Listed(m, k)
                  /\ Later(m', k) <=> Later(m, k)
                  /\ Orderly(m', k) <=> Orderly(m, k)
        /\ Finished(m') = Finished(m)
    BY <1>1, <2>7, AlikeBooks
  <2>9. m'.at = m.at
    BY <2>7 DEF Alike
  <2>10. PICK r : r = [tracked |-> S, watches |-> ids, armed |-> m.timers]
    OBVIOUS
  <2>11. r \in PollStates /\ r.tracked = S /\ r.watches = ids /\ r.armed = m.timers
    BY <1>1, <2>4, <2>10, ManagerFields DEF PollStates
  <2>12. /\ poll'[p] = r /\ poll' \in [Polls -> PollStates]
         /\ \A q \in Polls : q # p => poll'[q] = poll[q]
    BY <1>1, <2>3, <2>10, <2>11
  <2>13. poll[p].tracked = {} /\ poll[p].watches = {}
    BY <1>2 DEF NoPoll
  <2>14. Typed'
    BY <1>2, <2>3, <2>12 DEF IInv, Typed
  <2>15. InOnePlace' /\ HeldBack' /\ Unshown' /\ Silenced' /\ Justified'
    BY <1>2, <2>3, <2>5, <2>7, <2>8
       DEF IInv, InOnePlace, HeldBack, Unshown, Silenced, Justified
  <2>16. Watching'
    <3>1. ASSUME NEW i \in m'.watched
          PROVE  m'.at[i] # None
                 /\ \E q \in Polls : i \in poll'[q].watches /\ m'.at[i] \in poll'[q].tracked
      <4>1. CASE i \in ids
        <5>1. PICK j \in run : i = IdOf(m, j)
          BY <2>2, <4>1
        <5>2. j \in S /\ m.at[i] = j /\ j # None
          BY <1>3, <1>4, <5>1
        <5> QED
          BY <2>9, <2>11, <2>12, <4>1, <5>2
      <4>2. CASE i \notin ids
        <5>1. i \in m.watched
          BY <2>5, <2>7, <4>2
        <5>2. PICK q \in Polls : i \in poll[q].watches /\ m.at[i] \in poll[q].tracked
          BY <5>1 DEF IInv, Watching
        <5>3. q # p
          BY <2>13, <5>2
        <5> QED
          BY <2>9, <2>12, <5>1, <5>2, <5>3 DEF IInv, Watching
      <4> QED
        BY <4>1, <4>2
    <3>2. ASSUME NEW q \in Polls, NEW k \in poll'[q].tracked
          PROVE  /\ StatusOf(m', k) # "none"
                 /\ ~Listed(m', k) => IdOf(m', k) \notin poll'[q].armed
                 /\ Later(m', k) => m'.at[IdOf(m', k)] # None
      <4>1. CASE q = p
        BY <1>2, <1>3, <2>8, <2>9, <2>11, <2>12, <3>2, <4>1
      <4>2. CASE q # p
        BY <2>8, <2>9, <2>12, <3>2, <4>2 DEF IInv, Watching
      <4> QED
        BY <4>1, <4>2
    <3> QED
      BY <3>1, <3>2 DEF Watching
  <2>17. Accounted'
    <3>1. \A k : Tracked(k) => Tracked(k)'
      <4> SUFFICES ASSUME NEW k, Tracked(k) PROVE Tracked(k)'
        OBVIOUS
      <4>1. PICK q \in Polls : k \in poll[q].tracked
        BY DEF Tracked
      <4>2. q # p
        BY <2>13, <4>1
      <4> QED
        BY <2>12, <4>1, <4>2 DEF Tracked
    <3> QED
      BY <1>2, <2>3, <2>7, <2>8, <3>1 DEF IInv, Accounted
  <2> QED
    BY <2>7, <2>14, <2>15, <2>16, <2>17 DEF IInv
<1> QED
  BY <1>5, <1>6

\* A poll ends: it stops watching and shows what is over by now.
LEMMA PollEndsStep ==
  ASSUME IInv, NEW p \in Polls, PollEnds(p)
  PROVE  IInv'
<1>1. /\ Books(m) /\ Ledger(m) /\ staged \in SUBSET Jobs /\ m \in Managers
      /\ poll \in [Polls -> PollStates]
  BY StateFacts
<1>2. PICK S, W : S = poll[p].tracked /\ W = poll[p].watches
  OBVIOUS
<1>3. /\ ~timedOut /\ ShowAndAcknowledge(Unwatch(m, W), S)
      /\ poll' = [poll EXCEPT ![p] = NoPoll] /\ UNCHANGED <<staged, waiting, timedOut>>
  BY <1>2 DEF PollEnds, session
<1>4. PICK t : t = Unwatch(m, W)
  OBVIOUS
<1>5. PICK A, R : A = m.suppressed /\ R = m.watched \ W
  OBVIOUS
<1>6. A \in SUBSET Ids /\ R \in SUBSET Ids /\ t = Muted(m, A, R)
  <2>1. m.suppressed \in SUBSET Ids /\ m.watched \in SUBSET Ids
    BY <1>1, ManagerFields
  <2>2. t = Muted(m, A, R)
    BY <1>1, <1>4, <1>5 DEF Unwatch, Muted, Managers
  <2> QED
    BY <1>5, <2>1, <2>2
<1>7. /\ Books(t) /\ Alike(t, m) /\ OnWay(t) = OnWay(m) /\ t.suppressed = A /\ t.watched = R
  BY <1>1, <1>6, MutedBooks
<1>8. S \in SUBSET Jobs
  BY <1>1, <1>2 DEF PollStates
<1>9. Showable(S)
  BY <1>2 DEF IInv, Watching, Showable
<1>10. NoPoll \in PollStates /\ NoPoll.tracked = {}
  BY DEF NoPoll, PollStates
<1>11. /\ poll'[p] = NoPoll /\ poll' \in [Polls -> PollStates]
       /\ \A q \in Polls : q # p => poll'[q] = poll[q]
  BY <1>1, <1>3, <1>10
<1>12. \A i \in t.watched : \E q \in Polls : /\ i \in poll'[q].watches
                                             /\ m.at[i] \in poll'[q].tracked
  <2> SUFFICES ASSUME NEW i \in m.watched, i \notin W
               PROVE  \E q \in Polls : i \in poll'[q].watches /\ m.at[i] \in poll'[q].tracked
    BY <1>5, <1>7
  <2>1. PICK q \in Polls : i \in poll[q].watches /\ m.at[i] \in poll[q].tracked
    BY DEF IInv, Watching
  <2>2. q # p
    BY <1>2, <2>1
  <2> QED
    BY <1>11, <2>1, <2>2
<1>13. \A q \in Polls : \A k \in poll'[q].tracked :
         k \in poll[q].tracked /\ poll'[q].armed = poll[q].armed
  BY <1>10, <1>11
<1>14. \A k : Tracked(k) => Tracked(k)' \/ k \in S
  BY <1>2, <1>11 DEF Tracked
<1>15. t.suppressed = m.suppressed /\ t.watched \subseteq m.watched
  BY <1>5, <1>7
<1> QED
  BY <1>3, <1>4, <1>7, <1>8, <1>9, <1>11, <1>12, <1>13, <1>14, <1>15, PollShows

\* No job, no result and no poll at first.
LEMMA InitInv ==
  ASSUME Init
  PROVE  IInv
<1>1. /\ m = NoJobs /\ staged = {} /\ poll = [p \in Polls |-> NoPoll] /\ waiting = None
      /\ timedOut = FALSE /\ shown = [j \in Jobs |-> Unseen]
  BY DEF Init
<1>2. /\ m.at = [i \in Ids |-> None] /\ m.last = None /\ m.deliveries = <<>> /\ m.flight = {}
      /\ m.job = [j \in Jobs |-> [status |-> "none", id |-> None]]
      /\ m.suppressed = {} /\ m.watched = {} /\ m.timers = {}
      /\ m.loop = [state |-> "none", of |-> None]
  BY <1>1 DEF NoJobs
<1>3. m \in Managers
  <2>1. [i \in Ids |-> None] \in [Ids -> Jobs \cup {None}]
    OBVIOUS
  <2>2. [status |-> "none", id |-> None] \in [status : Statuses, id : Ids \cup {None}]
    BY DEF Statuses
  <2>3. [j \in Jobs |-> [status |-> "none", id |-> None]]
        \in [Jobs -> [status : Statuses, id : Ids \cup {None}]]
    BY <2>2
  <2>4. <<>> \in Seq(Deliveries) /\ None \in Nat
    BY Numbers
  <2>5. [state |-> "none", of |-> None]
        \in [state : {"none", "ending", "delivering", "sleeping"}, of : Jobs \cup {None}]
    OBVIOUS
  <2> QED
    BY <1>1, <2>1, <2>3, <2>4, <2>5 DEF Managers, NoJobs
<1>4. \A j \in Jobs : IdOf(m, j) = None /\ StatusOf(m, j) = "none" /\ j > m.last
  <2>1. \A j \in Jobs : m.job[j] = [status |-> "none", id |-> None]
    BY <1>2
  <2>2. \A j \in Jobs : j > None
    BY Numbers DEF None
  <2> QED
    BY <1>2, <2>1, <2>2 DEF IdOf, StatusOf
<1>5. Finished(m) = {}
  BY <1>4 DEF Finished, StatusOf
<1>6. OnWay(m) = {} /\ Neat(m)
  <2>1. 1..Len(m.deliveries) = {}
    BY <1>2
  <2> QED
    BY <1>2, <2>1 DEF OnWay, Queued, Neat
<1>7. Registered(m)
  <2>1. m.last <= MaxJobs
    BY <1>2, Numbers DEF None
  <2> QED
    BY <1>2, <1>4, <2>1 DEF Registered
<1>8. Retained(m)
  BY <1>2, <1>4 DEF Retained
<1>9. Books(m)
  BY <1>3, <1>6, <1>7, <1>8 DEF Books, Ledger
<1>10. \A j \in Jobs : shown[j] = Unseen /\ ~shown[j].tool /\ ~(shown[j].messages > 0)
  BY <1>1 DEF Unseen
<1>11. Typed
  <2>1. NoPoll \in PollStates /\ Unseen \in Sightings
    BY DEF NoPoll, PollStates, Unseen, Sightings
  <2> QED
    BY <1>1, <2>1 DEF Typed
<1>12. InOnePlace
  BY <1>1, <1>6, <1>10 DEF InOnePlace
<1>13. HeldBack /\ Unshown
  BY <1>1 DEF HeldBack, Unshown
<1>14. Silenced /\ Accounted
  BY <1>5 DEF Silenced, Accounted
<1>15. Watching
  <2>1. \A p \in Polls : poll[p].tracked = {}
    BY <1>1 DEF NoPoll
  <2> QED
    BY <1>2, <2>1 DEF Watching
<1>16. Justified
  BY <1>2 DEF Justified
<1> QED
  BY <1>9, <1>11, <1>12, <1>13, <1>14, <1>15, <1>16 DEF IInv

\* The steps of the session: they inject what is staged, or move no result.
LEMMA SessionStep ==
  ASSUME IInv, StepBoundary \/ LastPoll \/ RunAborted \/ AbortedIdle \/ Unwound \/ Prompted
               \/ IdleFlush \/ UNCHANGED vars
  PROVE  IInv'
<1>1. CASE StepBoundary \/ LastPoll
  BY <1>1, InjectStep DEF StepBoundary, LastPoll, tools
<1>2. CASE RunAborted \/ AbortedIdle \/ Unwound \/ Prompted
  BY <1>2, QuietStep DEF RunAborted, AbortedIdle, Unwound, Prompted, tools
<1>3. CASE IdleFlush
  <2>1. UNCHANGED <<m, poll, waiting, timedOut>>
    BY <1>3 DEF IdleFlush, tools
  <2>2. CASE IsStreaming
    BY <1>3, <2>1, <2>2, QuietStep DEF IdleFlush
  <2>3. CASE ~IsStreaming
    BY <1>3, <2>1, <2>3, InjectStep DEF IdleFlush
  <2> QED
    BY <2>2, <2>3
<1>4. CASE UNCHANGED vars
  BY <1>4, QuietStep DEF vars, session, tools
<1> QED
  BY <1>1, <1>2, <1>3, <1>4

\* Every step keeps the invariant.
LEMMA NextInv ==
  ASSUME IInv, [Next]_vars
  PROVE  IInv'
<1>1. CASE Start \/ WaitInForeground
  BY <1>1, StartStep, WaitInForegroundStep
<1>2. CASE ForegroundShows \/ ForegroundTimesOut \/ GoesToBackground \/ ForegroundAborted
  BY <1>2, ForegroundShowsStep, ForegroundTimesOutStep, GoesToBackgroundStep,
     ForegroundAbortedStep
<1>3. CASE \E j \in Jobs : CancelJob(j) \/ JobSettles(j) \/ Delivered(j) \/ DeliveryThrows(j)
  BY <1>3, CancelJobStep, JobSettlesStep, DeliveredStep, DeliveryThrowsStep
<1>4. CASE \E id \in Ids : RetentionEnds(id)
  BY <1>4, RetentionEndsStep
<1>5. CASE \E p \in Polls : PollEnds(p) \/ \E S \in SUBSET Jobs : PollStarts(p, S)
  BY <1>5, PollEndsStep, PollStartsStep
<1>6. CASE LoopGoesOn \/ \E k \in Jobs : Drain(k)
  BY <1>6, LoopGoesOnStep, DrainStep
<1>7. CASE StepBoundary \/ LastPoll \/ RunAborted \/ AbortedIdle \/ Unwound \/ Prompted
           \/ IdleFlush \/ UNCHANGED vars
  BY <1>7, SessionStep
<1> QED
  BY <1>1, <1>2, <1>3, <1>4, <1>5, <1>6, <1>7 DEF Next

\* The inductive invariant: the job manager (async/job-manager.ts) keeps its ids, queue
\* and timers in order, a result is in one place of the pipeline at most, and an id is
\* suppressed only for the sake of the job it stands for.
THEOREM DeliveryInvariant == Spec => []IInv
<1>1. Init => IInv
  BY InitInv
<1>2. IInv /\ [Next]_vars => IInv'
  BY NextInv
<1> QED
  BY <1>1, <1>2, PTL DEF Spec

\* A finished job nobody has seen is in one of the places the property lists.
LEMMA Accounts ==
  ASSUME IInv
  PROVE  NothingLost
<1> SUFFICES ASSUME NEW j \in Jobs, Done(j), shown[j] = Unseen, ~Superseded(j), ~Haunted(j)
             PROVE  \/ j \in m.flight \cup staged \cup {waiting}
                    \/ \E k \in DOMAIN m.deliveries : m.deliveries[k].of = j
                    \/ \E p \in Polls : j \in poll[p].tracked
  BY DEF NothingLost
<1>1. j \in Finished(m)
  BY DEF Done
<1>2. Orderly(m, j)
  BY DEF Orderly, Later, Spooked, Superseded, Haunted, IdOf, Cancelled, StatusOf
<1>3. j \in OnWay(m) \cup staged \cup {waiting} \/ Tracked(j)
  BY <1>1, <1>2 DEF IInv, Accounted
<1>4. DOMAIN m.deliveries = 1..Len(m.deliveries)
  BY StateFacts, ManagerFields
<1>5. j \in Queued(m) => \E k \in DOMAIN m.deliveries : m.deliveries[k].of = j
  BY <1>4 DEF Queued
<1> QED
  BY <1>3, <1>5 DEF OnWay, Tracked

\* A finished result nobody has seen is queued, in flight, staged or in the hands of a
\* tool that will show it (async/job-manager.ts, session/yield-queue.ts, tools/job.ts),
\* unless its id went to a later job or was that of a cancelled one.
THEOREM NothingLostHolds == Spec => []NothingLost
<1>1. IInv => NothingLost
  BY Accounts
<1> QED
  BY <1>1, DeliveryInvariant, PTL

\* Only an injection tells the model a result once more, and only a fresh one.
Echoes == \A j \in Jobs : shown'[j].messages > shown[j].messages
                          => shown[j] = Unseen \/ ~Listed(m, j)

\* What is injected is fresh: no message has told it, and a tool that showed it would
\* have it suppressed while the manager remembers the job.
LEMMA InjectsUnseen ==
  ASSUME IInv, Inject(Fresh)
  PROVE  Echoes
<1> SUFFICES ASSUME NEW j \in Jobs, shown'[j].messages > shown[j].messages, Listed(m, j)
             PROVE  shown[j] = Unseen
  BY DEF Echoes
<1>1. shown[j].messages \in Nat
  BY StateFacts, SightingFacts
<1>2. shown'[j] = IF j \in Fresh THEN [shown[j] EXCEPT !.messages = @ + 1] ELSE shown[j]
  BY DEF Inject
<1>3. j \in staged /\ ~IsSuppressed(m, IdOf(m, j))
  BY <1>1, <1>2 DEF Fresh, IdOf
<1>4. shown[j].messages = 0 /\ j \in Finished(m)
  BY <1>3 DEF IInv, InOnePlace
<1>5. ~shown[j].tool
  BY <1>3, <1>4 DEF IInv, Silenced, IsSuppressed
<1> QED
  BY <1>4, <1>5, StateFacts, SightingFacts

\* The tools show results, and tell none by a message.
LEMMA ToolsTellNoMessage ==
  ASSUME IInv, UNCHANGED shown \/ \E S : ShownByTool(S)
  PROVE  Echoes
<1> SUFFICES ASSUME NEW j \in Jobs PROVE ~(shown'[j].messages > shown[j].messages)
  BY DEF Echoes
<1>1. shown[j] \in Sightings
  BY StateFacts
<1>2. shown'[j].messages = shown[j].messages
  <2>1. CASE UNCHANGED shown
    BY <2>1
  <2>2. ASSUME NEW S, ShownByTool(S) PROVE shown'[j].messages = shown[j].messages
    <3>1. shown'[j] = IF j \in S THEN [shown[j] EXCEPT !.tool = TRUE] ELSE shown[j]
      BY <2>2 DEF ShownByTool
    <3> QED
      BY <1>1, <3>1 DEF Sightings
  <2> QED
    BY <2>1, <2>2
<1>3. shown[j].messages \in Nat
  BY <1>1 DEF Sightings
<1> QED
  BY <1>2, <1>3

\* No step injects a result that was shown.
LEMMA NextEchoes ==
  ASSUME IInv, [Next]_vars
  PROVE  Echoes
<1>1. CASE Start \/ WaitInForeground
  BY <1>1, ToolsTellNoMessage DEF Start, WaitInForeground
<1>2. CASE ForegroundShows \/ ForegroundTimesOut \/ GoesToBackground \/ ForegroundAborted
  BY <1>2, ToolsTellNoMessage
     DEF ForegroundShows, ForegroundTimesOut, GoesToBackground, ForegroundAborted
<1>3. CASE \E j \in Jobs : CancelJob(j) \/ JobSettles(j) \/ Delivered(j) \/ DeliveryThrows(j)
  BY <1>3, ToolsTellNoMessage DEF CancelJob, JobSettles, Delivered, DeliveryThrows
<1>4. CASE \E id \in Ids : RetentionEnds(id)
  BY <1>4, ToolsTellNoMessage DEF RetentionEnds
<1>5. CASE \E p \in Polls : PollEnds(p) \/ \E S \in SUBSET Jobs : PollStarts(p, S)
  BY <1>5, ToolsTellNoMessage DEF PollEnds, PollStarts, ShowAndAcknowledge
<1>6. CASE LoopGoesOn \/ \E k \in Jobs : Drain(k)
  BY <1>6, ToolsTellNoMessage DEF LoopGoesOn, Drain
<1>7. CASE StepBoundary \/ LastPoll
  BY <1>7, InjectsUnseen DEF StepBoundary, LastPoll
<1>8. CASE RunAborted \/ AbortedIdle \/ Unwound \/ Prompted \/ UNCHANGED vars
  BY <1>8, ToolsTellNoMessage DEF RunAborted, AbortedIdle, Unwound, Prompted, vars
<1>9. CASE IdleFlush
  BY <1>9, ToolsTellNoMessage, InjectsUnseen DEF IdleFlush
<1> QED
  BY <1>1, <1>2, <1>3, <1>4, <1>5, <1>6, <1>7, <1>8, <1>9 DEF Next

\* A result the model has seen, by a tool or a message, is not injected again while the
\* manager remembers its job (YieldQueue.#build drops what isStale says is stale).
THEOREM NoEchoHolds == Spec => NoEcho
<1>1. IInv /\ [Next]_vars
      => [\A j \in Jobs : shown'[j].messages > shown[j].messages
                          => shown[j] = Unseen \/ ~Listed(m, j)]_vars
  BY NextEchoes DEF Echoes
<1> QED
  BY <1>1, DeliveryInvariant, PTL DEF Spec, NoEcho
=============================================================================
