------------------------- MODULE AgentMessagingProofs -------------------------
(***************************************************************************)
(* Proofs about AgentMessaging, for every set of agents, mailbox cap and   *)
(* bound on the messages: NothingLost, ShownOnce and NobodyWaitsInVain.    *)
(*                                                                         *)
(* A step of the bus is a chain of calls (a send resolves a waiter or      *)
(* wakes a session, which ends the waits of others, and so on), and the    *)
(* invariant is broken in between.  Whole(n, R) is what holds after every  *)
(* call: R are the messages that have a number and are not yet sent.  The  *)
(* receipt of a message says where it is (Placed), it is there once        *)
(* (Single), and what its receipt promises is kept (Promised); a tool call *)
(* has one waiter at most, which stays open as long as the call (Calling); *)
(* nobody waits in vain (Calm).                                            *)
(*                                                                         *)
(* Settled is what holds besides once the microtasks of a step are done:   *)
(* no reply is between its waiter and its call.  It is needed because a    *)
(* call holds one reply only: were a second one to resolve a waiter of the *)
(* same call, the first would be overwritten, and lost.                    *)
(*                                                                         *)
(* The lemmas go up from the operators of IrcBus to the actions: what each *)
(* call does to Whole, then what Settle makes of it.                       *)
(***************************************************************************)

EXTENDS AgentMessaging, FiniteSetTheorems, FunctionTheorems, SequenceTheorems,
        WellFoundedInduction, TLAPS

\* The values the fields of net range over.
Messages == [from : Agents, to : Agents, re : Nat, awaited : BOOLEAN]
Waiters == [from : Agents \cup {None}, guarded : BOOLEAN, owner : {"tool", "collector"}]
Calls == [kind : {"none", "wait", "await"}, id : Ids \cup {NoId}, open : BOOLEAN,
          got : Ids \cup {NoId}]
Collectors == [phase : {"off", "sending", "listening"}, for : Agents \cup {None},
               asked : Seq(Ids), got : SUBSET Ids]
Receipts == {"none", "reviving", "failed", "unseen", "delivered"}
Nets ==
  [status : [Agents -> {"idle", "running", "parked", "aborted"}],
   session : [Agents -> {"live", "disposed", "none"}],
   steered : [Agents -> SUBSET Ids], asides : [Agents -> Seq(Ids)],
   revival : [Agents -> Seq(Ids)], mail : [Agents -> Seq(Ids)],
   waiters : [Agents -> Seq(Waiters)], call : [Agents -> Calls], collector : Collectors,
   sent : Seq(Messages), receipt : [Ids -> Receipts], due : SUBSET Ids, dropped : SUBSET Ids,
   shown : [Ids -> Nat]]

\* The messages sent so far, and those that agent a is to get.
Sent(n) == 1..Len(n.sent)
To(n, a) == {i \in Sent(n) : n.sent[i].to = a}
Got(n, a) == n.call[a].got

\* Where a message is, its receipt says; what is held somewhere has not been shown.
\* R are the messages that are being sent.
Placed(n, R) ==
  /\ \A a \in Agents :
       /\ \A i \in Pending(n, a) : /\ i \in To(n, a)
                                   /\ n.receipt[i] = "delivered" /\ n.shown[i] = 0
       /\ \A i \in ToSet(n.mail[a]) : /\ i \in To(n, a)
                                      /\ n.receipt[i] = "unseen" /\ n.shown[i] = 0
       /\ \A i \in ToSet(n.revival[a]) : i \in To(n, a) /\ n.receipt[i] = "reviving"
       /\ Got(n, a) # NoId => /\ Got(n, a) \in To(n, a) \ Pending(n, a)
                              /\ n.receipt[Got(n, a)] = "delivered" /\ n.shown[Got(n, a)] = 0
  /\ \A i \in Ids : /\ n.shown[i] <= 1
                    /\ n.receipt[i] \in {"none", "reviving", "failed"} => n.shown[i] = 0

\* No message is in a queue twice.
Single(n) ==
  \A a \in Agents : /\ n.steered[a] \cap ToSet(n.asides[a]) = {}
                    /\ IsInjective(n.asides[a]) /\ IsInjective(n.mail[a])
                    /\ IsInjective(n.revival[a])

\* Messages have consecutive numbers; those that are being sent are nowhere yet.
Counted(n, R) ==
  /\ Sent(n) \subseteq Ids /\ n.due \subseteq Sent(n)
  /\ \A i \in Ids \ Sent(n) : n.receipt[i] = "none"
  /\ R \subseteq Sent(n)
  /\ \A i \in R : /\ n.receipt[i] \in {"none", "reviving"}
                  /\ i \notin ToSet(n.revival[n.sent[i].to])
  /\ \A i \in Sent(n) : n.receipt[i] = "reviving"
                        => i \in R \cup ToSet(n.revival[n.sent[i].to])

\* A message whose receipt promises so is shown, or held, or was given up.
Promised(n) ==
  \A i \in Sent(n) :
    LET to == n.sent[i].to IN
    /\ n.receipt[i] = "delivered" =>
         n.shown[i] > 0 \/ i \in Pending(n, to) \/ i = Got(n, to) \/ n.status[to] = "aborted"
    /\ n.receipt[i] = "unseen" => n.shown[i] > 0 \/ i \in ToSet(n.mail[to]) \/ i \in n.dropped

Mail(n, R) == Placed(n, R) /\ Single(n) /\ Counted(n, R) /\ Promised(n)

\* The calls of agent a and its waiters: a tool call has one waiter at most, and
\* that of a `send await` waits for the one the message went to.
CallFits(n, R, a) ==
  /\ n.call[a].open => n.call[a].kind # "none"
  /\ n.call[a].kind # "none" => n.status[a] = "running"
  /\ n.call[a].kind = "await" =>
       /\ n.call[a].id \in Sent(n)
       /\ n.receipt[n.call[a].id] = "none" => n.call[a].id \in R
  /\ Got(n, a) # NoId => /\ n.call[a].kind = "await" /\ ~n.call[a].open
                         /\ n.receipt[n.call[a].id] = "delivered"
OneTool(ws) ==
  \A k, l \in 1..Len(ws) : ws[k].owner = "tool" /\ ws[l].owner = "tool" => k = l
WaitersFit(n, a) ==
  /\ \A w \in ToSet(n.waiters[a]) :
       /\ w.guarded => w.owner = "tool"
       /\ w.owner = "tool" =>
            /\ n.call[a].open
            /\ n.call[a].kind = "await" => w.from = n.sent[n.call[a].id].to
  /\ OneTool(n.waiters[a])
Calling(n, R) == \A a \in Agents : CallFits(n, R, a) /\ WaitersFit(n, a)

\* The status of an agent tells about its session; messages await a revival only of a
\* parked agent.
Lives(n, a) ==
  /\ n.status[a] = "running" => n.session[a] = "live"
  /\ n.session[a] = "none" <=> n.status[a] \in {"parked", "aborted"}
  /\ n.revival[a] # <<>> => n.status[a] = "parked"
Living(n) == \A a \in Agents : Lives(n, a)

\* A collector asks for some agent, by messages that were sent.
Gathering(n) ==
  n.collector.phase # "off" => /\ n.collector.for \in Agents
                               /\ ToSet(n.collector.asked) \subseteq Sent(n)
Calm(n) == \A a \in Agents : ~Orphaned(n, a)

Fit(n, R) == n \in Nets /\ Mail(n, R) /\ Calling(n, R) /\ Gathering(n)
Whole(n, R) == Fit(n, R) /\ Living(n) /\ Calm(n)

\* After the microtasks of a step no reply is in between, and what a call
\* awaits the reply to is delivered or awaits a revival.
Settled(n) ==
  \A a \in Agents :
    /\ Got(n, a) = NoId
    /\ n.call[a].kind = "await" => n.receipt[n.call[a].id] \in {"delivered", "reviving"}

IInv == Whole(net, {}) /\ Settled(net)

\* In n the calls of t go on, or are over.
Milder(n, t) ==
  \A a \in Agents : n.call[a].kind = "await" =>
    t.call[a].kind = "await" /\ n.call[a].id = t.call[a].id

\* n and t agree on the messages, their receipts and where they are.
SameMail(n, t) ==
  /\ n.sent = t.sent /\ n.receipt = t.receipt /\ n.shown = t.shown
  /\ n.steered = t.steered /\ n.asides = t.asides /\ n.mail = t.mail
  /\ n.revival = t.revival /\ n.dropped = t.dropped /\ n.due = t.due

\* A set of numbers has a smallest one.
LEMMA Smallest ==
  ASSUME NEW T \in SUBSET Nat, T # {}
  PROVE  \E n \in T : \A y \in T : n <= y
<1> DEFINE Below == {1..n : n \in T}
<1>1. Below \subseteq FiniteSubsetsOf(Nat) /\ Below # {}
  <2>1. ASSUME NEW n \in T PROVE 1..n \in SUBSET Nat /\ IsFiniteSet(1..n)
    BY FS_Interval
  <2> QED
    BY <2>1 DEF FiniteSubsetsOf
<1>2. PICK B \in Below : \A C \in Below : <<C, B>> \notin StrictSubsetOrdering(Nat)
  <2> HIDE DEF Below
  <2> QED
    BY <1>1, FS_StrictSubsetOrderingWellFounded, WFMin
<1>3. PICK n \in T : B = 1..n
  OBVIOUS
<1>4. ASSUME NEW y \in T, y < n PROVE FALSE
  <2>0. y \in Nat /\ n \in Nat
    OBVIOUS
  <2>1. 1..y \in Below
    OBVIOUS
  <2>2. 1..y \subseteq Nat /\ 1..n \subseteq Nat
    BY <2>0
  <2>4. 1..y \subseteq 1..n /\ n \in 1..n /\ n \notin 1..y
    <3> HIDE DEF Below
    <3> QED
      BY <2>0, <1>4
  <2>3. <<1..y, 1..n>> \in StrictSubsetOrdering(Nat)
    BY <2>2, <2>4 DEF StrictSubsetOrdering
  <2> QED
    BY <1>2, <1>3, <2>1, <2>3
<1> QED
  BY <1>4

\* Min yields it.
LEMMA MinFacts ==
  ASSUME NEW T \in SUBSET Nat, T # {}
  PROVE  Min(T) \in T /\ \A y \in T : Min(T) <= y
BY Smallest DEF Min

\* A sequence without one of its elements.
LEMMA RemovedAt ==
  ASSUME NEW T, NEW q \in Seq(T), NEW a \in 1..Len(q), NEW r, r = RemoveAt(q, a)
  PROVE  /\ r \in Seq(T) /\ Len(r) = Len(q) - 1
         /\ \A i \in 1..Len(r) : r[i] = q[IF i < a THEN i ELSE i + 1]
<1>1. Len(q) \in Nat /\ a \in Nat /\ a >= 1 /\ a <= Len(q) /\ \A i \in 1..Len(q) : q[i] \in T
  OBVIOUS
<1>3. PICK u, v : u = SubSeq(q, 1, a - 1) /\ v = SubSeq(q, a + 1, Len(q))
  OBVIOUS
<1>4. u \in Seq(T) /\ Len(u) = a - 1 /\ \A i \in 1..(a - 1) : u[i] = q[i]
  <2>1. \A i \in 1..(a - 1) : q[i] \in T
    BY <1>1
  <2>2. 1 \in Int /\ a - 1 \in Int
    BY <1>1
  <2>3. u \in Seq(T) /\ Len(u) = (IF 1 <= a - 1 THEN a - 1 - 1 + 1 ELSE 0)
        /\ \A i \in 1..(a - 1 - 1 + 1) : u[i] = q[1 + i - 1]
    BY <1>3, <2>1, <2>2, SubSeqProperties
  <2> QED
    BY <1>1, <2>3
<1>5. v \in Seq(T) /\ Len(v) = Len(q) - a /\ \A i \in 1..(Len(q) - a) : v[i] = q[a + i]
  <2>1. \A i \in (a + 1)..Len(q) : q[i] \in T
    BY <1>1
  <2>2. a + 1 \in Int /\ Len(q) \in Int
    BY <1>1
  <2>3. v \in Seq(T) /\ Len(v) = (IF a + 1 <= Len(q) THEN Len(q) - (a + 1) + 1 ELSE 0)
        /\ \A i \in 1..(Len(q) - (a + 1) + 1) : v[i] = q[a + 1 + i - 1]
    BY <1>3, <2>1, <2>2, SubSeqProperties
  <2> QED
    BY <1>1, <2>3
<1>6. r = u \o v
  BY <1>3 DEF RemoveAt
<1>7. r \in Seq(T) /\ Len(r) = Len(q) - 1
      /\ \A i \in 1..(Len(q) - 1) : r[i] = IF i <= a - 1 THEN u[i] ELSE v[i - (a - 1)]
  <2>1. r \in Seq(T) /\ Len(r) = Len(u) + Len(v)
        /\ \A i \in 1..(Len(u) + Len(v)) : r[i] = IF i <= Len(u) THEN u[i] ELSE v[i - Len(u)]
    <3>1. u \in Seq(T) /\ v \in Seq(T)
      BY <1>4, <1>5
    <3>2. PICK w : w = u \o v
      OBVIOUS
    <3>3. w \in Seq(T) /\ Len(w) = Len(u) + Len(v)
          /\ \A i \in 1..(Len(u) + Len(v)) : w[i] = IF i <= Len(u) THEN u[i] ELSE v[i - Len(u)]
      BY <3>1, <3>2, ConcatProperties
    <3> QED
      BY <1>6, <3>2, <3>3
  <2>2. Len(u) + Len(v) = Len(q) - 1
    BY <1>1, <1>4, <1>5
  <2>3. Len(u) = a - 1
    BY <1>4
  <2> QED
    BY <2>1, <2>2, <2>3
<1>8. ASSUME NEW i \in 1..Len(r) PROVE r[i] = q[IF i < a THEN i ELSE i + 1]
  <2>1. CASE i < a
    <3>1. i \in 1..(a - 1) /\ i <= a - 1
      BY <1>1, <1>7, <2>1
    <3> QED
      BY <1>4, <1>7, <2>1, <3>1
  <2>2. CASE ~(i < a)
    <3>1. i - (a - 1) \in 1..(Len(q) - a) /\ ~(i <= a - 1) /\ i \in Nat
          /\ a + (i - (a - 1)) = i + 1
      BY <1>1, <1>7, <2>2
    <3>2. r[i] = v[i - (a - 1)]
      BY <1>7, <3>1
    <3>3. v[i - (a - 1)] = q[a + (i - (a - 1))]
      BY <1>5, <3>1
    <3> QED
      BY <2>2, <3>1, <3>2, <3>3
  <2> QED
    BY <2>1, <2>2
<1> QED
  BY <1>7, <1>8

\* The elements of a sequence.
LEMMA Elements ==
  ASSUME NEW T, NEW q \in Seq(T)
  PROVE  /\ DOMAIN q = 1..Len(q) /\ Len(q) \in Nat
         /\ ToSet(q) \in SUBSET T
         /\ \A x : x \in ToSet(q) <=> \E k \in 1..Len(q) : q[k] = x
         /\ IsInjective(q) <=> \A k, l \in 1..Len(q) : q[k] = q[l] => k = l
         /\ ToSet(q) = {} <=> q = <<>>
<1>1. DOMAIN q = 1..Len(q) /\ Len(q) \in Nat /\ \A k \in 1..Len(q) : q[k] \in T
  OBVIOUS
<1>2. \A x : x \in ToSet(q) <=> \E k \in 1..Len(q) : q[k] = x
  BY <1>1 DEF ToSet
<1>3. IsInjective(q) <=> \A k, l \in 1..Len(q) : q[k] = q[l] => k = l
  BY <1>1 DEF IsInjective
<1>4. ToSet(q) = {} <=> q = <<>>
  <2>1. ASSUME q # <<>> PROVE ToSet(q) # {}
    <3>1. 1 \in 1..Len(q)
      BY <2>1, EmptySeq
    <3> QED
      BY <1>2, <3>1
  <2>2. ASSUME q = <<>> PROVE ToSet(q) = {}
    <3>1. 1..Len(q) = {}
      BY <2>2
    <3> QED
      BY <1>2, <3>1
  <2> QED
    BY <2>1, <2>2
<1> QED
  BY <1>1, <1>2, <1>3, <1>4

\* Nothing is in the empty queue.
LEMMA NoElements ==
  /\ \A T : <<>> \in Seq(T)
  /\ ToSet(<<>>) = {} /\ IsInjective(<<>>)
<1>1. \A T : <<>> \in Seq(T)
  OBVIOUS
<1>2. ToSet(<<>>) = {}
  BY DEF ToSet
<1>3. IsInjective(<<>>)
  BY DEF IsInjective
<1> QED
  BY <1>1, <1>2, <1>3

\* A sequence without one of its elements has the others.
LEMMA RemovedSet ==
  ASSUME NEW T, NEW q \in Seq(T), NEW a \in 1..Len(q), NEW r, r = RemoveAt(q, a)
  PROVE  /\ r \in Seq(T) /\ ToSet(r) \subseteq ToSet(q)
         /\ \A x \in ToSet(q) : x # q[a] => x \in ToSet(r)
         /\ IsInjective(q) => IsInjective(r) /\ ToSet(r) = ToSet(q) \ {q[a]}
<1>1. /\ r \in Seq(T) /\ Len(r) = Len(q) - 1 /\ Len(q) \in Nat /\ Len(r) \in Nat
      /\ \A i \in 1..Len(r) : r[i] = q[IF i < a THEN i ELSE i + 1]
  BY RemovedAt
<1>10. \A x : x \in ToSet(q) <=> \E k \in 1..Len(q) : q[k] = x
  BY <1>1, Elements
<1>11. IsInjective(q) <=> (\A k, l \in 1..Len(q) : q[k] = q[l] => k = l)
  BY <1>1, Elements
<1>12. \A x : x \in ToSet(r) <=> \E k \in 1..Len(r) : r[k] = x
  BY <1>1, Elements
<1>14. r \in Seq(T)
  BY <1>1
<1>15. DOMAIN r = 1..Len(r)
  BY <1>14
<1>13. IsInjective(r) <=> (\A k, l \in 1..Len(r) : r[k] = r[l] => k = l)
  BY <1>15 DEF IsInjective
<1>2. PICK h : h = [i \in 1..Len(r) |-> IF i < a THEN i ELSE i + 1]
  OBVIOUS
<1>3. \A i \in 1..Len(r) : h[i] \in 1..Len(q) /\ h[i] # a /\ r[i] = q[h[i]]
  BY <1>1, <1>2
<1>4. \A i, j \in 1..Len(r) : h[i] = h[j] => i = j
  BY <1>1, <1>2
<1>5. ASSUME NEW k \in 1..Len(q), k # a PROVE \E i \in 1..Len(r) : h[i] = k
  <2>1. CASE k < a
    <3>1. k \in 1..Len(r) /\ h[k] = k
      BY <1>1, <1>2, <2>1
    <3> QED
      BY <3>1
  <2>2. CASE ~(k < a)
    <3>1. k - 1 \in 1..Len(r) /\ h[k - 1] = k
      BY <1>1, <1>2, <1>5, <2>2
    <3> QED
      BY <3>1
  <2> QED
    BY <2>1, <2>2
<1>6. ToSet(r) \subseteq ToSet(q)
  BY <1>1, <1>3, <1>10, <1>11, <1>12, <1>13
<1>7. ASSUME NEW x \in ToSet(q), x # q[a] PROVE x \in ToSet(r)
  <2>1. PICK k \in 1..Len(q) : q[k] = x
    BY <1>10, <1>11, <1>12, <1>13
  <2>2. PICK i \in 1..Len(r) : h[i] = k
    BY <1>5, <1>7, <2>1
  <2> QED
    BY <1>1, <1>3, <2>1, <2>2, <1>10, <1>11, <1>12, <1>13, ZenonT(60)
<1>8. ASSUME IsInjective(q) PROVE IsInjective(r) /\ ToSet(r) = ToSet(q) \ {q[a]}
  <2>1. \A k, l \in 1..Len(q) : q[k] = q[l] => k = l
    BY <1>8, <1>10, <1>11, <1>12, <1>13
  <2>2. \A i, j \in 1..Len(r) : r[i] = r[j] => i = j
    BY <1>3, <1>4, <2>1
  <2>3. q[a] \notin ToSet(r)
    BY <1>1, <1>3, <2>1, <1>10, <1>11, <1>12, <1>13
  <2> QED
    BY <1>1, <1>6, <1>7, <2>2, <2>3, <1>10, <1>11, <1>12, <1>13
<1> QED
  BY <1>1, <1>6, <1>7, <1>8

\* A sequence with one element more.
Extended(q, x) == Append(q, x)

\* Extended appends one element, and keeps a sequence without repetition so.
LEMMA AppendedSet ==
  ASSUME NEW T, NEW q \in Seq(T), NEW x \in T, NEW r, r = Extended(q, x)
  PROVE  /\ r \in Seq(T) /\ ToSet(r) = ToSet(q) \cup {x}
         /\ IsInjective(q) /\ x \notin ToSet(q) => IsInjective(r)
<1>1. /\ r \in Seq(T) /\ Len(r) = Len(q) + 1 /\ Len(q) \in Nat
      /\ \A i \in 1..Len(q) : r[i] = q[i]
      /\ r[Len(q) + 1] = x
  BY AppendProperties DEF Extended
<1>10. \A y : y \in ToSet(q) <=> \E k \in 1..Len(q) : q[k] = y
  BY <1>1, Elements
<1>11. IsInjective(q) <=> (\A k, l \in 1..Len(q) : q[k] = q[l] => k = l)
  BY <1>1, Elements
<1>12. \A y : y \in ToSet(r) <=> \E k \in 1..Len(r) : r[k] = y
  BY <1>1, Elements
<1>14. r \in Seq(T)
  BY <1>1
<1>15. DOMAIN r = 1..Len(r)
  BY <1>14
<1>13. IsInjective(r) <=> (\A k, l \in 1..Len(r) : r[k] = r[l] => k = l)
  BY <1>15 DEF IsInjective
<1>2. \A i \in 1..Len(r) : i \in 1..Len(q) \/ i = Len(q) + 1
  BY <1>1
<1>3. \A i \in 1..Len(q) : i \in 1..Len(r)
  BY <1>1
<1>4. Len(q) + 1 \in 1..Len(r)
  BY <1>1
<1>5. ToSet(r) \subseteq ToSet(q) \cup {x}
  BY <1>1, <1>2, <1>10, <1>11, <1>12, <1>13
<1>6. ToSet(q) \cup {x} \subseteq ToSet(r)
  BY <1>1, <1>3, <1>4, <1>10, <1>11, <1>12, <1>13
<1>7. ASSUME IsInjective(q), x \notin ToSet(q) PROVE IsInjective(r)
  <2>1. \A k, l \in 1..Len(q) : q[k] = q[l] => k = l
    BY <1>7, <1>10, <1>11, <1>12, <1>13
  <2>2. \A k \in 1..Len(q) : q[k] # x
    BY <1>7, <1>10, <1>11, <1>12, <1>13
  <2>3. \A k, l \in 1..Len(r) : r[k] = r[l] => k = l
    BY <1>1, <1>2, <2>1, <2>2
  <2> QED
    BY <1>1, <2>3, <1>10, <1>11, <1>12, <1>13
<1> QED
  BY <1>1, <1>5, <1>6, <1>7

\* A sequence without its first element.
LEMMA TailSet ==
  ASSUME NEW T, NEW q \in Seq(T), q # <<>>
  PROVE  /\ Tail(q) \in Seq(T) /\ Head(q) \in ToSet(q) /\ ToSet(Tail(q)) \subseteq ToSet(q)
         /\ \A x \in ToSet(q) : x = Head(q) \/ x \in ToSet(Tail(q))
         /\ IsInjective(q) => IsInjective(Tail(q))
<1>1. PICK r : r = Tail(q)
  OBVIOUS
<1>2. /\ r \in Seq(T) /\ Len(q) \in Nat \ {0} /\ Len(r) = Len(q) - 1 /\ Head(q) = q[1]
      /\ \A i \in 1..Len(r) : r[i] = q[i + 1]
  <2>1. Len(q) \in Nat \ {0} /\ Head(q) = q[1]
    BY EmptySeq
  <2> QED
    BY <1>1, <2>1
<1>10. \A x : x \in ToSet(q) <=> \E k \in 1..Len(q) : q[k] = x
  BY <1>2, Elements
<1>11. IsInjective(q) <=> (\A k, l \in 1..Len(q) : q[k] = q[l] => k = l)
  BY <1>2, Elements
<1>12. \A x : x \in ToSet(r) <=> \E k \in 1..Len(r) : r[k] = x
  BY <1>2, Elements
<1>13. IsInjective(r) <=> (\A k, l \in 1..Len(r) : r[k] = r[l] => k = l)
  BY <1>2, Elements
<1>3. \A i \in 1..Len(r) : i + 1 \in 1..Len(q)
  BY <1>2
<1>4. \A i \in 1..Len(q) : i = 1 \/ (i - 1 \in 1..Len(r) /\ r[i - 1] = q[i])
  BY <1>2
<1>5. 1 \in 1..Len(q)
  BY <1>2
<1>6. Head(q) \in ToSet(q)
  BY <1>2, <1>5, <1>10, <1>11, <1>12, <1>13
<1>7. ToSet(r) \subseteq ToSet(q)
  BY <1>2, <1>3, <1>10, <1>11, <1>12, <1>13
<1>8. \A x \in ToSet(q) : x = Head(q) \/ x \in ToSet(r)
  BY <1>2, <1>4, <1>10, <1>11, <1>12, <1>13
<1>9. ASSUME IsInjective(q) PROVE IsInjective(r)
  <2>1. \A k, l \in 1..Len(q) : q[k] = q[l] => k = l
    BY <1>9, <1>10, <1>11, <1>12, <1>13
  <2>2. \A k, l \in 1..Len(r) : r[k] = r[l] => k = l
    BY <1>2, <1>3, <2>1
  <2> QED
    BY <1>2, <2>2, <1>10, <1>11, <1>12, <1>13
<1> QED
  BY <1>1, <1>2, <1>6, <1>7, <1>8, <1>9

\* The fields of the record.
LEMMA NetFields ==
  ASSUME NEW n \in Nets
  PROVE  /\ n.status \in [Agents -> {"idle", "running", "parked", "aborted"}]
         /\ n.session \in [Agents -> {"live", "disposed", "none"}]
         /\ n.steered \in [Agents -> SUBSET Ids] /\ n.asides \in [Agents -> Seq(Ids)]
         /\ n.revival \in [Agents -> Seq(Ids)] /\ n.mail \in [Agents -> Seq(Ids)]
         /\ n.waiters \in [Agents -> Seq(Waiters)] /\ n.call \in [Agents -> Calls]
         /\ n.collector \in Collectors
         /\ n.sent \in Seq(Messages) /\ n.receipt \in [Ids -> Receipts]
         /\ n.due \in SUBSET Ids /\ n.dropped \in SUBSET Ids /\ n.shown \in [Ids -> Nat]
BY DEF Nets

\* The numbers of messages.
LEMMA Numbers ==
  /\ MaxMessages \in Nat /\ NoId \notin Ids /\ Ids \subseteq Nat
  /\ None \notin Agents
BY BusAssumption DEF NoId, Ids

\* What was sent goes from an agent to an agent.
LEMMA SentFacts ==
  ASSUME NEW n \in Nets, NEW i \in Sent(n)
  PROVE  /\ n.sent[i] \in Messages /\ n.sent[i].from \in Agents /\ n.sent[i].to \in Agents
         /\ n.sent[i].awaited \in BOOLEAN /\ n.sent[i].re \in Nat
<1>1. n.sent[i] \in Messages
  BY NetFields DEF Sent
<1> QED
  BY <1>1 DEF Messages

\* The messages stay where they are.
LEMMA MailKept ==
  ASSUME NEW t, NEW n, NEW R, Mail(t, R), SameMail(n, t),
         \A a \in Agents : Got(n, a) = Got(t, a),
         \A a \in Agents : t.status[a] = "aborted" => n.status[a] = "aborted",
         \A i \in Sent(t) : t.sent[i].to \in Agents
  PROVE  Mail(n, R)
<1>1. Sent(n) = Sent(t) /\ \A a : To(n, a) = To(t, a) /\ Pending(n, a) = Pending(t, a)
  BY DEF SameMail, Sent, To, Pending
<1>2. Placed(n, R)
  BY <1>1 DEF Mail, Placed, SameMail
<1>3. Single(n)
  BY DEF Mail, Single, SameMail
<1>4. Counted(n, R)
  BY <1>1 DEF Mail, Counted, SameMail
<1>5. Promised(n)
  BY <1>1 DEF Mail, Promised, SameMail
<1> QED
  BY <1>2, <1>3, <1>4, <1>5 DEF Mail

-----------------------------------------------------------------------------
\* A list of waiters without one of them.
LEMMA FewerWaiters ==
  ASSUME NEW ws \in Seq(Waiters), OneTool(ws), NEW k \in 1..Len(ws), NEW r, r = RemoveAt(ws, k)
  PROVE  /\ r \in Seq(Waiters) /\ ToSet(r) \subseteq ToSet(ws) /\ OneTool(r)
         /\ ws[k] \in ToSet(ws)
         /\ ws[k].owner = "tool" => \A w \in ToSet(r) : w.owner # "tool"
<1>1. /\ r \in Seq(Waiters) /\ Len(r) = Len(ws) - 1
      /\ \A i \in 1..Len(r) : r[i] = ws[IF i < k THEN i ELSE i + 1]
  BY RemovedAt
<1>2. /\ Len(r) \in Nat /\ Len(ws) \in Nat /\ k \in Nat
      /\ \A x : x \in ToSet(r) <=> \E i \in 1..Len(r) : r[i] = x
  BY <1>1, Elements
<1>3. PICK h : h = [i \in 1..Len(r) |-> IF i < k THEN i ELSE i + 1]
  OBVIOUS
<1>4. \A i \in 1..Len(r) : h[i] \in 1..Len(ws) /\ h[i] # k /\ r[i] = ws[h[i]]
  BY <1>1, <1>2, <1>3
<1>5. \A i, j \in 1..Len(r) : h[i] = h[j] => i = j
  BY <1>1, <1>2, <1>3
<1>6. OneTool(r)
  <2>1. ASSUME NEW a \in 1..Len(r), NEW b \in 1..Len(r), r[a].owner = "tool", r[b].owner = "tool"
        PROVE  a = b
    <3>1. PICK x, y \in 1..Len(ws) : x = h[a] /\ y = h[b] /\ r[a] = ws[x] /\ r[b] = ws[y]
      BY <1>4
    <3>2. x = y
      BY <2>1, <3>1 DEF OneTool
    <3> QED
      BY <1>5, <3>1, <3>2
  <2> QED
    BY <2>1 DEF OneTool
<1>7. ToSet(r) \subseteq ToSet(ws)
  BY RemovedSet
<1>8. ws[k] \in ToSet(ws)
  BY Elements
<1>9. ASSUME ws[k].owner = "tool" PROVE \A w \in ToSet(r) : w.owner # "tool"
  BY <1>2, <1>4, <1>9 DEF OneTool
<1> QED
  BY <1>1, <1>6, <1>7, <1>8, <1>9

\* Withdrawing the waiter of a tool call leaves none of a tool call.
LEMMA WithdrawFacts ==
  ASSUME NEW ws \in Seq(Waiters), OneTool(ws), NEW r, r = Withdraw(ws)
  PROVE  /\ r \in Seq(Waiters) /\ ToSet(r) \subseteq ToSet(ws) /\ OneTool(r)
         /\ \A w \in ToSet(r) : w.owner # "tool"
<1>1. PICK I : I = {i \in 1..Len(ws) : ws[i].owner = "tool"}
  OBVIOUS
<1>2. r = IF I = {} THEN ws ELSE RemoveAt(ws, Min(I))
  <2>1. I # {} => Min(I) \in I
    <3>1. I \in SUBSET Nat
      BY <1>1
    <3> QED
      BY <3>1, MinFacts
  <2>2. SelectInSeq(ws, LAMBDA w : w.owner = "tool") = IF I # {} THEN Min(I) ELSE 0
    BY <1>1 DEF SelectInSeq
  <2>3. I # {} => Min(I) # 0
    BY <1>1, <2>1
  <2> QED
    BY <2>2, <2>3 DEF Withdraw
<1>3. CASE I = {}
  <2>1. \A w \in ToSet(ws) : w.owner # "tool"
    BY <1>1, <1>3, Elements
  <2> QED
    BY <1>2, <1>3, <2>1
<1>4. CASE I # {}
  <2>1. PICK k : k = Min(I)
    OBVIOUS
  <2>2. k \in 1..Len(ws) /\ ws[k].owner = "tool"
    <3>1. I \in SUBSET Nat
      BY <1>1
    <3> QED
      BY <1>1, <1>4, <2>1, <3>1, MinFacts
  <2>3. r = RemoveAt(ws, k)
    BY <1>2, <1>4, <2>1
  <2> QED
    BY <2>2, <2>3, FewerWaiters
<1> QED
  BY <1>3, <1>4

\* The oldest waiter that accepts a message.
LEMMA MatchingFacts ==
  ASSUME NEW n \in Nets, NEW i \in Sent(n), NEW k, k = MatchingWaiter(n, i), k # 0
  PROVE  /\ k \in 1..Len(n.waiters[n.sent[i].to])
         /\ n.waiters[n.sent[i].to][k].from \in {None, n.sent[i].from}
<1>1. PICK ws : ws = n.waiters[n.sent[i].to]
  OBVIOUS
<1>2. PICK I : I = {j \in 1..Len(ws) : ws[j].from \in {None, n.sent[i].from}}
  OBVIOUS
<1>3. k = IF I # {} THEN Min(I) ELSE 0
  BY <1>1, <1>2 DEF MatchingWaiter, SelectInSeq
<1>4. I \in SUBSET Nat
  BY <1>2
<1> QED
  BY <1>1, <1>2, <1>3, <1>4, MinFacts, ZenonT(60)

\* The first message of a queue that a filter accepts.
LEMMA FirstFacts ==
  ASSUME NEW n, NEW q \in Seq(Ids), NEW from, NEW k, k = FirstFrom(n, q, from), k # 0
  PROVE  k \in 1..Len(q)
<1>1. PICK I : I = {j \in 1..Len(q) : from \in {None, n.sent[q[j]].from}}
  OBVIOUS
<1>2. k = IF I # {} THEN Min(I) ELSE 0
  BY <1>1 DEF FirstFrom, SelectInSeq
<1>3. I \in SUBSET Nat
  BY <1>1
<1> QED
  BY <1>1, <1>2, <1>3, MinFacts

\* A call that is over.
LEMMA NoCallFacts ==
  /\ NoCall \in Calls /\ NoCall.kind = "none" /\ ~NoCall.open /\ NoCall.got = NoId
  /\ NoCall.id = NoId
BY DEF NoCall, Calls

\* Ending the waits that are in vain leaves none, and touches no message.
LEMMA AbortOrphansKeeps ==
  ASSUME NEW R, NEW t, Fit(t, R), NEW n, n = AbortOrphans(t)
  PROVE  /\ Fit(n, R) /\ Calm(n) /\ SameMail(n, t) /\ Milder(n, t)
         /\ n.status = t.status /\ n.session = t.session /\ n.collector = t.collector
         /\ \A a \in Agents : /\ Got(n, a) = Got(t, a)
                              /\ n.call[a] = t.call[a] \/ n.call[a] = NoCall
<1>1. /\ t \in Nets /\ Mail(t, R) /\ Calling(t, R) /\ Gathering(t)
      /\ t.waiters \in [Agents -> Seq(Waiters)] /\ t.call \in [Agents -> Calls]
  BY NetFields DEF Fit
<1>2. PICK W : W = [a \in Agents |-> IF Orphaned(t, a) THEN Withdraw(t.waiters[a]) ELSE t.waiters[a]]
  OBVIOUS
<1>3. PICK C : C = [a \in Agents |-> IF Orphaned(t, a) THEN NoCall ELSE t.call[a]]
  OBVIOUS
<1>4. n = [t EXCEPT !.waiters = W, !.call = C]
  BY <1>1, <1>2, <1>3 DEF AbortOrphans, Nets
<1>5. ASSUME NEW a \in Agents
      PROVE  /\ W[a] \in Seq(Waiters) /\ ToSet(W[a]) \subseteq ToSet(t.waiters[a]) /\ OneTool(W[a])
             /\ C[a] \in Calls
             /\ Orphaned(t, a) => \A w \in ToSet(W[a]) : w.owner # "tool"
  <2>1. t.waiters[a] \in Seq(Waiters) /\ OneTool(t.waiters[a]) /\ t.call[a] \in Calls
    BY <1>1 DEF Calling, WaitersFit
  <2>2. CASE Orphaned(t, a)
    <3>1. W[a] = Withdraw(t.waiters[a]) /\ C[a] = NoCall
      BY <1>2, <1>3, <2>2
    <3> QED
      BY <2>1, <3>1, WithdrawFacts, NoCallFacts
  <2>3. CASE ~Orphaned(t, a)
    BY <1>2, <1>3, <2>1, <2>3
  <2> QED
    BY <2>2, <2>3
<1>6. W \in [Agents -> Seq(Waiters)] /\ C \in [Agents -> Calls]
  BY <1>2, <1>3, <1>5
<1>7. /\ n \in Nets /\ n.waiters = W /\ n.call = C
      /\ n.status = t.status /\ n.session = t.session /\ n.collector = t.collector
      /\ SameMail(n, t)
  BY <1>1, <1>4, <1>6 DEF Nets, SameMail
<1>8. ASSUME NEW a \in Agents, Orphaned(t, a)
      PROVE  \E w \in ToSet(t.waiters[a]) : w.guarded /\ w.owner = "tool" /\ t.call[a].open
             /\ Got(t, a) = NoId
  <2>1. PICK k \in DOMAIN t.waiters[a] : t.waiters[a][k].guarded
    BY <1>8 DEF Orphaned
  <2>2. t.waiters[a][k] \in ToSet(t.waiters[a])
    BY <2>1 DEF ToSet
  <2>3. WaitersFit(t, a) /\ CallFits(t, R, a)
    BY <1>1 DEF Calling
  <2> QED
    BY <2>1, <2>2, <2>3 DEF WaitersFit, CallFits
<1>9. ASSUME NEW a \in Agents
      PROVE  Got(n, a) = Got(t, a) /\ (n.call[a] = t.call[a] \/ n.call[a] = NoCall)
  <2>1. CASE Orphaned(t, a)
    BY <1>3, <1>7, <1>8, <2>1, NoCallFacts DEF Got
  <2>2. CASE ~Orphaned(t, a)
    BY <1>3, <1>7, <2>2 DEF Got
  <2> QED
    BY <2>1, <2>2
<1>10. Mail(n, R)
  <2>1. \A i \in Sent(t) : t.sent[i].to \in Agents
    BY <1>1, SentFacts
  <2> QED
    BY <1>1, <1>7, <1>9, <2>1, MailKept
<1>11. Sent(n) = Sent(t)
  BY <1>7 DEF SameMail, Sent
<1>12. ASSUME NEW a \in Agents PROVE CallFits(n, R, a) /\ WaitersFit(n, a)
  <2>1. WaitersFit(t, a) /\ CallFits(t, R, a)
    BY <1>1 DEF Calling
  <2>2. CASE Orphaned(t, a)
    <3>1. n.call[a] = NoCall
      BY <1>3, <1>7, <2>2
    <3>2. CallFits(n, R, a)
      BY <3>1, NoCallFacts DEF CallFits, Got
    <3>3. WaitersFit(n, a)
      BY <1>5, <1>7, <2>1, <2>2 DEF WaitersFit
    <3> QED
      BY <3>2, <3>3
  <2>3. CASE ~Orphaned(t, a)
    <3>1. n.call[a] = t.call[a] /\ n.waiters[a] = t.waiters[a]
      BY <1>2, <1>3, <1>7, <2>3
    <3>2. CallFits(n, R, a)
      BY <1>7, <1>11, <2>1, <3>1 DEF CallFits, Got, SameMail
    <3>3. WaitersFit(n, a)
      BY <1>7, <1>11, <2>1, <3>1 DEF WaitersFit, SameMail
    <3> QED
      BY <3>2, <3>3
  <2> QED
    BY <2>2, <2>3
<1>13. Gathering(n)
  BY <1>1, <1>7, <1>11 DEF Gathering
<1>14. ASSUME NEW a \in Agents, Orphaned(n, a) PROVE FALSE
  <2>1. PICK k \in DOMAIN n.waiters[a] : /\ n.waiters[a][k].guarded
                                         /\ ~HasRunningSender(n, a, n.waiters[a][k].from)
    BY <1>14 DEF Orphaned
  <2>2. \A from : HasRunningSender(n, a, from) <=> HasRunningSender(t, a, from)
    BY <1>7 DEF HasRunningSender
  <2>3. n.waiters[a][k] \in ToSet(n.waiters[a])
    BY <2>1 DEF ToSet
  <2>4. CASE Orphaned(t, a)
    <3>1. n.waiters[a][k].owner # "tool"
      BY <1>5, <1>7, <2>3, <2>4
    <3>2. WaitersFit(n, a)
      BY <1>12
    <3> QED
      BY <2>1, <2>3, <3>1, <3>2 DEF WaitersFit
  <2>5. CASE ~Orphaned(t, a)
    <3>1. n.waiters[a] = t.waiters[a]
      BY <1>2, <1>7, <2>5
    <3> QED
      BY <2>1, <2>2, <2>5, <3>1 DEF Orphaned
  <2> QED
    BY <2>4, <2>5
<1>15. Milder(n, t)
  BY <1>9, NoCallFacts DEF Milder
<1> QED
  BY <1>7, <1>9, <1>10, <1>12, <1>13, <1>14, <1>15 DEF Fit, Calling, Calm

\* The record whose status of a is s.
WithStatus(t, a, s) == [t EXCEPT !.status[a] = s]

\* An agent gets a status that goes with its session and its call.
LEMMA SetStatusKeeps ==
  ASSUME NEW R, NEW t, Fit(t, R), NEW a \in Agents,
         NEW s \in {"idle", "running", "parked", "aborted"}, NEW n, n = SetStatus(t, a, s),
         \A b \in Agents \ {a} : Lives(t, b),
         t.status[a] = "aborted" => s = "aborted",
         t.call[a].kind # "none" => s = "running",
         s = "running" => t.session[a] = "live",
         t.session[a] = "none" <=> s \in {"parked", "aborted"},
         t.revival[a] # <<>> => s = "parked"
  PROVE  /\ Whole(n, R) /\ SameMail(n, t) /\ Milder(n, t)
         /\ n.status[a] = s /\ \A b \in Agents \ {a} : n.status[b] = t.status[b]
         /\ n.session = t.session /\ n.collector = t.collector
         /\ \A b \in Agents : /\ Got(n, b) = Got(t, b)
                              /\ n.call[b] = t.call[b] \/ n.call[b] = NoCall
<1>1. PICK u : u = WithStatus(t, a, s)
  OBVIOUS
<1>2. t \in Nets /\ t.status \in [Agents -> {"idle", "running", "parked", "aborted"}]
  BY NetFields DEF Fit
<1>3. /\ u \in Nets /\ u.status = [t.status EXCEPT ![a] = s]
      /\ u.waiters = t.waiters /\ u.call = t.call /\ u.session = t.session
      /\ u.collector = t.collector /\ SameMail(u, t)
  BY <1>1, <1>2 DEF WithStatus, Nets, SameMail
<1>4. u.status[a] = s /\ \A b \in Agents \ {a} : u.status[b] = t.status[b]
  BY <1>2, <1>3
<1>5. n = AbortOrphans(u)
  BY <1>1 DEF SetStatus, WithStatus
<1>6. Mail(u, R)
  <2>1. \A b \in Agents : Got(u, b) = Got(t, b)
    BY <1>3 DEF Got
  <2>2. \A b \in Agents : t.status[b] = "aborted" => u.status[b] = "aborted"
    BY <1>4
  <2>3. \A i \in Sent(t) : t.sent[i].to \in Agents
    BY <1>2, SentFacts
  <2> QED
    BY <1>3, <2>1, <2>2, <2>3, MailKept DEF Fit
<1>7. Sent(u) = Sent(t)
  BY <1>3 DEF SameMail, Sent
<1>8. ASSUME NEW b \in Agents PROVE CallFits(u, R, b) /\ WaitersFit(u, b)
  <2>1. CallFits(t, R, b) /\ WaitersFit(t, b)
    BY DEF Fit, Calling
  <2>2. CallFits(u, R, b)
    <3>1. u.call[b].kind # "none" => u.status[b] = "running"
      BY <1>3, <1>4, <2>1 DEF CallFits
    <3> QED
      BY <1>3, <1>7, <2>1, <3>1 DEF CallFits, Got, SameMail
  <2>3. WaitersFit(u, b)
    BY <1>3, <2>1 DEF WaitersFit, SameMail
  <2> QED
    BY <2>2, <2>3
<1>9. Gathering(u)
  BY <1>3, <1>7 DEF Fit, Gathering
<1>10. Fit(u, R)
  BY <1>3, <1>6, <1>8, <1>9 DEF Fit, Calling
<1>11. /\ Fit(n, R) /\ Calm(n) /\ SameMail(n, u) /\ Milder(n, u)
       /\ n.status = u.status /\ n.session = u.session /\ n.collector = u.collector
       /\ \A b \in Agents : /\ Got(n, b) = Got(u, b)
                            /\ n.call[b] = u.call[b] \/ n.call[b] = NoCall
  BY <1>5, <1>10, AbortOrphansKeeps
<1>12. SameMail(n, t)
  BY <1>3, <1>11 DEF SameMail
<1>13. ASSUME NEW b \in Agents PROVE Lives(n, b)
  <2>1. n.revival = t.revival
    BY <1>12 DEF SameMail
  <2>2. CASE b = a
    BY <1>3, <1>4, <1>11, <2>1, <2>2 DEF Lives
  <2>3. CASE b # a
    BY <1>3, <1>4, <1>11, <2>1, <2>3 DEF Lives
  <2> QED
    BY <2>2, <2>3
<1>14. Milder(n, t)
  BY <1>3, <1>11 DEF Milder
<1>15. \A b \in Agents : /\ Got(n, b) = Got(t, b)
                         /\ n.call[b] = t.call[b] \/ n.call[b] = NoCall
  BY <1>3, <1>11 DEF Got
<1> QED
  BY <1>3, <1>4, <1>11, <1>12, <1>13, <1>14, <1>15 DEF Whole, Living

\* n differs from t in what became of message i; a mailbox may have lost another one.
Others(n, t, i) ==
  /\ n.sent = t.sent /\ n.due \subseteq t.due \cup {i} /\ t.dropped \subseteq n.dropped
  /\ \A j \in Ids \ {i} : n.receipt[j] = t.receipt[j] /\ n.shown[j] = t.shown[j]
  /\ \A a \in Agents : \A j \in Ids \ {i} :
       /\ j \in Pending(n, a) <=> j \in Pending(t, a)
       /\ j \in ToSet(n.revival[a]) <=> j \in ToSet(t.revival[a])
       /\ j \in ToSet(n.mail[a]) => j \in ToSet(t.mail[a])
       /\ j \in ToSet(t.mail[a]) => j \in ToSet(n.mail[a]) \cup n.dropped
       /\ j = Got(n, a) <=> j = Got(t, a)
  /\ \A a \in Agents : t.status[a] = "aborted" => n.status[a] = "aborted"

\* Message i is where its receipt says.
AtRest(n, i) ==
  LET to == n.sent[i].to IN
  /\ n.receipt[i] # "none" /\ n.shown[i] <= 1
  /\ n.receipt[i] \in {"reviving", "failed"} => n.shown[i] = 0
  /\ \A a \in Agents :
       /\ i \in Pending(n, a) => a = to /\ n.receipt[i] = "delivered" /\ n.shown[i] = 0
       /\ i \in ToSet(n.mail[a]) => a = to /\ n.receipt[i] = "unseen" /\ n.shown[i] = 0
       /\ i \in ToSet(n.revival[a]) => a = to /\ n.receipt[i] = "reviving"
       /\ i = Got(n, a) => /\ a = to /\ i \notin Pending(n, a)
                           /\ n.receipt[i] = "delivered" /\ n.shown[i] = 0
  /\ n.receipt[i] = "reviving" => i \in ToSet(n.revival[to])
  /\ n.receipt[i] = "delivered" =>
       n.shown[i] > 0 \/ i \in Pending(n, to) \/ i = Got(n, to) \/ n.status[to] = "aborted"
  /\ n.receipt[i] = "unseen" => n.shown[i] > 0 \/ i \in ToSet(n.mail[to]) \/ i \in n.dropped

\* What is held somewhere are numbers of messages.
LEMMA HeldFacts ==
  ASSUME NEW n \in Nets, NEW a \in Agents
  PROVE  /\ Pending(n, a) \in SUBSET Ids /\ ToSet(n.mail[a]) \in SUBSET Ids
         /\ ToSet(n.revival[a]) \in SUBSET Ids /\ ToSet(n.asides[a]) \in SUBSET Ids
         /\ Got(n, a) \in Ids \cup {NoId}
<1>1. /\ n.steered[a] \in SUBSET Ids /\ n.asides[a] \in Seq(Ids) /\ n.mail[a] \in Seq(Ids)
      /\ n.revival[a] \in Seq(Ids) /\ n.call[a] \in Calls
  BY NetFields
<1>2. ToSet(n.asides[a]) \in SUBSET Ids /\ ToSet(n.mail[a]) \in SUBSET Ids
      /\ ToSet(n.revival[a]) \in SUBSET Ids
  BY <1>1, Elements
<1> QED
  BY <1>1, <1>2 DEF Pending, Got, Calls

\* A message that is being sent is nowhere yet.
LEMMA NowhereYet ==
  ASSUME NEW R, NEW t \in Nets, Mail(t, R), NEW i \in R
  PROVE  /\ i \in Sent(t) /\ i \in Ids /\ t.shown[i] = 0 /\ t.receipt[i] \in {"none", "reviving"}
         /\ t.sent[i].to \in Agents /\ t.sent[i].from \in Agents /\ i # NoId
         /\ \A a \in Agents : /\ i \notin Pending(t, a) /\ i \notin ToSet(t.mail[a])
                              /\ i \notin ToSet(t.revival[a]) /\ i # Got(t, a)
<1>1. /\ i \in Sent(t) /\ i \in Ids /\ t.receipt[i] \in {"none", "reviving"}
      /\ i \notin ToSet(t.revival[t.sent[i].to])
  BY DEF Mail, Counted
<1>2. t.shown[i] = 0
  BY <1>1 DEF Mail, Placed
<1>3. t.sent[i].to \in Agents /\ t.sent[i].from \in Agents /\ i # NoId
  BY <1>1, SentFacts, Numbers
<1>4. ASSUME NEW a \in Agents
      PROVE  /\ i \notin Pending(t, a) /\ i \notin ToSet(t.mail[a])
             /\ i \notin ToSet(t.revival[a]) /\ i # Got(t, a)
  <2>1. i \notin Pending(t, a) /\ i \notin ToSet(t.mail[a]) /\ i # Got(t, a)
    BY <1>1, <1>3 DEF Mail, Placed
  <2>2. i \in ToSet(t.revival[a]) => t.sent[i].to = a
    BY DEF Mail, Placed, To
  <2> QED
    BY <1>1, <2>1, <2>2
<1> QED
  BY <1>1, <1>2, <1>3, <1>4

\* When i is at rest and the other messages are where they were, the mail is in order.
LEMMA MailFiled ==
  ASSUME NEW R, NEW t \in Nets, Mail(t, R), NEW i \in R,
         NEW n \in Nets, Others(n, t, i), AtRest(n, i), Single(n)
  PROVE  Mail(n, R \ {i})
<1>1. /\ i \in Sent(t) /\ i \in Ids /\ i # NoId /\ t.sent[i].to \in Agents
      /\ Sent(n) = Sent(t) /\ n.sent = t.sent /\ \A a : To(n, a) = To(t, a)
  BY NowhereYet DEF Others, Sent, To
<1>2. Sent(t) \subseteq Ids /\ R \subseteq Sent(t)
  BY DEF Mail, Counted
<1>3. Placed(n, R \ {i})
  <2>1. ASSUME NEW a \in Agents, NEW j \in Pending(n, a)
        PROVE  j \in To(n, a) /\ n.receipt[j] = "delivered" /\ n.shown[j] = 0
    <3>1. j \in Ids
      BY <2>1, HeldFacts
    <3>2. CASE j = i
      BY <1>1, <2>1, <3>2 DEF AtRest, To
    <3>3. CASE j # i
      BY <1>1, <2>1, <3>1, <3>3 DEF Others, Mail, Placed
    <3> QED
      BY <3>2, <3>3
  <2>2. ASSUME NEW a \in Agents, NEW j \in ToSet(n.mail[a])
        PROVE  j \in To(n, a) /\ n.receipt[j] = "unseen" /\ n.shown[j] = 0
    <3>1. j \in Ids
      BY <2>2, HeldFacts
    <3>2. CASE j = i
      BY <1>1, <2>2, <3>2 DEF AtRest, To
    <3>3. CASE j # i
      BY <1>1, <2>2, <3>1, <3>3 DEF Others, Mail, Placed
    <3> QED
      BY <3>2, <3>3
  <2>3. ASSUME NEW a \in Agents, NEW j \in ToSet(n.revival[a])
        PROVE  j \in To(n, a) /\ n.receipt[j] = "reviving"
    <3>1. j \in Ids
      BY <2>3, HeldFacts
    <3>2. CASE j = i
      BY <1>1, <2>3, <3>2 DEF AtRest, To
    <3>3. CASE j # i
      BY <1>1, <2>3, <3>1, <3>3 DEF Others, Mail, Placed
    <3> QED
      BY <3>2, <3>3
  <2>4. ASSUME NEW a \in Agents, Got(n, a) # NoId
        PROVE  /\ Got(n, a) \in To(n, a) \ Pending(n, a)
               /\ n.receipt[Got(n, a)] = "delivered" /\ n.shown[Got(n, a)] = 0
    <3>1. PICK j : j = Got(n, a)
      OBVIOUS
    <3>2. j \in Ids
      BY <2>4, <3>1, HeldFacts
    <3>3. CASE j = i
      BY <1>1, <3>1, <3>3 DEF AtRest, To
    <3>4. CASE j # i
      <4>1. j = Got(t, a)
        BY <3>1, <3>2, <3>4 DEF Others
      <4> QED
        BY <1>1, <2>4, <3>1, <3>2, <3>4, <4>1 DEF Others, Mail, Placed
    <3> QED
      BY <3>1, <3>3, <3>4
  <2>5. ASSUME NEW j \in Ids
        PROVE  /\ n.shown[j] <= 1
               /\ n.receipt[j] \in {"none", "reviving", "failed"} => n.shown[j] = 0
    <3>1. CASE j = i
      BY <3>1 DEF AtRest
    <3>2. CASE j # i
      BY <3>2 DEF Others, Mail, Placed
    <3> QED
      BY <3>1, <3>2
  <2> QED
    BY <2>1, <2>2, <2>3, <2>4, <2>5 DEF Placed
<1>4. Counted(n, R \ {i})
  <2>1. n.due \subseteq Sent(n)
    BY <1>1 DEF Others, Mail, Counted
  <2>2. \A j \in Ids \ Sent(n) : n.receipt[j] = "none"
    BY <1>1 DEF Others, Mail, Counted
  <2>3. ASSUME NEW j \in R \ {i}
        PROVE  /\ n.receipt[j] \in {"none", "reviving"}
               /\ j \notin ToSet(n.revival[n.sent[j].to])
    <3>1. j \in Ids /\ t.sent[j].to \in Agents
      BY <1>2, SentFacts
    <3> QED
      BY <1>1, <3>1 DEF Others, Mail, Counted
  <2>4. ASSUME NEW j \in Sent(n), n.receipt[j] = "reviving"
        PROVE  j \in (R \ {i}) \cup ToSet(n.revival[n.sent[j].to])
    <3>1. j \in Ids /\ t.sent[j].to \in Agents
      BY <1>1, <1>2, SentFacts
    <3>2. CASE j = i
      BY <2>4, <3>2 DEF AtRest
    <3>3. CASE j # i
      BY <1>1, <2>4, <3>1, <3>3 DEF Others, Mail, Counted
    <3> QED
      BY <3>2, <3>3
  <2> QED
    BY <1>1, <1>2, <2>1, <2>2, <2>3, <2>4 DEF Counted
<1>5. Promised(n)
  <2> SUFFICES ASSUME NEW j \in Sent(n), NEW to, to = n.sent[j].to
               PROVE  /\ n.receipt[j] = "delivered" =>
                           \/ n.shown[j] > 0 \/ j \in Pending(n, to) \/ j = Got(n, to)
                           \/ n.status[to] = "aborted"
                      /\ n.receipt[j] = "unseen" =>
                           n.shown[j] > 0 \/ j \in ToSet(n.mail[to]) \/ j \in n.dropped
    BY DEF Promised
  <2>1. j \in Ids /\ to \in Agents /\ to = t.sent[j].to
    BY <1>1, <1>2, SentFacts
  <2>2. CASE j = i
    BY <2>2 DEF AtRest
  <2>3. CASE j # i
    <3>1. /\ t.receipt[j] = "delivered" => \/ t.shown[j] > 0 \/ j \in Pending(t, to)
                                           \/ j = Got(t, to) \/ t.status[to] = "aborted"
          /\ t.receipt[j] = "unseen" =>
               t.shown[j] > 0 \/ j \in ToSet(t.mail[to]) \/ j \in t.dropped
      BY <1>1, <2>1 DEF Mail, Promised
    <3> QED
      BY <2>1, <2>3, <3>1 DEF Others
  <2> QED
    BY <2>2, <2>3
<1> QED
  BY <1>3, <1>4, <1>5 DEF Mail

\* The calls fit when only message i got a receipt.
LEMMA CallsFiled ==
  ASSUME NEW R, NEW t \in Nets, Mail(t, R), Calling(t, R), NEW i \in R, NEW n \in Nets,
         n.sent = t.sent, n.receipt[i] # "none", \A j \in Ids \ {i} : n.receipt[j] = t.receipt[j],
         n.call = t.call, n.waiters = t.waiters,
         \A a \in Agents : t.status[a] = "running" => n.status[a] = "running"
  PROVE  Calling(n, R \ {i})
<1>1. Sent(n) = Sent(t) /\ Sent(t) \subseteq Ids /\ t.receipt[i] \in {"none", "reviving"}
  BY DEF Sent, Mail, Counted
<1>2. ASSUME NEW a \in Agents PROVE CallFits(n, R \ {i}, a) /\ WaitersFit(n, a)
  <2>1. CallFits(t, R, a) /\ WaitersFit(t, a)
    BY DEF Calling
  <2>2. WaitersFit(n, a)
    BY <2>1 DEF WaitersFit
  <2>3. CallFits(n, R \ {i}, a)
    BY <1>1, <2>1 DEF CallFits, Got
  <2> QED
    BY <2>2, <2>3
<1> QED
  BY <1>2 DEF Calling

\* What sending message i leaves: the others are where they were, and calls go on or are over.
Passed(n, t, R, i) ==
  /\ Whole(n, R \ {i}) /\ n.sent = t.sent /\ Milder(n, t)
  /\ \A j \in Ids \ {i} : n.receipt[j] = t.receipt[j]

\* Nobody waits in vain when there are no new waits that end by themselves.
LEMMA CalmKept ==
  ASSUME NEW t, Calm(t), NEW n, \A a \in Agents : n.status[a] = t.status[a],
         \A a \in Agents : t.waiters[a] \in Seq(Waiters) /\ n.waiters[a] \in Seq(Waiters),
         \A a \in Agents : \A w \in ToSet(n.waiters[a]) : w.guarded => w \in ToSet(t.waiters[a])
  PROVE  Calm(n)
<1> SUFFICES ASSUME NEW a \in Agents, Orphaned(n, a) PROVE FALSE
  BY DEF Calm
<1>1. PICK k \in DOMAIN n.waiters[a] : /\ n.waiters[a][k].guarded
                                       /\ ~HasRunningSender(n, a, n.waiters[a][k].from)
  BY DEF Orphaned
<1>2. n.waiters[a][k] \in ToSet(n.waiters[a])
  BY <1>1 DEF ToSet
<1>3. n.waiters[a][k] \in ToSet(t.waiters[a])
  BY <1>1, <1>2
<1>4. PICK l \in DOMAIN t.waiters[a] : t.waiters[a][l] = n.waiters[a][k]
  BY <1>3 DEF ToSet
<1>5. ~HasRunningSender(t, a, n.waiters[a][k].from)
  BY <1>1 DEF HasRunningSender
<1> QED
  BY <1>1, <1>4, <1>5 DEF Calm, Orphaned

\* Message i is filed, and nothing else changes.
LEMMA FiledQuietly ==
  ASSUME NEW R, NEW t, Whole(t, R), NEW i \in R,
         NEW n \in Nets, Others(n, t, i), AtRest(n, i), Single(n),
         n.call = t.call, n.waiters = t.waiters, n.status = t.status, n.session = t.session,
         n.collector = t.collector,
         \A a \in Agents : n.revival[a] # <<>> => t.revival[a] # <<>> \/ t.status[a] = "parked"
  PROVE  Passed(n, t, R, i)
<1>1. t \in Nets /\ Mail(t, R) /\ Calling(t, R) /\ Gathering(t) /\ Living(t) /\ Calm(t)
  BY DEF Whole, Fit
<1>2. Mail(n, R \ {i})
  BY <1>1, MailFiled
<1>3. /\ n.sent = t.sent /\ n.receipt[i] # "none"
      /\ \A j \in Ids \ {i} : n.receipt[j] = t.receipt[j]
  BY DEF Others, AtRest
<1>4. Calling(n, R \ {i})
  BY <1>1, <1>3, CallsFiled
<1>5. Gathering(n)
  BY <1>1, <1>3 DEF Gathering, Sent
<1>6. Living(n)
  BY <1>1 DEF Living, Lives
<1>7. Calm(n)
  <2>1. \A a \in Agents : t.waiters[a] \in Seq(Waiters)
    BY <1>1, NetFields
  <2> QED
    BY <1>1, <2>1, CalmKept
<1>8. Milder(n, t)
  BY DEF Milder
<1> QED
  BY <1>2, <1>3, <1>4, <1>5, <1>6, <1>7, <1>8 DEF Passed, Whole, Fit

\* A message that was shown and is held nowhere is at rest.
LEMMA AtRestShown ==
  ASSUME NEW n, NEW i, n.receipt[i] = "delivered", n.shown[i] = 1,
         \A a \in Agents : /\ i \notin Pending(n, a) /\ i \notin ToSet(n.mail[a])
                           /\ i \notin ToSet(n.revival[a]) /\ i # Got(n, a)
  PROVE  AtRest(n, i)
<1>1. \A a \in Agents :
        /\ i \in Pending(n, a) => a = n.sent[i].to /\ n.receipt[i] = "delivered" /\ n.shown[i] = 0
        /\ i \in ToSet(n.mail[a]) => a = n.sent[i].to /\ n.receipt[i] = "unseen" /\ n.shown[i] = 0
        /\ i \in ToSet(n.revival[a]) => a = n.sent[i].to /\ n.receipt[i] = "reviving"
        /\ i = Got(n, a) => /\ a = n.sent[i].to /\ i \notin Pending(n, a)
                            /\ n.receipt[i] = "delivered" /\ n.shown[i] = 0
  OBVIOUS
<1>2. /\ n.receipt[i] # "none" /\ n.receipt[i] # "unseen" /\ n.receipt[i] # "reviving"
      /\ ~ (n.receipt[i] \in {"reviving", "failed"})
  OBVIOUS
<1>3. n.shown[i] <= 1 /\ n.shown[i] > 0
  OBVIOUS
<1> QED
  BY <1>1, <1>2, <1>3 DEF AtRest

\* A message that is held in one place, where its receipt says, is at rest.
LEMMA AtRestHeld ==
  ASSUME NEW n, NEW i, NEW to, to = n.sent[i].to, n.shown[i] = 0,
         n.receipt[i] \in {"reviving", "delivered", "unseen", "failed"},
         \A a \in Agents : i \in Pending(n, a) => a = to /\ n.receipt[i] = "delivered",
         \A a \in Agents : i \in ToSet(n.mail[a]) => a = to /\ n.receipt[i] = "unseen",
         \A a \in Agents : i \in ToSet(n.revival[a]) => a = to /\ n.receipt[i] = "reviving",
         \A a \in Agents : i = Got(n, a) => /\ a = to /\ i \notin Pending(n, a)
                                            /\ n.receipt[i] = "delivered",
         n.receipt[i] = "reviving" => i \in ToSet(n.revival[to]),
         n.receipt[i] = "delivered" => i \in Pending(n, to) \/ i = Got(n, to),
         n.receipt[i] = "unseen" => i \in ToSet(n.mail[to]) \/ i \in n.dropped
  PROVE  AtRest(n, i)
<1>1. n.receipt[i] # "none" /\ n.shown[i] <= 1
  OBVIOUS
<1> QED
  BY <1>1 DEF AtRest

\* A message that is refused is nowhere.
LEMMA RefusedKeeps ==
  ASSUME NEW R, NEW t, Whole(t, R), NEW i \in R, NEW n, n = Receive(t, i, "failed")
  PROVE  Passed(n, t, R, i)
<1>1. t \in Nets /\ Mail(t, R) /\ t.receipt \in [Ids -> Receipts]
  BY NetFields DEF Whole, Fit
<1>2. /\ i \in Ids /\ t.shown[i] = 0 /\ t.sent[i].to \in Agents /\ i # NoId
      /\ \A a \in Agents : /\ i \notin Pending(t, a) /\ i \notin ToSet(t.mail[a])
                           /\ i \notin ToSet(t.revival[a]) /\ i # Got(t, a)
  BY <1>1, NowhereYet
<1>3. PICK r : r = [t.receipt EXCEPT ![i] = "failed"]
  OBVIOUS
<1>4. r \in [Ids -> Receipts] /\ r[i] = "failed" /\ \A j \in Ids \ {i} : r[j] = t.receipt[j]
  BY <1>1, <1>2, <1>3 DEF Receipts
<1>5. n = [t EXCEPT !.receipt = r]
  BY <1>1, <1>3 DEF Receive, Nets
<1>6. /\ n \in Nets /\ n.receipt = r /\ n.sent = t.sent /\ n.shown = t.shown
      /\ n.steered = t.steered /\ n.asides = t.asides /\ n.mail = t.mail
      /\ n.revival = t.revival /\ n.dropped = t.dropped /\ n.due = t.due
      /\ n.call = t.call /\ n.waiters = t.waiters /\ n.status = t.status
      /\ n.session = t.session /\ n.collector = t.collector
  BY <1>1, <1>4, <1>5 DEF Nets
<1>7. \A a \in Agents : Pending(n, a) = Pending(t, a) /\ Got(n, a) = Got(t, a)
  BY <1>6 DEF Pending, Got
<1>8. Others(n, t, i)
  BY <1>4, <1>6, <1>7 DEF Others
<1>9. AtRest(n, i)
  BY <1>2, <1>4, <1>6, <1>7 DEF AtRest
<1>10. Single(n)
  BY <1>1, <1>6 DEF Mail, Single
<1> QED
  BY <1>6, <1>8, <1>9, <1>10, FiledQuietly

\* A message that is shown at once is nowhere else.
LEMMA ShownKeeps ==
  ASSUME NEW R, NEW t, Whole(t, R), NEW i \in R, NEW n, n = Receive(Show(t, {i}), i, "delivered")
  PROVE  Passed(n, t, R, i)
<1>1. /\ t \in Nets /\ Mail(t, R) /\ t.receipt \in [Ids -> Receipts] /\ t.shown \in [Ids -> Nat]
  BY NetFields DEF Whole, Fit
<1>2. /\ i \in Ids /\ t.shown[i] = 0 /\ t.sent[i].to \in Agents /\ i # NoId
      /\ \A a \in Agents : /\ i \notin Pending(t, a) /\ i \notin ToSet(t.mail[a])
                           /\ i \notin ToSet(t.revival[a]) /\ i # Got(t, a)
  BY <1>1, NowhereYet
<1>3. PICK r : r = [t.receipt EXCEPT ![i] = "delivered"]
  OBVIOUS
<1>4. r \in [Ids -> Receipts] /\ r[i] = "delivered" /\ \A j \in Ids \ {i} : r[j] = t.receipt[j]
  BY <1>1, <1>2, <1>3 DEF Receipts
<1>11. PICK s : s = [j \in Ids |-> IF j \in {i} THEN t.shown[j] + 1 ELSE t.shown[j]]
  OBVIOUS
<1>12. s \in [Ids -> Nat] /\ s[i] = 1 /\ \A j \in Ids \ {i} : s[j] = t.shown[j]
  BY <1>1, <1>2, <1>11
<1>5. n = [t EXCEPT !.receipt = r, !.shown = s]
  BY <1>1, <1>3, <1>11 DEF Receive, Show, Nets
<1>6. /\ n \in Nets /\ n.receipt = r /\ n.sent = t.sent /\ n.shown = s
      /\ n.steered = t.steered /\ n.asides = t.asides /\ n.mail = t.mail
      /\ n.revival = t.revival /\ n.dropped = t.dropped /\ n.due = t.due
      /\ n.call = t.call /\ n.waiters = t.waiters /\ n.status = t.status
      /\ n.session = t.session /\ n.collector = t.collector
  BY <1>1, <1>4, <1>5, <1>12, ZenonT(60) DEF Nets
<1>7. \A a \in Agents : Pending(n, a) = Pending(t, a) /\ Got(n, a) = Got(t, a)
  BY <1>6 DEF Pending, Got
<1>8. Others(n, t, i)
  BY <1>4, <1>6, <1>7, <1>12 DEF Others
<1>9. AtRest(n, i)
  <2>1. n.receipt[i] = "delivered" /\ n.shown[i] = 1
    BY <1>4, <1>6, <1>12
  <2>2. \A a \in Agents : /\ i \notin Pending(n, a) /\ i \notin ToSet(n.mail[a])
                          /\ i \notin ToSet(n.revival[a]) /\ i # Got(n, a)
    BY <1>2, <1>6, <1>7
  <2> QED
    BY <2>1, <2>2, AtRestShown
<1>10. Single(n)
  BY <1>1, <1>6 DEF Mail, Single
<1> QED
  BY <1>6, <1>8, <1>9, <1>10, FiledQuietly

\* A queue of one of the agents with one message more.
Queues == [Agents -> Seq(Ids)]
Queued(f, a, i) == [f EXCEPT ![a] = Append(@, i)]

\* What appending a message does to one queue, and to no other.
LEMMA QueuedFacts ==
  ASSUME NEW f \in Queues, NEW a \in Agents, NEW i \in Ids,
         NEW b \in Agents, NEW g, g = Queued(f, a, i)
  PROVE  /\ g \in Queues
         /\ b # a => g[b] = f[b]
         /\ \A j : j \in ToSet(g[b]) <=> j \in ToSet(f[b]) \/ (b = a /\ j = i)
         /\ IsInjective(f[b]) /\ i \notin ToSet(f[a]) => IsInjective(g[b])
<1>0. PICK q : q = f[a]
  OBVIOUS
<1>1. q \in Seq(Ids)
  BY <1>0 DEF Queues
<1>2. PICK r : r = Extended(q, i)
  OBVIOUS
<1>3. /\ r \in Seq(Ids) /\ ToSet(r) = ToSet(q) \cup {i}
      /\ IsInjective(q) /\ i \notin ToSet(q) => IsInjective(r)
  BY <1>1, <1>2, AppendedSet
<1>4. g = [f EXCEPT ![a] = r]
  BY <1>0, <1>2 DEF Queued, Extended
<1>5. g \in Queues /\ g[a] = r /\ (b # a => g[b] = f[b])
  BY <1>3, <1>4 DEF Queues
<1>6. CASE b = a
  BY <1>0, <1>3, <1>5, <1>6
<1>7. CASE b # a
  BY <1>5, <1>7
<1> QED
  BY <1>5, <1>6, <1>7

\* A message to a parked agent awaits its revival.
LEMMA RevivingKeeps ==
  ASSUME NEW R, NEW t, Whole(t, R), NEW i \in R, t.status[t.sent[i].to] = "parked",
         NEW n, n = AwaitRevival(t, i)
  PROVE  Passed(n, t, R, i)
<1>1. /\ t \in Nets /\ Mail(t, R) /\ t.receipt \in [Ids -> Receipts]
      /\ t.revival \in [Agents -> Seq(Ids)]
  BY NetFields DEF Whole, Fit
<1>2. /\ i \in Ids /\ t.shown[i] = 0 /\ t.sent[i].to \in Agents /\ i # NoId
      /\ \A a \in Agents : /\ i \notin Pending(t, a) /\ i \notin ToSet(t.mail[a])
                           /\ i \notin ToSet(t.revival[a]) /\ i # Got(t, a)
  BY <1>1, NowhereYet
<1>13. PICK to : to = t.sent[i].to
  OBVIOUS
<1>3. PICK r : r = [t.receipt EXCEPT ![i] = "reviving"]
  OBVIOUS
<1>4. r \in [Ids -> Receipts] /\ r[i] = "reviving" /\ \A j \in Ids \ {i} : r[j] = t.receipt[j]
  BY <1>1, <1>2, <1>3 DEF Receipts
<1>11. PICK v : v = Queued(t.revival, to, i)
  OBVIOUS
<1>12. /\ v \in [Agents -> Seq(Ids)] /\ \A b \in Agents : IsInjective(v[b])
       /\ \A b \in Agents : \A j :
            j \in ToSet(v[b]) <=> j \in ToSet(t.revival[b]) \/ (b = to /\ j = i)
       /\ \A b \in Agents : b # to => v[b] = t.revival[b]
  <2>1. \A b \in Agents : IsInjective(t.revival[b])
    BY <1>1 DEF Mail, Single
  <2>2. PICK f : f = t.revival
    OBVIOUS
  <2>3. /\ f \in Queues /\ i \in Ids /\ to \in Agents /\ i \notin ToSet(f[to])
        /\ v = Queued(f, to, i)
    BY <1>1, <1>2, <1>11, <1>13, <2>2 DEF Queues
  <2>4. ASSUME NEW b \in Agents
        PROVE  /\ v \in Queues /\ IsInjective(v[b])
               /\ b # to => v[b] = t.revival[b]
               /\ \A j : j \in ToSet(v[b]) <=> j \in ToSet(t.revival[b]) \/ (b = to /\ j = i)
    <3>1. v \in Queues /\ (b # to => v[b] = f[b])
      BY <2>3, QueuedFacts
    <3>2. \A j : j \in ToSet(v[b]) <=> j \in ToSet(f[b]) \/ (b = to /\ j = i)
      BY <2>3, QueuedFacts
    <3>3. IsInjective(f[b]) /\ i \notin ToSet(f[to]) => IsInjective(v[b])
      BY <2>3, QueuedFacts
    <3> QED
      BY <2>1, <2>2, <2>3, <3>1, <3>2, <3>3
  <2> QED
    BY <1>2, <1>13, <2>4 DEF Queues
<1>5. n = [t EXCEPT !.receipt = r, !.revival = v]
  BY <1>1, <1>3, <1>11, <1>13 DEF AwaitRevival, Receive, Queued, Nets
<1>6. /\ n \in Nets /\ n.receipt = r /\ n.sent = t.sent /\ n.shown = t.shown
      /\ n.steered = t.steered /\ n.asides = t.asides /\ n.mail = t.mail
      /\ n.revival = v /\ n.dropped = t.dropped /\ n.due = t.due
      /\ n.call = t.call /\ n.waiters = t.waiters /\ n.status = t.status
      /\ n.session = t.session /\ n.collector = t.collector
  BY <1>1, <1>4, <1>5, <1>12, ZenonT(60) DEF Nets
<1>7. \A a \in Agents : Pending(n, a) = Pending(t, a) /\ Got(n, a) = Got(t, a)
  BY <1>6 DEF Pending, Got
<1>8. Others(n, t, i)
  BY <1>4, <1>6, <1>7, <1>12, <1>13 DEF Others
<1>9. AtRest(n, i)
  <2>1. n.sent[i].to = to /\ n.receipt[i] = "reviving" /\ n.shown[i] = 0
    BY <1>2, <1>4, <1>6, <1>13
  <2>2. \A a \in Agents : /\ i \notin Pending(n, a) /\ i \notin ToSet(n.mail[a])
                          /\ i # Got(n, a)
    BY <1>2, <1>6, <1>7
  <2>3. i \in ToSet(n.revival[to]) /\ \A a \in Agents : i \in ToSet(n.revival[a]) => a = to
    BY <1>2, <1>6, <1>12, <1>13
  <2> QED
    BY <2>1, <2>2, <2>3, AtRestHeld
<1>10. Single(n)
  BY <1>1, <1>6, <1>12 DEF Mail, Single
<1>14. \A a \in Agents : n.revival[a] # <<>> => t.revival[a] # <<>> \/ t.status[a] = "parked"
  BY <1>6, <1>12, <1>13
<1> QED
  BY <1>6, <1>8, <1>9, <1>10, <1>14, FiledQuietly

\* No tool call of agent a waits.
NoTool(n, a) == \A w \in ToSet(n.waiters[a]) : w.owner # "tool"

\* The call of agent a goes on as in t, or is over, or has no waiter any more.
CallLess(n, t, a) ==
  \/ n.call[a] = t.call[a]
  \/ n.call[a] = NoCall /\ Got(t, a) = NoId /\ NoTool(n, a)
  \/ /\ n.call[a].kind = t.call[a].kind /\ n.call[a].id = t.call[a].id
     /\ n.call[a].got = t.call[a].got /\ ~n.call[a].open /\ NoTool(n, a)

\* No agent waits in two tool calls; the waiters of n are waiters of t.
OneEach(n) == \A a \in Agents : OneTool(n.waiters[a])
Fewer(n, t) == \A a \in Agents : ToSet(n.waiters[a]) \subseteq ToSet(t.waiters[a])

\* Only waiters and calls went.
LEMMA CallsLess ==
  ASSUME NEW R, NEW t, Whole(t, R), NEW n \in Nets, SameMail(n, t), n.status = t.status,
         n.session = t.session, Gathering(n),
         Fewer(n, t), OneEach(n), \A a \in Agents : CallLess(n, t, a)
  PROVE  /\ Whole(n, R) /\ Milder(n, t)
         /\ \A a \in Agents : Got(n, a) = Got(t, a)
<1>1. /\ t \in Nets /\ Mail(t, R) /\ Calling(t, R) /\ Living(t) /\ Calm(t)
  BY DEF Whole, Fit
<1>2. \A a \in Agents : Got(n, a) = Got(t, a)
  BY NoCallFacts DEF CallLess, Got
<1>3. Sent(n) = Sent(t) /\ n.sent = t.sent /\ n.receipt = t.receipt /\ n.revival = t.revival
  BY DEF SameMail, Sent
<1>4. Mail(n, R)
  <2>1. \A i \in Sent(t) : t.sent[i].to \in Agents
    BY <1>1, SentFacts
  <2> QED
    BY <1>1, <1>2, <2>1, MailKept
<1>5. ASSUME NEW a \in Agents PROVE CallFits(n, R, a) /\ WaitersFit(n, a)
  <2>1. CallFits(t, R, a) /\ WaitersFit(t, a)
    BY <1>1 DEF Calling
  <2>2. CallLess(n, t, a) /\ OneTool(n.waiters[a]) /\ ToSet(n.waiters[a]) \subseteq ToSet(t.waiters[a])
    BY DEF Fewer, OneEach
  <2>3. CASE n.call[a] = t.call[a]
    <3>1. CallFits(n, R, a)
      BY <1>3, <2>1, <2>3 DEF CallFits, Got
    <3>2. WaitersFit(n, a)
      BY <1>3, <2>1, <2>2, <2>3 DEF WaitersFit
    <3> QED
      BY <3>1, <3>2
  <2>4. CASE n.call[a] = NoCall /\ Got(t, a) = NoId /\ NoTool(n, a)
    <3>1. CallFits(n, R, a)
      BY <2>4, NoCallFacts DEF CallFits, Got
    <3>2. WaitersFit(n, a)
      BY <2>1, <2>2, <2>4 DEF WaitersFit, NoTool
    <3> QED
      BY <3>1, <3>2
  <2>5. CASE /\ n.call[a].kind = t.call[a].kind /\ n.call[a].id = t.call[a].id
             /\ n.call[a].got = t.call[a].got /\ ~n.call[a].open /\ NoTool(n, a)
    <3>1. CallFits(n, R, a)
      BY <1>3, <2>1, <2>5 DEF CallFits, Got
    <3>2. WaitersFit(n, a)
      BY <2>1, <2>2, <2>5 DEF WaitersFit, NoTool
    <3> QED
      BY <3>1, <3>2
  <2> QED
    BY <2>2, <2>3, <2>4, <2>5 DEF CallLess
<1>6. Living(n)
  BY <1>1, <1>3 DEF Living, Lives
<1>7. Calm(n)
  <2>1. \A a \in Agents : t.waiters[a] \in Seq(Waiters) /\ n.waiters[a] \in Seq(Waiters)
    BY <1>1, NetFields
  <2> QED
    BY <1>1, <2>1, CalmKept DEF Fewer
<1>8. Milder(n, t)
  BY NoCallFacts DEF Milder, CallLess
<1> QED
  BY <1>2, <1>4, <1>5, <1>6, <1>7, <1>8 DEF Whole, Fit, Calling

\* One step after another.
LEMMA PassedAfter ==
  ASSUME NEW R, NEW t, NEW u, SameMail(u, t), Milder(u, t), NEW i, NEW n, Passed(n, u, R, i)
  PROVE  Passed(n, t, R, i)
<1>1. n.sent = t.sent /\ \A j \in Ids \ {i} : n.receipt[j] = t.receipt[j]
  BY DEF Passed, SameMail
<1>2. Milder(n, t)
  BY DEF Passed, Milder
<1> QED
  BY <1>1, <1>2 DEF Passed

\* A message wakes an idle agent.
LEMMA WokenKeeps ==
  ASSUME NEW R, NEW t, Whole(t, R), NEW i \in R, t.session[t.sent[i].to] = "live",
         t.status[t.sent[i].to] \notin {"aborted", "parked", "running"},
         NEW n, n = Receive(Wake(t, t.sent[i].to, {i}), i, "delivered")
  PROVE  Passed(n, t, R, i)
<1>1. PICK u : u = SetStatus(t, t.sent[i].to, "running")
  OBVIOUS
<1>2. PICK to : to = t.sent[i].to
  OBVIOUS
<1>3. t \in Nets /\ Mail(t, R) /\ Living(t) /\ Fit(t, R) /\ to \in Agents
  BY <1>2, NowhereYet DEF Whole, Fit
<1>4. /\ t.session[to] = "live" /\ t.status[to] # "aborted" /\ t.revival[to] = <<>>
      /\ \A b \in Agents \ {to} : Lives(t, b)
  BY <1>2, <1>3 DEF Living, Lives
<1>5. Whole(u, R) /\ SameMail(u, t) /\ Milder(u, t)
  <2>1. u = SetStatus(t, to, "running")
    BY <1>1, <1>2
  <2> QED
    BY <1>3, <1>4, <2>1, SetStatusKeeps
<1>6. n = Receive(Show(u, {i}), i, "delivered")
  BY <1>1 DEF Wake
<1>7. Passed(n, u, R, i)
  BY <1>5, <1>6, ShownKeeps
<1> QED
  BY <1>5, <1>7, PassedAfter

\* n and t agree on messages, status and sessions.
SameRest(n, t) == SameMail(n, t) /\ n.status = t.status /\ n.session = t.session

\* A waiter of agent a is removed.
LEMMA RemoveWaiterFacts ==
  ASSUME NEW t \in Nets, NEW a \in Agents, OneEach(t),
         NEW k \in 1..Len(t.waiters[a]), NEW n, n = RemoveWaiter(t, a, k)
  PROVE  /\ n \in Nets /\ SameRest(n, t) /\ n.call = t.call /\ n.collector = t.collector
         /\ Fewer(n, t) /\ OneEach(n)
         /\ t.waiters[a][k].owner = "tool" => NoTool(n, a)
         /\ t.waiters[a][k] \in ToSet(t.waiters[a])
<1>1. t.waiters \in [Agents -> Seq(Waiters)]
  BY NetFields
<1>2. PICK ws : ws = t.waiters[a]
  OBVIOUS
<1>3. PICK r : r = RemoveAt(ws, k)
  OBVIOUS
<1>4. ws \in Seq(Waiters) /\ OneTool(ws) /\ k \in 1..Len(ws)
  BY <1>1, <1>2 DEF OneEach
<1>5. /\ r \in Seq(Waiters) /\ ToSet(r) \subseteq ToSet(ws) /\ OneTool(r)
      /\ ws[k] \in ToSet(ws)
      /\ ws[k].owner = "tool" => \A w \in ToSet(r) : w.owner # "tool"
  BY <1>3, <1>4, FewerWaiters
<1>6. PICK W : W = [t.waiters EXCEPT ![a] = r]
  OBVIOUS
<1>7. W \in [Agents -> Seq(Waiters)] /\ W[a] = r /\ \A b \in Agents : b # a => W[b] = t.waiters[b]
  BY <1>1, <1>5, <1>6
<1>8. n = [t EXCEPT !.waiters = W]
  BY <1>2, <1>3, <1>6 DEF RemoveWaiter, Nets
<1>9. n \in Nets /\ n.waiters = W /\ SameRest(n, t) /\ n.call = t.call /\ n.collector = t.collector
  BY <1>7, <1>8 DEF Nets, SameRest, SameMail
<1>10. ASSUME NEW b \in Agents
       PROVE  ToSet(n.waiters[b]) \subseteq ToSet(t.waiters[b]) /\ OneTool(n.waiters[b])
  <2>1. CASE b = a
    BY <1>2, <1>5, <1>7, <1>9, <2>1
  <2>2. CASE b # a
    BY <1>7, <1>9, <2>2 DEF OneEach
  <2> QED
    BY <2>1, <2>2 DEF OneEach
<1>11. t.waiters[a][k].owner = "tool" => NoTool(n, a)
  BY <1>2, <1>5, <1>7, <1>9 DEF NoTool
<1>12. t.waiters[a][k] \in ToSet(t.waiters[a])
  BY <1>2, <1>5
<1> QED
  BY <1>9, <1>10, <1>11, <1>12 DEF Fewer, OneEach

\* A collector gets its answer.
Gathered(n, i) == [n EXCEPT !.collector.got = @ \cup {i}]

\* A reply resolves a waiter of the collector.
LEMMA GatheredKeeps ==
  ASSUME NEW R, NEW t, Whole(t, R), NEW a \in Agents, NEW k \in 1..Len(t.waiters[a]),
         NEW i \in Ids, NEW n, n = Gathered(RemoveWaiter(t, a, k), i)
  PROVE  Whole(n, R) /\ SameMail(n, t) /\ Milder(n, t)
<1>1. t \in Nets /\ Gathering(t) /\ OneEach(t)
  BY DEF Whole, Fit, Calling, WaitersFit, OneEach
<1>2. PICK m : m = RemoveWaiter(t, a, k)
  OBVIOUS
<1>3. /\ m \in Nets /\ SameRest(m, t) /\ m.call = t.call /\ m.collector = t.collector
      /\ Fewer(m, t) /\ OneEach(m)
  BY <1>1, <1>2, RemoveWaiterFacts
<1>4. PICK c : c = [m.collector EXCEPT !.got = @ \cup {i}]
  OBVIOUS
<1>5. c \in Collectors /\ c.phase = m.collector.phase /\ c.for = m.collector.for
      /\ c.asked = m.collector.asked
  <2>1. m.collector \in Collectors
    BY <1>3, NetFields
  <2> QED
    BY <1>4, <2>1 DEF Collectors
<1>6. n = [m EXCEPT !.collector = c]
  BY <1>2, <1>3, <1>4 DEF Gathered, Nets
<1>7. /\ n \in Nets /\ n.collector = c /\ n.waiters = m.waiters /\ n.call = m.call
      /\ SameRest(n, m)
  BY <1>3, <1>5, <1>6, ZenonT(60) DEF Nets, SameRest, SameMail
<1>8. SameMail(n, t) /\ n.status = t.status /\ n.session = t.session /\ n.call = t.call
  BY <1>3, <1>7 DEF SameRest, SameMail
<1>9. Gathering(n)
  BY <1>1, <1>3, <1>5, <1>7, <1>8 DEF Gathering, SameMail, Sent
<1>10. \A b \in Agents : CallLess(n, t, b)
  BY <1>8 DEF CallLess
<1>11. Fewer(n, t) /\ OneEach(n)
  BY <1>3, <1>7 DEF Fewer, OneEach
<1> QED
  BY <1>7, <1>8, <1>9, <1>10, <1>11, CallsLess

\* The wait of a tool call ends: the call is over, or goes on without a waiter.
Ended(n, a) == [n EXCEPT !.call[a] = NoCall]

\* A message resolves the waiter of an irc `wait`, and ends the call.
LEMMA EndedKeeps ==
  ASSUME NEW R, NEW t, Whole(t, R), NEW a \in Agents, Got(t, a) = NoId,
         NEW k \in 1..Len(t.waiters[a]), t.waiters[a][k].owner = "tool",
         NEW n, n = Ended(RemoveWaiter(t, a, k), a)
  PROVE  Whole(n, R) /\ SameMail(n, t) /\ Milder(n, t)
<1>1. t \in Nets /\ Gathering(t) /\ OneEach(t)
  BY DEF Whole, Fit, Calling, WaitersFit, OneEach
<1>2. PICK m : m = RemoveWaiter(t, a, k)
  OBVIOUS
<1>3. /\ m \in Nets /\ SameRest(m, t) /\ m.call = t.call /\ m.collector = t.collector
      /\ Fewer(m, t) /\ OneEach(m)
      /\ NoTool(m, a)
  BY <1>1, <1>2, RemoveWaiterFacts
<1>4. PICK C : C = [m.call EXCEPT ![a] = NoCall]
  OBVIOUS
<1>5. C \in [Agents -> Calls] /\ C[a] = NoCall /\ \A b \in Agents : b # a => C[b] = t.call[b]
  <2>1. t.call \in [Agents -> Calls]
    BY <1>1, NetFields
  <2> QED
    BY <1>3, <1>4, <2>1, NoCallFacts
<1>6. n = [m EXCEPT !.call = C]
  BY <1>2, <1>3, <1>4 DEF Ended, Nets
<1>7. /\ n \in Nets /\ n.collector = m.collector /\ n.waiters = m.waiters /\ n.call = C
      /\ SameRest(n, m)
  BY <1>3, <1>5, <1>6, ZenonT(60) DEF Nets, SameRest, SameMail
<1>8. SameMail(n, t) /\ n.status = t.status /\ n.session = t.session /\ n.collector = t.collector
  BY <1>3, <1>7 DEF SameRest, SameMail
<1>9. Gathering(n)
  BY <1>1, <1>8 DEF Gathering, SameMail, Sent
<1>10. \A b \in Agents : CallLess(n, t, b)
  BY <1>3, <1>5, <1>7 DEF CallLess, NoTool
<1>11. Fewer(n, t) /\ OneEach(n)
  BY <1>3, <1>7 DEF Fewer, OneEach
<1> QED
  BY <1>7, <1>8, <1>9, <1>10, <1>11, CallsLess

\* Where message i is sent while its recipient awaits a reply of its sender, that wait
\* is for a message that has arrived.
Heard(n, i) ==
  LET c == n.call[n.sent[i].to] IN
  c.kind = "await" /\ n.sent[c.id].to = n.sent[i].from => n.receipt[c.id] = "delivered"
HeardAll(n, R) == \A i \in R : Heard(n, i)

\* The call of agent a has its answer.
Answer(n, a, i) == [n EXCEPT !.call[a] = [@ EXCEPT !.open = FALSE, !.got = i]]

\* A reply resolves the waiter of a `send await`, which holds it until the step settles.
LEMMA AnsweredKeeps ==
  ASSUME NEW R, NEW t, Whole(t, R), NEW i \in R, NEW to, to = t.sent[i].to,
         Got(t, to) = NoId, t.call[to].kind = "await", t.receipt[t.call[to].id] = "delivered",
         NEW k \in 1..Len(t.waiters[to]), t.waiters[to][k].owner = "tool",
         NEW n, n = Receive(Answer(RemoveWaiter(t, to, k), to, i), i, "delivered")
  PROVE  Passed(n, t, R, i)
<1>1. t \in Nets /\ Mail(t, R) /\ Gathering(t) /\ OneEach(t) /\ Calling(t, R) /\ Living(t) /\ Calm(t)
  BY DEF Whole, Fit, Calling, WaitersFit, OneEach
<1>2. /\ i \in Ids /\ t.shown[i] = 0 /\ to \in Agents /\ i # NoId /\ i \in Sent(t)
      /\ t.receipt[i] \in {"none", "reviving"}
      /\ \A a \in Agents : /\ i \notin Pending(t, a) /\ i \notin ToSet(t.mail[a])
                           /\ i \notin ToSet(t.revival[a]) /\ i # Got(t, a)
  <2>1. /\ i \in Sent(t) /\ i \in Ids /\ t.shown[i] = 0 /\ t.receipt[i] \in {"none", "reviving"}
        /\ t.sent[i].to \in Agents /\ i # NoId
    BY <1>1, NowhereYet
  <2>2. ASSUME NEW a \in Agents
        PROVE  /\ i \notin Pending(t, a) /\ i \notin ToSet(t.mail[a])
               /\ i \notin ToSet(t.revival[a]) /\ i # Got(t, a)
    BY <1>1, NowhereYet
  <2> QED
    BY <2>1, <2>2
<1>3. PICK m : m = RemoveWaiter(t, to, k)
  OBVIOUS
<1>4. /\ m \in Nets /\ SameRest(m, t) /\ m.call = t.call /\ m.collector = t.collector
      /\ Fewer(m, t) /\ OneEach(m) /\ NoTool(m, to)
  <2>1. t \in Nets /\ to \in Agents /\ OneEach(t)
    BY <1>1, <1>2
  <2>2. /\ m \in Nets /\ SameRest(m, t) /\ m.call = t.call /\ m.collector = t.collector
        /\ Fewer(m, t) /\ OneEach(m)
    BY <1>3, <2>1, RemoveWaiterFacts
  <2>3. NoTool(m, to)
    BY <1>3, <2>1, RemoveWaiterFacts
  <2> QED
    BY <2>2, <2>3
<1>5. PICK c : c = [t.call[to] EXCEPT !.open = FALSE, !.got = i]
  OBVIOUS
<1>6. c \in Calls /\ c.kind = "await" /\ c.id = t.call[to].id /\ ~c.open /\ c.got = i
  <2>1. t.call[to] \in Calls
    BY <1>1, <1>2, NetFields
  <2> QED
    BY <1>2, <1>5, <2>1 DEF Calls
<1>7. PICK C : C = [t.call EXCEPT ![to] = c]
  OBVIOUS
<1>8. C \in [Agents -> Calls] /\ C[to] = c /\ \A b \in Agents : b # to => C[b] = t.call[b]
  <2>1. t.call \in [Agents -> Calls]
    BY <1>1, NetFields
  <2> QED
    BY <1>2, <1>6, <1>7, <2>1
<1>9. PICK r : r = [t.receipt EXCEPT ![i] = "delivered"]
  OBVIOUS
<1>10. r \in [Ids -> Receipts] /\ r[i] = "delivered" /\ \A j \in Ids : j # i => r[j] = t.receipt[j]
  <2>1. t.receipt \in [Ids -> Receipts]
    BY <1>1, NetFields
  <2> QED
    BY <1>2, <1>9, <2>1 DEF Receipts
<1>11. PICK v : v = Answer(m, to, i)
  OBVIOUS
<1>24. v = [m EXCEPT !.call = C]
  BY <1>4, <1>5, <1>7, <1>11 DEF Answer, Nets
<1>25. v \in Nets /\ v.call = C /\ SameRest(v, t) /\ v.collector = t.collector /\ v.waiters = m.waiters
  BY <1>4, <1>8, <1>24 DEF Nets, SameRest, SameMail
<1>26. n = [v EXCEPT !.receipt = r]
  <2>1. v.receipt = t.receipt
    BY <1>25 DEF SameRest, SameMail
  <2>2. n = Receive(v, i, "delivered")
    BY <1>3, <1>11
  <2> QED
    BY <1>9, <1>25, <2>1, <2>2 DEF Receive, Nets
<1>27. /\ n \in Nets /\ n.receipt = r /\ n.call = v.call /\ n.sent = v.sent /\ n.shown = v.shown
       /\ n.steered = v.steered /\ n.asides = v.asides /\ n.mail = v.mail
       /\ n.revival = v.revival /\ n.dropped = v.dropped /\ n.due = v.due
       /\ n.status = v.status /\ n.session = v.session
       /\ n.collector = v.collector /\ n.waiters = v.waiters
  BY <1>10, <1>25, <1>26, ZenonT(60) DEF Nets
<1>12. /\ n \in Nets /\ n.receipt = r /\ n.call = C /\ n.sent = t.sent /\ n.shown = t.shown
       /\ n.steered = t.steered /\ n.asides = t.asides /\ n.mail = t.mail
       /\ n.revival = t.revival /\ n.dropped = t.dropped /\ n.due = t.due
       /\ n.status = t.status /\ n.session = t.session
       /\ n.collector = t.collector /\ n.waiters = m.waiters
  BY <1>25, <1>27, ZenonT(60) DEF SameRest, SameMail
<1>13. \A a \in Agents : Pending(n, a) = Pending(t, a) /\ (a # to => Got(n, a) = Got(t, a))
  BY <1>8, <1>12 DEF Pending, Got
<1>14. Got(n, to) = i
  BY <1>6, <1>8, <1>12 DEF Got
<1>15. Others(n, t, i)
  <2>1. ASSUME NEW a \in Agents, NEW j \in Ids \ {i} PROVE j = Got(n, a) <=> j = Got(t, a)
    <3>1. j # NoId
      BY Numbers
    <3>2. CASE a = to
      BY <1>14, <3>1, <3>2
    <3>3. CASE a # to
      BY <1>13, <3>3
    <3> QED
      BY <3>2, <3>3
  <2> QED
    BY <1>10, <1>12, <1>13, <2>1, ZenonT(60) DEF Others
<1>16. AtRest(n, i)
  <2>1. n.sent[i].to = to /\ n.receipt[i] = "delivered" /\ n.shown[i] = 0
    BY <1>2, <1>10, <1>12
  <2>2. \A a \in Agents : /\ i \notin Pending(n, a) /\ i \notin ToSet(n.mail[a])
                          /\ i \notin ToSet(n.revival[a])
    BY <1>2, <1>12, <1>13
  <2>3. \A a \in Agents : i = Got(n, a) => a = to
    BY <1>2, <1>13
  <2> QED
    BY <1>14, <2>1, <2>2, <2>3, AtRestHeld, ZenonT(60)
<1>17. Single(n)
  BY <1>1, <1>12 DEF Mail, Single
<1>18. Mail(n, R \ {i})
  BY <1>1, <1>12, <1>15, <1>16, <1>17, MailFiled
<1>19. Sent(n) = Sent(t) /\ Sent(t) \subseteq Ids
  BY <1>1, <1>12 DEF Sent, Mail, Counted
<1>28. \A a \in Agents : /\ CallFits(t, R, a) /\ WaitersFit(t, a) /\ OneTool(n.waiters[a])
                         /\ ToSet(n.waiters[a]) \subseteq ToSet(t.waiters[a])
  BY <1>1, <1>4, <1>12 DEF Calling, Fewer, OneEach
<1>29. CallFits(n, R \ {i}, to) /\ WaitersFit(n, to)
  <2>1. t.call[to].id \in Sent(t) /\ t.status[to] = "running"
    BY <1>2, <1>28 DEF CallFits
  <2>2. t.call[to].id # i /\ t.call[to].id \in Ids
    BY <1>2, <1>19, <2>1
  <2>3. n.receipt[t.call[to].id] = "delivered"
    BY <1>10, <1>12, <2>2
  <2>4. n.call[to] = c
    BY <1>8, <1>12
  <2>5. CallFits(n, R \ {i}, to)
    <3>1. /\ n.call[to].kind = "await" /\ n.call[to].id \in Sent(n) /\ ~n.call[to].open
          /\ n.receipt[n.call[to].id] = "delivered" /\ n.status[to] = "running"
      <4>1. n.call[to].id = t.call[to].id /\ n.call[to].kind = "await" /\ ~n.call[to].open
        BY <1>6, <2>4
      <4>2. n.status[to] = "running"
        BY <1>12, <2>1
      <4>3. n.call[to].id \in Sent(n)
        BY <1>19, <2>1, <4>1
      <4>4. n.receipt[n.call[to].id] = "delivered"
        BY <2>3, <4>1
      <4> QED
        BY <4>1, <4>2, <4>3, <4>4
    <3> QED
      BY <3>1 DEF CallFits
  <2>6. NoTool(n, to)
    BY <1>4, <1>12 DEF NoTool
  <2>7. WaitersFit(n, to)
    BY <1>2, <1>28, <2>6, ZenonT(60) DEF WaitersFit, NoTool
  <2> QED
    BY <2>5, <2>7
<1>20. ASSUME NEW a \in Agents PROVE CallFits(n, R \ {i}, a) /\ WaitersFit(n, a)
  <2>1. CASE a = to
    BY <1>29, <2>1
  <2>2. CASE a # to
    <3>1. n.call[a] = t.call[a]
      BY <1>8, <1>12, <2>2
    <3>2. n.status[a] = t.status[a] /\ n.sent = t.sent
      BY <1>12
    <3>3. CallFits(t, R, a) /\ WaitersFit(t, a)
      BY <1>28
    <3>4. \A j \in Sent(t) : n.receipt[j] = t.receipt[j] \/ (j = i /\ n.receipt[j] = "delivered")
      BY <1>10, <1>12, <1>19
    <3>5. n.receipt[t.call[a].id] = "none" => t.receipt[t.call[a].id] = "none"  \/ t.call[a].id \notin Sent(t)
      BY <3>4
    <3>6. t.call[a].kind = "await" => /\ t.call[a].id \in Sent(n)
                                      /\ n.receipt[t.call[a].id] = "none" => t.call[a].id \in R \ {i}
      BY <1>10, <1>12, <1>19, <3>3, <3>5 DEF CallFits
    <3>7. Got(t, a) # NoId => n.receipt[t.call[a].id] = "delivered"
      BY <1>19, <3>3, <3>4 DEF CallFits
    <3>8. CallFits(n, R \ {i}, a)
      BY <3>1, <3>2, <3>3, <3>6, <3>7, ZenonT(60) DEF CallFits, Got
    <3>9. WaitersFit(n, a)
      <4>1. OneTool(n.waiters[a]) /\ ToSet(n.waiters[a]) \subseteq ToSet(t.waiters[a])
        BY <1>28
      <4>2. ASSUME NEW w \in ToSet(n.waiters[a])
            PROVE  /\ w.guarded => w.owner = "tool"
                   /\ w.owner = "tool" =>
                        /\ n.call[a].open
                        /\ n.call[a].kind = "await" => w.from = n.sent[n.call[a].id].to
        BY <3>1, <3>2, <3>3, <4>1 DEF WaitersFit
      <4> QED
        BY <4>1, <4>2 DEF WaitersFit
    <3> QED
      BY <3>8, <3>9
  <2> QED
    BY <2>1, <2>2
<1>21. Gathering(n) /\ Living(n)
  <2>1. Gathering(n)
    BY <1>1, <1>12, <1>19 DEF Gathering
  <2>2. Living(n)
    <3>1. ASSUME NEW a \in Agents PROVE Lives(n, a)
      <4>1. n.status[a] = t.status[a] /\ n.session[a] = t.session[a] /\ n.revival[a] = t.revival[a]
        BY <1>12
      <4> QED
        BY <1>1, <4>1 DEF Living, Lives
    <3> QED
      BY <3>1 DEF Living
  <2> QED
    BY <2>1, <2>2
<1>22. Calm(n)
  <2>1. \A a \in Agents : t.waiters[a] \in Seq(Waiters) /\ n.waiters[a] \in Seq(Waiters)
    BY <1>1, <1>12, NetFields, ZenonT(60)
  <2> QED
    BY <1>1, <1>4, <1>12, <2>1, CalmKept DEF Fewer
<1>23. Milder(n, t)
  <2>1. ASSUME NEW a \in Agents, n.call[a].kind = "await"
        PROVE  t.call[a].kind = "await" /\ n.call[a].id = t.call[a].id
    <3>1. CASE a = to
      BY <1>6, <1>8, <1>12, <3>1
    <3>2. CASE a # to
      <4>1. n.call[a] = t.call[a]
        BY <1>8, <1>12, <3>2
      <4> QED
        BY <2>1, <4>1
    <3> QED
      BY <3>1, <3>2
  <2> QED
    BY <2>1 DEF Milder
<1> QED
  BY <1>10, <1>12, <1>18, <1>20, <1>21, <1>22, <1>23 DEF Passed, Whole, Fit, Calling

\* A message that a waiter takes.
LEMMA ResolvedKeeps ==
  ASSUME NEW R, NEW t, Whole(t, R), NEW i \in R, Heard(t, i),
         NEW k, k = MatchingWaiter(t, i), k # 0,
         NEW n, n = Receive(Resolve(t, k, i), i, "delivered")
  PROVE  Passed(n, t, R, i)
<1>1. PICK to : to = t.sent[i].to
  OBVIOUS
<1>2. t \in Nets /\ Mail(t, R) /\ Calling(t, R)
  BY DEF Whole, Fit
<1>3. to \in Agents /\ i \in Ids /\ i \in Sent(t)
  BY <1>1, <1>2, NowhereYet
<1>4. k \in 1..Len(t.waiters[to]) /\ t.waiters[to][k].from \in {None, t.sent[i].from}
  BY <1>1, <1>2, <1>3, MatchingFacts
<1>5. PICK w : w = t.waiters[to][k]
  OBVIOUS
<1>6. w \in ToSet(t.waiters[to]) /\ w \in Waiters
  <2>1. t.waiters[to] \in Seq(Waiters)
    BY <1>2, <1>3, NetFields
  <2> QED
    BY <1>4, <1>5, <2>1, Elements
<1>7. CallFits(t, R, to) /\ WaitersFit(t, to) /\ t.call[to] \in Calls
  BY <1>2, <1>3, NetFields DEF Calling
<1>8. CASE w.owner = "collector"
  <2>1. PICK u : u = Gathered(RemoveWaiter(t, to, k), i)
    OBVIOUS
  <2>2. Whole(u, R) /\ SameMail(u, t) /\ Milder(u, t)
    BY <1>3, <1>4, <2>1, GatheredKeeps
  <2>3. Resolve(t, k, i) = Show(u, {i})
    BY <1>1, <1>5, <1>8, <2>1 DEF Resolve, Gathered
  <2>4. Passed(n, u, R, i)
    BY <2>2, <2>3, ShownKeeps
  <2> QED
    BY <2>2, <2>4, PassedAfter
<1>9. CASE w.owner = "tool"
  <2>1. t.call[to].open /\ Got(t, to) = NoId /\ t.call[to].kind # "none"
    BY <1>6, <1>7, <1>9 DEF WaitersFit, CallFits
  <2>2. CASE t.call[to].kind = "wait"
    <3>1. PICK u : u = Ended(RemoveWaiter(t, to, k), to)
      OBVIOUS
    <3>2. Whole(u, R) /\ SameMail(u, t) /\ Milder(u, t)
      BY <1>3, <1>4, <1>5, <1>9, <2>1, <3>1, EndedKeeps
    <3>3. Resolve(t, k, i) = Show(u, {i})
      BY <1>1, <1>5, <1>9, <2>2, <3>1 DEF Resolve, Ended
    <3>4. Passed(n, u, R, i)
      BY <3>2, <3>3, ShownKeeps
    <3> QED
      BY <3>2, <3>4, PassedAfter
  <2>3. CASE t.call[to].kind # "wait"
    <3>1. t.call[to].kind = "await"
      BY <1>7, <2>1, <2>3 DEF Calls
    <3>2. w.from = t.sent[t.call[to].id].to
      BY <1>6, <1>7, <1>9, <3>1 DEF WaitersFit
    <3>3. w.from = t.sent[i].from
      <4>1. t.call[to].id \in Sent(t)
        BY <1>7, <3>1 DEF CallFits
      <4>2. w.from # None
        BY <1>2, <3>2, <4>1, SentFacts, Numbers
      <4> QED
        BY <1>4, <1>5, <4>2
    <3>4. t.receipt[t.call[to].id] = "delivered"
      BY <1>1, <3>1, <3>2, <3>3 DEF Heard
    <3>5. PICK u : u = Answer(RemoveWaiter(t, to, k), to, i)
      OBVIOUS
    <3>6. Resolve(t, k, i) = u
      BY <1>1, <1>5, <1>9, <2>3, <3>5 DEF Resolve, Answer
    <3> QED
      BY <1>1, <1>4, <1>5, <1>9, <2>1, <3>1, <3>4, <3>5, <3>6, AnsweredKeeps
  <2> QED
    BY <2>2, <2>3
<1> QED
  BY <1>6, <1>8, <1>9 DEF Waiters

\* A message for a busy agent waits among its asides, or its steers.
Aside(t, a, i, due) == [t EXCEPT !.asides[a] = Append(@, i), !.due = @ \cup due]

\* A busy session keeps what a peer sent it.
LEMMA AsideKeeps ==
  ASSUME NEW R, NEW t, Whole(t, R), NEW i \in R, NEW due \in SUBSET {i},
         NEW n, n = Receive(Aside(t, t.sent[i].to, i, due), i, "delivered")
  PROVE  Passed(n, t, R, i)
<1>1. /\ t \in Nets /\ Mail(t, R) /\ t.receipt \in [Ids -> Receipts]
      /\ t.asides \in Queues /\ t.due \in SUBSET Ids
  BY NetFields DEF Whole, Fit, Queues
<1>2. /\ i \in Ids /\ t.shown[i] = 0 /\ t.sent[i].to \in Agents /\ i # NoId
      /\ \A a \in Agents : /\ i \notin Pending(t, a) /\ i \notin ToSet(t.mail[a])
                           /\ i \notin ToSet(t.revival[a]) /\ i # Got(t, a)
  BY <1>1, NowhereYet
<1>3. PICK to : to = t.sent[i].to
  OBVIOUS
<1>4. PICK r : r = [t.receipt EXCEPT ![i] = "delivered"]
  OBVIOUS
<1>5. r \in [Ids -> Receipts] /\ r[i] = "delivered" /\ \A j \in Ids : j # i => r[j] = t.receipt[j]
  BY <1>1, <1>2, <1>4 DEF Receipts
<1>6. PICK v : v = Queued(t.asides, to, i)
  OBVIOUS
<1>7. ASSUME NEW b \in Agents
      PROVE  /\ v \in Queues /\ IsInjective(v[b])
             /\ \A j : j \in ToSet(v[b]) <=> j \in ToSet(t.asides[b]) \/ (b = to /\ j = i)
  <2>1. PICK f : f = t.asides
    OBVIOUS
  <2>2. /\ f \in Queues /\ to \in Agents /\ i \in Ids /\ v = Queued(f, to, i)
    BY <1>1, <1>2, <1>3, <1>6, <2>1
  <2>3. v \in Queues
    BY <2>2, QueuedFacts
  <2>4. \A j : j \in ToSet(v[b]) <=> j \in ToSet(f[b]) \/ (b = to /\ j = i)
    BY <2>2, QueuedFacts
  <2>5. IsInjective(f[b]) /\ i \notin ToSet(f[to]) => IsInjective(v[b])
    BY <2>2, QueuedFacts
  <2>6. IsInjective(f[b])
    BY <1>1, <2>1 DEF Mail, Single
  <2>7. i \notin ToSet(f[to])
    BY <1>2, <2>1, <2>2 DEF Pending
  <2> QED
    BY <2>1, <2>3, <2>4, <2>5, <2>6, <2>7
<1>8. v \in Queues
  BY <1>2, <1>7
<1>9. PICK d : d = t.due \cup due
  OBVIOUS
<1>10. d \in SUBSET Ids
  BY <1>1, <1>2, <1>9
<1>11. n = [t EXCEPT !.receipt = r, !.asides = v, !.due = d]
  BY <1>1, <1>3, <1>4, <1>6, <1>9 DEF Aside, Receive, Queued, Nets
<1>12. /\ n \in Nets /\ n.receipt = r /\ n.sent = t.sent /\ n.shown = t.shown
       /\ n.steered = t.steered /\ n.asides = v /\ n.mail = t.mail
       /\ n.revival = t.revival /\ n.dropped = t.dropped /\ n.due = d
       /\ n.call = t.call /\ n.waiters = t.waiters /\ n.status = t.status
       /\ n.session = t.session /\ n.collector = t.collector
  BY <1>1, <1>5, <1>8, <1>10, <1>11, ZenonT(60) DEF Nets, Queues
<1>13. ASSUME NEW a \in Agents
       PROVE  /\ Got(n, a) = Got(t, a)
              /\ \A j : j \in Pending(n, a) <=> j \in Pending(t, a) \/ (a = to /\ j = i)
  <2>1. n.call[a] = t.call[a] /\ n.steered[a] = t.steered[a] /\ n.asides[a] = v[a]
    BY <1>12
  <2>2. \A j : j \in ToSet(v[a]) <=> j \in ToSet(t.asides[a]) \/ (a = to /\ j = i)
    BY <1>7
  <2> QED
    BY <2>1, <2>2 DEF Pending, Got
<1>14. Others(n, t, i)
  BY <1>5, <1>9, <1>12, <1>13 DEF Others
<1>15. AtRest(n, i)
  <2>1. n.sent[i].to = to /\ n.receipt[i] = "delivered" /\ n.shown[i] = 0
    BY <1>2, <1>3, <1>5, <1>12
  <2>2. \A a \in Agents : /\ i \notin ToSet(n.revival[a]) /\ i \notin ToSet(n.mail[a])
                          /\ i # Got(n, a)
    BY <1>2, <1>12, <1>13
  <2>3. i \in Pending(n, to) /\ \A a \in Agents : i \in Pending(n, a) => a = to
    BY <1>2, <1>3, <1>13
  <2> QED
    BY <2>1, <2>2, <2>3, AtRestHeld
<1>16. Single(n)
  <2>1. ASSUME NEW a \in Agents
        PROVE  n.steered[a] \cap ToSet(n.asides[a]) = {}
    <3>1. t.steered[a] \cap ToSet(t.asides[a]) = {}
      BY <1>1 DEF Mail, Single
    <3>2. i \notin t.steered[a]
      BY <1>2 DEF Pending
    <3>3. \A j : j \in ToSet(v[a]) => j \in ToSet(t.asides[a]) \/ j = i
      BY <1>7
    <3> QED
      BY <1>12, <3>1, <3>2, <3>3
  <2>2. \A a \in Agents : IsInjective(n.asides[a])
    BY <1>7, <1>12
  <2>3. \A a \in Agents : IsInjective(n.mail[a]) /\ IsInjective(n.revival[a])
    BY <1>1, <1>12 DEF Mail, Single
  <2> QED
    BY <2>1, <2>2, <2>3 DEF Single
<1> QED
  BY <1>12, <1>14, <1>15, <1>16, FiledQuietly

\* A message of the parent is steered into a busy session.
Steer(t, a, i, due) == [t EXCEPT !.steered[a] = @ \cup {i}, !.due = @ \cup due]

\* A busy session keeps what its parent sent it.
LEMMA SteerKeeps ==
  ASSUME NEW R, NEW t, Whole(t, R), NEW i \in R, NEW due \in SUBSET {i},
         NEW n, n = Receive(Steer(t, t.sent[i].to, i, due), i, "delivered")
  PROVE  Passed(n, t, R, i)
<1>1. /\ t \in Nets /\ Mail(t, R) /\ t.receipt \in [Ids -> Receipts]
      /\ t.steered \in [Agents -> SUBSET Ids] /\ t.due \in SUBSET Ids
  BY NetFields DEF Whole, Fit
<1>2. /\ i \in Ids /\ t.shown[i] = 0 /\ t.sent[i].to \in Agents /\ i # NoId
      /\ \A a \in Agents : /\ i \notin Pending(t, a) /\ i \notin ToSet(t.mail[a])
                           /\ i \notin ToSet(t.revival[a]) /\ i # Got(t, a)
  BY <1>1, NowhereYet
<1>3. PICK to : to = t.sent[i].to
  OBVIOUS
<1>4. PICK r : r = [t.receipt EXCEPT ![i] = "delivered"]
  OBVIOUS
<1>5. r \in [Ids -> Receipts] /\ r[i] = "delivered" /\ \A j \in Ids : j # i => r[j] = t.receipt[j]
  BY <1>1, <1>2, <1>4 DEF Receipts
<1>6. PICK v : v = [t.steered EXCEPT ![to] = @ \cup {i}]
  OBVIOUS
<1>7. /\ v \in [Agents -> SUBSET Ids] /\ v[to] = t.steered[to] \cup {i}
      /\ \A b \in Agents : b # to => v[b] = t.steered[b]
  BY <1>1, <1>2, <1>3, <1>6
<1>9. PICK d : d = t.due \cup due
  OBVIOUS
<1>10. d \in SUBSET Ids
  BY <1>1, <1>2, <1>9
<1>11. n = [t EXCEPT !.receipt = r, !.steered = v, !.due = d]
  BY <1>1, <1>3, <1>4, <1>6, <1>9 DEF Steer, Receive, Nets
<1>12. /\ n \in Nets /\ n.receipt = r /\ n.sent = t.sent /\ n.shown = t.shown
       /\ n.steered = v /\ n.asides = t.asides /\ n.mail = t.mail
       /\ n.revival = t.revival /\ n.dropped = t.dropped /\ n.due = d
       /\ n.call = t.call /\ n.waiters = t.waiters /\ n.status = t.status
       /\ n.session = t.session /\ n.collector = t.collector
  BY <1>1, <1>5, <1>7, <1>10, <1>11, ZenonT(60) DEF Nets
<1>13. ASSUME NEW a \in Agents
       PROVE  /\ Got(n, a) = Got(t, a)
              /\ \A j : j \in Pending(n, a) <=> j \in Pending(t, a) \/ (a = to /\ j = i)
  <2>1. n.call[a] = t.call[a] /\ n.steered[a] = v[a] /\ n.asides[a] = t.asides[a]
    BY <1>12
  <2>2. \A j : j \in v[a] <=> j \in t.steered[a] \/ (a = to /\ j = i)
    BY <1>7
  <2> QED
    BY <2>1, <2>2 DEF Pending, Got
<1>14. Others(n, t, i)
  BY <1>5, <1>9, <1>12, <1>13 DEF Others
<1>15. AtRest(n, i)
  <2>1. n.sent[i].to = to /\ n.receipt[i] = "delivered" /\ n.shown[i] = 0
    BY <1>2, <1>3, <1>5, <1>12
  <2>2. \A a \in Agents : /\ i \notin ToSet(n.revival[a]) /\ i \notin ToSet(n.mail[a])
                          /\ i # Got(n, a)
    BY <1>2, <1>12, <1>13
  <2>3. i \in Pending(n, to) /\ \A a \in Agents : i \in Pending(n, a) => a = to
    BY <1>2, <1>3, <1>13
  <2> QED
    BY <2>1, <2>2, <2>3, AtRestHeld
<1>16. Single(n)
  <2>1. ASSUME NEW a \in Agents
        PROVE  n.steered[a] \cap ToSet(n.asides[a]) = {}
    <3>1. t.steered[a] \cap ToSet(t.asides[a]) = {}
      BY <1>1 DEF Mail, Single
    <3>2. i \notin ToSet(t.asides[a])
      BY <1>2 DEF Pending
    <3>3. \A j \in v[a] : j \in t.steered[a] \/ j = i
      BY <1>7
    <3> QED
      BY <1>12, <3>1, <3>2, <3>3
  <2>2. \A a \in Agents : IsInjective(n.asides[a]) /\ IsInjective(n.mail[a]) /\ IsInjective(n.revival[a])
    BY <1>1, <1>12 DEF Mail, Single
  <2> QED
    BY <2>1, <2>2 DEF Single
<1> QED
  BY <1>12, <1>14, <1>15, <1>16, FiledQuietly

\* A message for an agent that is being parked goes to its mailbox, which may be full.
LEMMA UnseenKeeps ==
  ASSUME NEW R, NEW t, Whole(t, R), NEW i \in R, NEW n, n = Receive(Enqueue(t, i), i, "unseen")
  PROVE  Passed(n, t, R, i)
<1>1. /\ t \in Nets /\ Mail(t, R) /\ t.receipt \in [Ids -> Receipts]
      /\ t.mail \in Queues /\ t.dropped \in SUBSET Ids
  BY NetFields DEF Whole, Fit, Queues
<1>2. /\ i \in Ids /\ t.shown[i] = 0 /\ t.sent[i].to \in Agents /\ i # NoId
      /\ \A a \in Agents : /\ i \notin Pending(t, a) /\ i \notin ToSet(t.mail[a])
                           /\ i \notin ToSet(t.revival[a]) /\ i # Got(t, a)
  BY <1>1, NowhereYet
<1>3. PICK to : to = t.sent[i].to
  OBVIOUS
<1>4. PICK r : r = [t.receipt EXCEPT ![i] = "unseen"]
  OBVIOUS
<1>5. r \in [Ids -> Receipts] /\ r[i] = "unseen" /\ \A j \in Ids : j # i => r[j] = t.receipt[j]
  BY <1>1, <1>2, <1>4 DEF Receipts
<1>6. PICK q : q = t.mail[to]
  OBVIOUS
<1>7. q \in Seq(Ids) /\ IsInjective(q) /\ i \notin ToSet(q)
  BY <1>1, <1>2, <1>3, <1>6 DEF Queues, Mail, Single
<1>8. PICK box : box = Extended(q, i)
  OBVIOUS
<1>9. box \in Seq(Ids) /\ ToSet(box) = ToSet(q) \cup {i} /\ IsInjective(box)
  BY <1>2, <1>7, <1>8, AppendedSet
<1>10. box # <<>>
  BY <1>9, NoElements
<1>11. PICK full \in BOOLEAN : full = ~(Len(box) <= MailboxCap)
  OBVIOUS
<1>12. PICK x : x = IF full THEN Tail(box) ELSE box
  OBVIOUS
<1>13. PICK d : d = IF full THEN t.dropped \cup {Head(box)} ELSE t.dropped
  OBVIOUS
<1>14. /\ x \in Seq(Ids) /\ IsInjective(x) /\ ToSet(x) \subseteq ToSet(box) /\ d \in SUBSET Ids
       /\ t.dropped \subseteq d /\ \A j \in ToSet(box) : j \in ToSet(x) \cup d
  <2>1. /\ Tail(box) \in Seq(Ids) /\ Head(box) \in ToSet(box) /\ ToSet(Tail(box)) \subseteq ToSet(box)
        /\ \A j \in ToSet(box) : j = Head(box) \/ j \in ToSet(Tail(box))
        /\ IsInjective(Tail(box))
    BY <1>9, <1>10, TailSet
  <2>2. ToSet(box) \subseteq Ids
    BY <1>9, Elements
  <2>3. CASE full
    BY <1>1, <1>12, <1>13, <2>1, <2>2, <2>3
  <2>4. CASE ~full
    BY <1>1, <1>9, <1>12, <1>13, <2>4
  <2> QED
    BY <2>3, <2>4
<1>15. PICK v : v = [t.mail EXCEPT ![to] = x]
  OBVIOUS
<1>16. v \in Queues /\ v[to] = x /\ \A b \in Agents : b # to => v[b] = t.mail[b]
  BY <1>1, <1>2, <1>3, <1>14, <1>15 DEF Queues
<1>17. Enqueue(t, i) = [t EXCEPT !.mail = v, !.dropped = d]
  <2>1. Append(t.mail[to], i) = box
    BY <1>6, <1>8 DEF Extended
  <2>2. CASE full
    BY <1>1, <1>3, <1>11, <1>12, <1>13, <1>15, <2>1, <2>2 DEF Enqueue, Nets
  <2>3. CASE ~full
    BY <1>1, <1>3, <1>11, <1>12, <1>13, <1>15, <2>1, <2>3 DEF Enqueue, Nets
  <2> QED
    BY <2>2, <2>3
<1>18. n = [t EXCEPT !.mail = v, !.dropped = d, !.receipt = r]
  BY <1>1, <1>4, <1>17 DEF Receive, Nets
<1>19. /\ n \in Nets /\ n.receipt = r /\ n.sent = t.sent /\ n.shown = t.shown
       /\ n.steered = t.steered /\ n.asides = t.asides /\ n.mail = v
       /\ n.revival = t.revival /\ n.dropped = d /\ n.due = t.due
       /\ n.call = t.call /\ n.waiters = t.waiters /\ n.status = t.status
       /\ n.session = t.session /\ n.collector = t.collector
  BY <1>1, <1>5, <1>14, <1>16, <1>18, ZenonT(60) DEF Nets, Queues
<1>20. \A a \in Agents : Pending(n, a) = Pending(t, a) /\ Got(n, a) = Got(t, a)
  BY <1>19 DEF Pending, Got
<1>21. ASSUME NEW a \in Agents, NEW j, j # i
       PROVE  /\ j \in ToSet(n.mail[a]) => j \in ToSet(t.mail[a])
              /\ j \in ToSet(t.mail[a]) => j \in ToSet(n.mail[a]) \cup n.dropped
  <2>1. CASE a = to
    BY <1>6, <1>9, <1>14, <1>16, <1>19, <1>21, <2>1
  <2>2. CASE a # to
    BY <1>16, <1>19, <2>2
  <2> QED
    BY <2>1, <2>2
<1>22. Others(n, t, i)
  BY <1>5, <1>14, <1>19, <1>20, <1>21 DEF Others
<1>23. AtRest(n, i)
  <2>1. n.sent[i].to = to /\ n.receipt[i] = "unseen" /\ n.shown[i] = 0
    BY <1>2, <1>3, <1>5, <1>19
  <2>2. \A a \in Agents : /\ i \notin ToSet(n.revival[a]) /\ i \notin Pending(n, a)
                          /\ i # Got(n, a)
    BY <1>2, <1>19, <1>20
  <2>3. \A a \in Agents : i \in ToSet(n.mail[a]) => a = to
    BY <1>2, <1>16, <1>19
  <2>4. i \in ToSet(n.mail[to]) \/ i \in n.dropped
    BY <1>9, <1>14, <1>16, <1>19
  <2> QED
    BY <2>1, <2>2, <2>3, <2>4, AtRestHeld
<1>24. Single(n)
  <2>1. ASSUME NEW a \in Agents PROVE IsInjective(n.mail[a])
    <3>1. IsInjective(t.mail[a])
      BY <1>1 DEF Mail, Single
    <3>2. CASE a = to
      BY <1>14, <1>16, <1>19, <3>2
    <3>3. CASE a # to
      BY <1>16, <1>19, <3>1, <3>3
    <3> QED
      BY <3>2, <3>3
  <2>2. \A a \in Agents : /\ n.steered[a] \cap ToSet(n.asides[a]) = {}
                          /\ IsInjective(n.asides[a]) /\ IsInjective(n.revival[a])
    BY <1>1, <1>19 DEF Mail, Single
  <2> QED
    BY <2>1, <2>2 DEF Single
<1> QED
  BY <1>19, <1>22, <1>23, <1>24, FiledQuietly

\* Sending a message settles what becomes of it, and nobody awaits too early.
LEMMA SendKeeps ==
  ASSUME NEW R, NEW t, Whole(t, R), HeardAll(t, R), NEW i \in R, NEW n, n = Send(t, i)
  PROVE  Passed(n, t, R, i) /\ HeardAll(n, R \ {i})
<1>1. t \in Nets /\ Mail(t, R) /\ Calling(t, R) /\ R \subseteq Sent(t) /\ Sent(t) \subseteq Ids
  BY DEF Whole, Fit, Mail, Counted
<1>2. PICK to : to = t.sent[i].to
  OBVIOUS
<1>3. to \in Agents /\ i \in Ids /\ t.receipt[i] \in {"none", "reviving"}
  BY <1>1, <1>2, NowhereYet
<1>4. t.session[to] \in {"live", "disposed", "none"}
  BY <1>1, <1>3, NetFields
<1>5. Passed(n, t, R, i)
  <2>1. CASE t.status[to] = "aborted"
    <3>1. n = Receive(t, i, "failed")
      BY <1>2, <2>1 DEF Send
    <3> QED
      BY <3>1, RefusedKeeps
  <2>2. CASE t.status[to] = "parked"
    <3>1. n = AwaitRevival(t, i)
      BY <1>2, <2>2 DEF Send
    <3> QED
      BY <1>2, <2>2, <3>1, RevivingKeeps
  <2>3. CASE t.status[to] \notin {"aborted", "parked"}
    <3>1. n = Deliver(t, i)
      BY <1>2, <2>3 DEF Send
    <3>2. PICK k : k = MatchingWaiter(t, i)
      OBVIOUS
    <3>3. CASE k # 0
      <4>1. n = Receive(Resolve(t, k, i), i, "delivered")
        BY <3>1, <3>2, <3>3 DEF Deliver
      <4>2. Heard(t, i)
        BY DEF HeardAll
      <4> QED
        BY <3>2, <3>3, <4>1, <4>2, ResolvedKeeps
    <3>4. CASE k = 0 /\ t.session[to] = "none"
      <4>1. n = Receive(t, i, "failed")
        BY <1>2, <3>1, <3>2, <3>4 DEF Deliver
      <4> QED
        BY <4>1, RefusedKeeps
    <3>5. CASE k = 0 /\ t.session[to] # "none"
      <4>1. n = DeliverToSession(t, i)
        BY <1>2, <3>1, <3>2, <3>5 DEF Deliver
      <4>2. CASE t.session[to] = "disposed"
        <5>1. n = Receive(Enqueue(t, i), i, "unseen")
          BY <1>2, <4>1, <4>2 DEF DeliverToSession
        <5> QED
          BY <5>1, UnseenKeeps
      <4>3. CASE t.session[to] # "disposed" /\ t.status[to] # "running"
        <5>1. n = Receive(Wake(t, to, {i}), i, "delivered")
          BY <1>2, <4>1, <4>3 DEF DeliverToSession
        <5>2. t.session[to] = "live"
          BY <1>4, <3>5, <4>3
        <5> QED
          BY <1>2, <2>3, <4>3, <5>1, <5>2, WokenKeeps
      <4>4. CASE t.session[to] # "disposed" /\ t.status[to] = "running"
        <5>1. PICK due : due = IF t.sent[i].awaited /\ ~AsyncEnabled THEN {i} ELSE {}
          OBVIOUS
        <5>2. due \in SUBSET {i}
          BY <5>1
        <5>3. CASE t.sent[i].from = Parent[to]
          <6>1. n = Receive(Steer(t, t.sent[i].to, i, due), i, "delivered")
            BY <1>2, <4>1, <4>4, <5>1, <5>3 DEF DeliverToSession, Steer
          <6> QED
            BY <5>2, <6>1, SteerKeeps
        <5>4. CASE t.sent[i].from # Parent[to]
          <6>1. n = Receive(Aside(t, t.sent[i].to, i, due), i, "delivered")
            BY <1>2, <4>1, <4>4, <5>1, <5>4 DEF DeliverToSession, Aside
          <6> QED
            BY <5>2, <6>1, AsideKeeps
        <5> QED
          BY <5>3, <5>4
      <4> QED
        BY <4>2, <4>3, <4>4
    <3> QED
      BY <3>3, <3>4, <3>5
  <2> QED
    BY <2>1, <2>2, <2>3
<1>6. ASSUME NEW j \in R \ {i} PROVE Heard(n, j)
  <2>1. PICK a : a = t.sent[j].to
    OBVIOUS
  <2>2. a \in Agents /\ n.sent = t.sent
    BY <1>1, <1>5, <2>1, SentFacts DEF Passed
  <2>3. SUFFICES ASSUME n.call[a].kind = "await", n.sent[n.call[a].id].to = n.sent[j].from
                 PROVE  n.receipt[n.call[a].id] = "delivered"
    BY <2>1, <2>2 DEF Heard
  <2>4. t.call[a].kind = "await" /\ n.call[a].id = t.call[a].id
    BY <1>5, <2>2, <2>3 DEF Passed, Milder
  <2>5. t.receipt[t.call[a].id] = "delivered"
    BY <2>1, <2>2, <2>3, <2>4 DEF HeardAll, Heard
  <2>6. t.call[a].id \in Ids
    BY <1>1, <2>2, <2>4 DEF Calling, CallFits
  <2>7. t.call[a].id # i
    BY <1>3, <2>5
  <2> QED
    BY <1>5, <2>4, <2>5, <2>6, <2>7 DEF Passed
<1> QED
  BY <1>5, <1>6 DEF HeardAll

-----------------------------------------------------------------------------
\* What holds at 0 and is passed on holds up to k.
LEMMA Climb ==
  ASSUME NEW k \in Nat, NEW T \in SUBSET (0..k), 0 \in T,
         \A i \in 1..k : i - 1 \in T => i \in T
  PROVE  T = 0..k
<1> DEFINE Bad == (0..k) \ T
<1>1. SUFFICES ASSUME Bad # {} PROVE FALSE
  OBVIOUS
<1>2. PICK b \in Bad : \A i \in Bad : b <= i
  <2>1. Bad \in SUBSET Nat
    OBVIOUS
  <2> HIDE DEF Bad
  <2> QED
    BY <1>1, <2>1, Smallest
<1>3. b \in 1..k /\ b - 1 \in 0..k /\ b - 1 \notin Bad
  BY <1>2
<1> QED
  BY <1>2, <1>3

\* Sending one message after another, round by round.
Round(f, t, ids, k) == f[k] = IF k = 0 THEN t ELSE Send(f[k - 1], ids[k])

\* SendEach sends message after message: f[k] is the bus after the first k.
LEMMA EachRound ==
  ASSUME NEW t, NEW ids \in Seq(Ids)
  PROVE  \E f : SendEach(t, ids) = f[Len(ids)] /\ \A k \in 0..Len(ids) : Round(f, t, ids, k)
<1> DEFINE Runs(f, j) == f = [k \in 0..j |-> IF k = 0 THEN t ELSE Send(f[k - 1], ids[k])]
           T == {j \in 0..Len(ids) : \E f : Runs(f, j)}
<1>0. Len(ids) \in Nat
  OBVIOUS
<1>1. 0 \in T
  <2>1. Runs([k \in 0..0 |-> t], 0)
    OBVIOUS
  <2> HIDE DEF Runs
  <2> QED
    BY <1>0, <2>1
<1>2. ASSUME NEW j \in 1..Len(ids), j - 1 \in T PROVE j \in T
  <2>1. PICK f : Runs(f, j - 1)
    BY <1>2
  <2>2. \A k \in 0..(j - 1) : f[k] = IF k = 0 THEN t ELSE Send(f[k - 1], ids[k])
    BY <2>1
  <2>3. PICK h : h = [k \in 0..j |-> IF k = j THEN Send(f[j - 1], ids[j]) ELSE f[k]]
    OBVIOUS
  <2>4. ASSUME NEW k \in 0..j PROVE h[k] = IF k = 0 THEN t ELSE Send(h[k - 1], ids[k])
    <3>1. CASE k = j
      <4>1. h[k - 1] = f[j - 1] /\ k # 0 /\ h[k] = Send(f[j - 1], ids[j])
        BY <2>3, <3>1
      <4> QED
        BY <3>1, <4>1
    <3>2. CASE k # j
      <4>1. k \in 0..(j - 1) /\ h[k] = f[k]
        BY <2>3, <3>2
      <4>2. k # 0 => h[k - 1] = f[k - 1]
        BY <2>3, <3>2
      <4> QED
        BY <2>2, <4>1, <4>2
    <3> QED
      BY <3>1, <3>2
  <2>5. h = [k \in 0..j |-> h[k]]
    BY <2>3
  <2>6. Runs(h, j)
    BY <2>4, <2>5
  <2> HIDE DEF Runs
  <2> QED
    BY <2>6
<1>3. T \in SUBSET (0..Len(ids))
  OBVIOUS
<1>4. T = 0..Len(ids)
  <2> HIDE DEF T
  <2> QED
    BY <1>0, <1>1, <1>2, <1>3, Climb
<1>5. \E f : Runs(f, Len(ids))
  BY <1>0, <1>4
<1>6. PICK g : g = CHOOSE f : Runs(f, Len(ids))
  OBVIOUS
<1>7. SendEach(t, ids) = g[Len(ids)]
  BY <1>6 DEF SendEach
<1>8. Runs(g, Len(ids))
  <2> HIDE DEF Runs
  <2> QED
    BY <1>5, <1>6
<1>9. \A k \in 0..Len(ids) : g[k] = IF k = 0 THEN t ELSE Send(g[k - 1], ids[k])
  BY <1>8
<1> QED
  BY <1>7, <1>9 DEF Round

\* What sending the messages R leaves of t.
Sends(n, t, R) ==
  n.sent = t.sent /\ Milder(n, t) /\ \A j \in Ids \ R : n.receipt[j] = t.receipt[j]

\* Sending a number of messages settles what becomes of each.
LEMMA SendEachKeeps ==
  ASSUME NEW R, NEW t, Whole(t, R), HeardAll(t, R),
         NEW ids \in Seq(Ids), IsInjective(ids), ToSet(ids) = R, NEW n, n = SendEach(t, ids)
  PROVE  Whole(n, {}) /\ Sends(n, t, R)
<1>1. /\ Len(ids) \in Nat /\ \A k \in 1..Len(ids) : ids[k] \in R
      /\ \A k, l \in 1..Len(ids) : ids[k] = ids[l] => k = l
      /\ \A j \in R : \E k \in 1..Len(ids) : ids[k] = j
  <2>1. DOMAIN ids = 1..Len(ids) /\ Len(ids) \in Nat
    OBVIOUS
  <2>2. \A k, l \in 1..Len(ids) : ids[k] = ids[l] => k = l
    BY <2>1 DEF IsInjective
  <2>3. \A j : j \in R <=> \E k \in 1..Len(ids) : ids[k] = j
    BY Elements
  <2> QED
    BY <2>1, <2>2, <2>3
<1>2. PICK f : SendEach(t, ids) = f[Len(ids)] /\ \A k \in 0..Len(ids) : Round(f, t, ids, k)
  BY EachRound
<1> DEFINE Rest(k) == {ids[l] : l \in (k + 1)..Len(ids)}
           Good(k) == /\ Whole(f[k], Rest(k)) /\ HeardAll(f[k], Rest(k))
                      /\ Sends(f[k], t, R)
           T == {k \in 0..Len(ids) : Good(k)}
<1>3. 0 \in T
  <2>1. f[0] = t
    BY <1>1, <1>2 DEF Round
  <2>2. Rest(0) = R
    BY <1>1
  <2>3. Sends(f[0], t, R)
    BY <2>1 DEF Sends, Milder
  <2> HIDE DEF Rest
  <2> QED
    BY <1>1, <2>1, <2>2, <2>3
<1>4. ASSUME NEW k \in 1..Len(ids), k - 1 \in T PROVE k \in T
  <2>1. PICK u, v, i : u = f[k - 1] /\ v = f[k] /\ i = ids[k]
    OBVIOUS
  <2>2. v = Send(u, i)
    BY <1>1, <1>2, <2>1 DEF Round
  <2>3. i \in Rest(k - 1) /\ Rest(k) = Rest(k - 1) \ {i} /\ i \in R
    <3>1. k \in ((k - 1) + 1)..Len(ids)
      BY <1>1
    <3>2. \A l \in (k + 1)..Len(ids) : l \in ((k - 1) + 1)..Len(ids) /\ l # k /\ l \in 1..Len(ids)
      BY <1>1
    <3>3. \A l \in ((k - 1) + 1)..Len(ids) : l = k \/ l \in (k + 1)..Len(ids)
      BY <1>1
    <3>4. i \in Rest(k - 1)
      BY <2>1, <3>1
    <3>5. ASSUME NEW x \in Rest(k) PROVE x \in Rest(k - 1) /\ x # i
      <4>1. PICK l \in (k + 1)..Len(ids) : x = ids[l]
        BY <3>5
      <4>2. l \in ((k - 1) + 1)..Len(ids) /\ l # k /\ l \in 1..Len(ids)
        BY <3>2, <4>1
      <4>3. x # i
        BY <1>1, <2>1, <4>1, <4>2
      <4> QED
        BY <4>1, <4>2, <4>3
    <3>6. ASSUME NEW x \in Rest(k - 1), x # i PROVE x \in Rest(k)
      <4>1. PICK l \in ((k - 1) + 1)..Len(ids) : x = ids[l]
        BY <3>6
      <4>2. l \in (k + 1)..Len(ids)
        BY <2>1, <3>3, <3>6, <4>1
      <4> QED
        BY <4>1, <4>2
    <3>7. i \in R
      BY <1>1, <2>1
    <3> QED
      BY <3>4, <3>5, <3>6, <3>7
  <2>4. PICK Q : Q = Rest(k - 1)
    OBVIOUS
  <2>5. Whole(u, Q) /\ HeardAll(u, Q) /\ Sends(u, t, R) /\ i \in Q /\ i \in R
    BY <1>4, <2>1, <2>3, <2>4
  <2>6. Passed(v, u, Q, i) /\ HeardAll(v, Q \ {i})
    BY <2>2, <2>5, SendKeeps
  <2>7. Whole(v, Q \ {i}) /\ v.sent = u.sent /\ Milder(v, u)
        /\ \A j \in Ids \ {i} : v.receipt[j] = u.receipt[j]
    BY <2>6 DEF Passed
  <2>8. Sends(v, t, R)
    <3>1. v.sent = t.sent
      BY <2>5, <2>7 DEF Sends
    <3>2. Milder(v, t)
      BY <2>5, <2>7 DEF Sends, Milder
    <3>3. \A j \in Ids \ R : v.receipt[j] = t.receipt[j]
      BY <2>5, <2>7 DEF Sends
    <3> QED
      BY <3>1, <3>2, <3>3 DEF Sends
  <2>9. Rest(k) = Q \ {i}
    BY <2>3, <2>4
  <2>10. Good(k)
    <3> HIDE DEF Rest
    <3> QED
      BY <2>1, <2>6, <2>7, <2>8, <2>9
  <2> HIDE DEF Good
  <2> QED
    BY <1>1, <2>10
<1>5. T \in SUBSET (0..Len(ids))
  OBVIOUS
<1>6. T = 0..Len(ids)
  <2> HIDE DEF T
  <2> QED
    BY <1>1, <1>3, <1>4, <1>5, Climb
<1>7. Good(Len(ids))
  <2> HIDE DEF Good
  <2> QED
    BY <1>1, <1>6
<1>8. Rest(Len(ids)) = {}
  BY <1>1
<1>9. f[Len(ids)] = n
  BY <1>2
<1> HIDE DEF Rest
<1> QED
  BY <1>7, <1>8, <1>9

\* The messages ids, which were held, are shown in n.
Taken(n, t, ids) ==
  /\ n.sent = t.sent /\ n.receipt = t.receipt /\ n.dropped = t.dropped
  /\ n.due = t.due /\ n.revival = t.revival
  /\ \A j \in Ids : n.shown[j] = IF j \in ids THEN t.shown[j] + 1 ELSE t.shown[j]
  /\ \A a \in Agents : \A j \in Ids :
       /\ j \in Pending(n, a) <=> j \in Pending(t, a) /\ j \notin ids
       /\ j \in ToSet(n.mail[a]) <=> j \in ToSet(t.mail[a]) /\ j \notin ids
       /\ j = Got(n, a) <=> j = Got(t, a) /\ j \notin ids
  /\ \A a \in Agents : t.status[a] = "aborted" => n.status[a] = "aborted"

HeldBy(t, a, j) == j \in Pending(t, a) \/ j \in ToSet(t.mail[a]) \/ j = Got(t, a)

\* What is held was not shown, and only the recipient holds it.
LEMMA HeldByFacts ==
  ASSUME NEW R, NEW t \in Nets, Mail(t, R), NEW a \in Agents, NEW j \in Ids, HeldBy(t, a, j)
  PROVE  /\ j \in Sent(t) /\ t.sent[j].to = a /\ t.shown[j] = 0
         /\ t.receipt[j] \in {"delivered", "unseen"}
         /\ j \in Pending(t, a) \/ j = Got(t, a) => t.receipt[j] = "delivered"
<1>1. j # NoId
  BY Numbers
<1>2. Placed(t, R)
  BY DEF Mail
<1>3. j \in Pending(t, a) => j \in To(t, a) /\ t.receipt[j] = "delivered" /\ t.shown[j] = 0
  BY <1>2 DEF Placed
<1>4. j \in ToSet(t.mail[a]) => j \in To(t, a) /\ t.receipt[j] = "unseen" /\ t.shown[j] = 0
  BY <1>2 DEF Placed
<1>5. j = Got(t, a) => j \in To(t, a) /\ t.receipt[j] = "delivered" /\ t.shown[j] = 0
  BY <1>1, <1>2 DEF Placed
<1>6. j \in To(t, a) => j \in Sent(t) /\ t.sent[j].to = a
  BY DEF To
<1> QED
  BY <1>3, <1>4, <1>5, <1>6 DEF HeldBy

\* Showing what was held keeps the mail in order.
LEMMA TakenKeeps ==
  ASSUME NEW R, NEW t \in Nets, Mail(t, R), NEW n \in Nets, NEW ids \in SUBSET Ids,
         Taken(n, t, ids), Single(n), \A j \in ids : \E a \in Agents : HeldBy(t, a, j)
  PROVE  Mail(n, R)
<1>1. Sent(n) = Sent(t) /\ n.sent = t.sent /\ \A a : To(n, a) = To(t, a)
  BY DEF Taken, Sent, To
<1>2. \A j \in ids : /\ t.shown[j] = 0 /\ n.shown[j] = 1
                     /\ t.receipt[j] \in {"delivered", "unseen"}
  BY HeldByFacts DEF Taken
<1>3. \A j \in Ids : j \notin ids => n.shown[j] = t.shown[j]
  BY DEF Taken
<1>4. n.receipt = t.receipt /\ n.revival = t.revival /\ n.dropped = t.dropped /\ n.due = t.due
  BY DEF Taken
<1>5. Placed(n, R)
  <2>1. ASSUME NEW a \in Agents, NEW j \in Pending(n, a)
        PROVE  j \in To(n, a) /\ n.receipt[j] = "delivered" /\ n.shown[j] = 0
    <3>1. j \in Ids
      BY HeldFacts
    <3>2. j \in Pending(t, a) /\ j \notin ids
      BY <2>1, <3>1 DEF Taken
    <3> QED
      BY <1>1, <1>3, <1>4, <3>1, <3>2 DEF Mail, Placed
  <2>2. ASSUME NEW a \in Agents, NEW j \in ToSet(n.mail[a])
        PROVE  j \in To(n, a) /\ n.receipt[j] = "unseen" /\ n.shown[j] = 0
    <3>1. j \in Ids
      BY HeldFacts
    <3>2. j \in ToSet(t.mail[a]) /\ j \notin ids
      BY <2>2, <3>1 DEF Taken
    <3> QED
      BY <1>1, <1>3, <1>4, <3>1, <3>2 DEF Mail, Placed
  <2>3. ASSUME NEW a \in Agents, NEW j \in ToSet(n.revival[a])
        PROVE  j \in To(n, a) /\ n.receipt[j] = "reviving"
    BY <1>1, <1>4, <2>3 DEF Mail, Placed
  <2>4. ASSUME NEW a \in Agents, Got(n, a) # NoId
        PROVE  /\ Got(n, a) \in To(n, a) \ Pending(n, a)
               /\ n.receipt[Got(n, a)] = "delivered" /\ n.shown[Got(n, a)] = 0
    <3>1. PICK j : j = Got(n, a)
      OBVIOUS
    <3>2. j \in Ids
      BY <2>4, <3>1, HeldFacts
    <3>3. j = Got(t, a) /\ j \notin ids /\ j # NoId
      BY <2>4, <3>1, <3>2 DEF Taken
    <3>4. j \in To(t, a) \ Pending(t, a) /\ t.receipt[j] = "delivered" /\ t.shown[j] = 0
      BY <3>3 DEF Mail, Placed
    <3>5. j \notin Pending(n, a)
      BY <3>2, <3>4 DEF Taken
    <3> QED
      BY <1>1, <1>3, <1>4, <3>1, <3>2, <3>3, <3>4, <3>5
  <2>5. ASSUME NEW j \in Ids
        PROVE  /\ n.shown[j] <= 1
               /\ n.receipt[j] \in {"none", "reviving", "failed"} => n.shown[j] = 0
    <3>1. CASE j \in ids
      BY <1>2, <1>4, <3>1
    <3>2. CASE j \notin ids
      BY <1>3, <1>4, <3>2 DEF Mail, Placed
    <3> QED
      BY <3>1, <3>2
  <2> QED
    BY <2>1, <2>2, <2>3, <2>4, <2>5 DEF Placed
<1>6. Counted(n, R)
  BY <1>1, <1>4 DEF Mail, Counted
<1>7. Promised(n)
  <2> SUFFICES ASSUME NEW j \in Sent(n), NEW to, to = n.sent[j].to
               PROVE  /\ n.receipt[j] = "delivered" =>
                           \/ n.shown[j] > 0 \/ j \in Pending(n, to) \/ j = Got(n, to)
                           \/ n.status[to] = "aborted"
                      /\ n.receipt[j] = "unseen" =>
                           n.shown[j] > 0 \/ j \in ToSet(n.mail[to]) \/ j \in n.dropped
    BY DEF Promised
  <2>1. j \in Ids /\ to \in Agents /\ to = t.sent[j].to /\ j \in Sent(t)
    BY <1>1, SentFacts DEF Mail, Counted
  <2>2. CASE j \in ids
    BY <1>2, <2>2
  <2>3. CASE j \notin ids
    <3>1. /\ t.receipt[j] = "delivered" => \/ t.shown[j] > 0 \/ j \in Pending(t, to)
                                           \/ j = Got(t, to) \/ t.status[to] = "aborted"
          /\ t.receipt[j] = "unseen" =>
               t.shown[j] > 0 \/ j \in ToSet(t.mail[to]) \/ j \in t.dropped
      BY <2>1 DEF Mail, Promised
    <3>2. /\ j \in Pending(t, to) => j \in Pending(n, to)
          /\ j \in ToSet(t.mail[to]) => j \in ToSet(n.mail[to])
          /\ j = Got(t, to) => j = Got(n, to)
          /\ t.status[to] = "aborted" => n.status[to] = "aborted"
      BY <2>1, <2>3 DEF Taken
    <3> QED
      BY <1>3, <1>4, <2>1, <2>3, <3>1, <3>2
  <2> QED
    BY <2>2, <2>3
<1> QED
  BY <1>5, <1>6, <1>7 DEF Mail

\* Showing messages touches no other field.
LEMMA ShowFields ==
  ASSUME NEW t \in Nets, NEW ids, NEW n, n = Show(t, ids)
  PROVE  /\ n \in Nets /\ n.sent = t.sent /\ n.receipt = t.receipt
         /\ n.steered = t.steered /\ n.asides = t.asides /\ n.mail = t.mail
         /\ n.revival = t.revival /\ n.dropped = t.dropped /\ n.due = t.due
         /\ n.call = t.call /\ n.waiters = t.waiters /\ n.status = t.status
         /\ n.session = t.session /\ n.collector = t.collector
         /\ \A j \in Ids : n.shown[j] = IF j \in ids THEN t.shown[j] + 1 ELSE t.shown[j]
<1>1. PICK s : s = [j \in Ids |-> IF j \in ids THEN t.shown[j] + 1 ELSE t.shown[j]]
  OBVIOUS
<1>2. s \in [Ids -> Nat]
  BY <1>1, NetFields
<1>3. n = [t EXCEPT !.shown = s]
  BY <1>1 DEF Show, Nets
<1>4. /\ n \in Nets /\ n.sent = t.sent /\ n.receipt = t.receipt
      /\ n.steered = t.steered /\ n.asides = t.asides /\ n.mail = t.mail
      /\ n.revival = t.revival /\ n.dropped = t.dropped /\ n.due = t.due
      /\ n.call = t.call /\ n.waiters = t.waiters /\ n.status = t.status
      /\ n.session = t.session /\ n.collector = t.collector /\ n.shown = s
  BY <1>2, <1>3 DEF Nets
<1>5. \A j \in Ids : n.shown[j] = IF j \in ids THEN t.shown[j] + 1 ELSE t.shown[j]
  BY <1>1, <1>4
<1> QED
  BY <1>4, <1>5

\* The end of the `send await` calls leaves no answer in between.
LEMMA ConcludeKeeps ==
  ASSUME NEW t, Whole(t, {}), NEW n, n = Conclude(t)
  PROVE  Whole(n, {}) /\ Settled(n)
<1> DEFINE Out(a) == t.call[a].kind = "await" /\ t.receipt[t.call[a].id] # "reviving"
           Failed(a) == Out(a) /\ t.receipt[t.call[a].id] \in {"failed", "unseen"}
           Done(a) == Failed(a) \/ (Out(a) /\ ~t.call[a].open)
           Answers == {t.call[a].got : a \in {b \in Agents : Done(b) /\ ~Failed(b)}} \ {NoId}
<1>1. /\ t \in Nets /\ Mail(t, {}) /\ Calling(t, {}) /\ Living(t) /\ Calm(t) /\ Gathering(t)
      /\ t.waiters \in [Agents -> Seq(Waiters)] /\ t.call \in [Agents -> Calls]
      /\ t.receipt \in [Ids -> Receipts] /\ Sent(t) \subseteq Ids
  BY NetFields DEF Whole, Fit, Mail, Counted
<1>2. PICK W : W = [a \in Agents |-> IF Failed(a) THEN Withdraw(t.waiters[a]) ELSE t.waiters[a]]
  OBVIOUS
<1>3. PICK C : C = [a \in Agents |-> IF Done(a) THEN NoCall ELSE t.call[a]]
  OBVIOUS
<1>4. PICK u : u = [t EXCEPT !.waiters = W, !.call = C]
  OBVIOUS
<1>5. n = Show(u, Answers)
  BY <1>1, <1>2, <1>3, <1>4 DEF Conclude, Nets
<1>6. ASSUME NEW a \in Agents
      PROVE  /\ W[a] \in Seq(Waiters) /\ ToSet(W[a]) \subseteq ToSet(t.waiters[a]) /\ OneTool(W[a])
             /\ Done(a) => \A w \in ToSet(W[a]) : w.owner # "tool"
             /\ ~Done(a) => W[a] = t.waiters[a]
  <2>1. /\ t.waiters[a] \in Seq(Waiters) /\ OneTool(t.waiters[a]) /\ WaitersFit(t, a)
    BY <1>1 DEF Calling, WaitersFit
  <2>2. CASE Failed(a)
    <3>1. W[a] = Withdraw(t.waiters[a])
      BY <1>2, <2>2
    <3> QED
      BY <2>1, <2>2, <3>1, WithdrawFacts
  <2>3. CASE ~Failed(a)
    <3>1. W[a] = t.waiters[a]
      BY <1>2, <2>3
    <3>2. Done(a) => ~t.call[a].open
      BY <2>3
    <3> HIDE DEF Done
    <3> QED
      BY <2>1, <3>1, <3>2 DEF WaitersFit
  <2> QED
    BY <2>2, <2>3
<1>7. W \in [Agents -> Seq(Waiters)] /\ C \in [Agents -> Calls]
  <2>1. W \in [Agents -> Seq(Waiters)]
    BY <1>2, <1>6
  <2>2. C \in [Agents -> Calls]
    <3> HIDE DEF Done
    <3> QED
      BY <1>1, <1>3, NoCallFacts
  <2> QED
    BY <2>1, <2>2
<1>8. /\ u \in Nets /\ u.waiters = W /\ u.call = C /\ SameMail(u, t)
      /\ u.status = t.status /\ u.session = t.session /\ u.collector = t.collector
  BY <1>1, <1>4, <1>7 DEF Nets, SameMail
<1>9. /\ n \in Nets /\ n.sent = u.sent /\ n.receipt = u.receipt
      /\ n.steered = u.steered /\ n.asides = u.asides /\ n.mail = u.mail
      /\ n.revival = u.revival /\ n.dropped = u.dropped /\ n.due = u.due
      /\ n.call = u.call /\ n.waiters = u.waiters /\ n.status = u.status
      /\ n.session = u.session /\ n.collector = u.collector
      /\ \A j \in Ids : n.shown[j] = IF j \in Answers THEN u.shown[j] + 1 ELSE u.shown[j]
  <2>1. PICK ids : ids = Answers
    OBVIOUS
  <2>2. n = Show(u, ids)
    BY <1>5, <2>1
  <2> HIDE DEF Answers
  <2>3. /\ n \in Nets /\ n.sent = u.sent /\ n.receipt = u.receipt
        /\ n.steered = u.steered /\ n.asides = u.asides /\ n.mail = u.mail
        /\ n.revival = u.revival /\ n.dropped = u.dropped /\ n.due = u.due
        /\ n.call = u.call /\ n.waiters = u.waiters /\ n.status = u.status
        /\ n.session = u.session /\ n.collector = u.collector
    BY <1>8, <2>2, ShowFields
  <2>4. \A j \in Ids : n.shown[j] = IF j \in ids THEN u.shown[j] + 1 ELSE u.shown[j]
    BY <1>8, <2>2, ShowFields
  <2> QED
    BY <2>1, <2>3, <2>4
<1>10. /\ n.sent = t.sent /\ n.receipt = t.receipt
       /\ n.steered = t.steered /\ n.asides = t.asides /\ n.mail = t.mail
       /\ n.revival = t.revival /\ n.dropped = t.dropped /\ n.due = t.due
       /\ n.call = C /\ n.waiters = W /\ n.status = t.status
       /\ n.session = t.session /\ n.collector = t.collector /\ u.shown = t.shown
       /\ Sent(n) = Sent(t)
  BY <1>8, <1>9 DEF SameMail, Sent
<1>11. ASSUME NEW a \in Agents
       PROVE  /\ CallFits(t, {}, a)
              /\ t.call[a].kind = "await" =>
                   t.receipt[t.call[a].id] \in {"reviving", "failed", "unseen", "delivered"}
              /\ Got(t, a) # NoId => Done(a) /\ ~Failed(a) /\ Got(t, a) \in Answers
              /\ Got(n, a) = NoId
              /\ ~Done(a) => C[a] = t.call[a]
              /\ Done(a) => C[a] = NoCall
  <2>1. CallFits(t, {}, a)
    BY <1>1 DEF Calling
  <2>2. t.call[a].kind = "await" =>
          t.receipt[t.call[a].id] \in {"reviving", "failed", "unseen", "delivered"}
    BY <1>1, <2>1 DEF CallFits, Receipts
  <2>3. Got(t, a) # NoId => Done(a) /\ ~Failed(a) /\ Got(t, a) \in Answers
    BY <2>1 DEF CallFits, Got
  <2>4. (~Done(a) => C[a] = t.call[a]) /\ (Done(a) => C[a] = NoCall)
    BY <1>3
  <2>5. Got(n, a) = NoId
    <3> HIDE DEF Done, Answers
    <3> QED
      BY <1>10, <2>3, <2>4, NoCallFacts DEF Got
  <2> QED
    BY <2>1, <2>2, <2>3, <2>4, <2>5
<1>12. ASSUME NEW j \in Answers
       PROVE  \E a \in Agents : j = Got(t, a) /\ j # NoId
  BY DEF Got
<1> HIDE DEF Answers
<1>13. Answers \in SUBSET Ids
  BY <1>1, <1>12, HeldFacts
<1>14. \A a \in Agents : Pending(n, a) = Pending(t, a)
  BY <1>10 DEF Pending
<1>15. ASSUME NEW a \in Agents, NEW j \in Ids
       PROVE  /\ j \in Pending(t, a) => j \notin Answers
              /\ j \in ToSet(t.mail[a]) => j \notin Answers
              /\ j = Got(t, a) => j \in Answers
  <2>1. ASSUME j \in Answers, j \in Pending(t, a) \/ j \in ToSet(t.mail[a]) PROVE FALSE
    <3>1. PICK b \in Agents : j = Got(t, b) /\ j # NoId
      BY <1>12, <2>1
    <3>2. HeldBy(t, a, j) /\ HeldBy(t, b, j)
      BY <2>1, <3>1 DEF HeldBy
    <3>3. t.sent[j].to = a
      BY <1>1, <3>2, HeldByFacts
    <3>4. t.sent[j].to = b /\ t.receipt[j] = "delivered"
      BY <1>1, <3>1, <3>2, HeldByFacts
    <3>5. j \notin Pending(t, a)
      BY <1>1, <3>1, <3>3, <3>4 DEF Mail, Placed
    <3>6. j \notin ToSet(t.mail[a])
      BY <1>1, <3>4 DEF Mail, Placed
    <3> QED
      BY <2>1, <3>5, <3>6
  <2>2. j = Got(t, a) => j \in Answers
    BY <1>11, Numbers
  <2> QED
    BY <2>1, <2>2
<1>16. Mail(n, {})
  <2>1. Taken(n, t, Answers)
    <3>1. ASSUME NEW a \in Agents, NEW j \in Ids
          PROVE  /\ j \in Pending(n, a) <=> j \in Pending(t, a) /\ j \notin Answers
                 /\ j \in ToSet(n.mail[a]) <=> j \in ToSet(t.mail[a]) /\ j \notin Answers
                 /\ j = Got(n, a) <=> j = Got(t, a) /\ j \notin Answers
      <4>1. j # Got(n, a)
        BY <1>11, Numbers
      <4> QED
        BY <1>10, <1>14, <1>15, <4>1
    <3> QED
      BY <1>9, <1>10, <3>1 DEF Taken
  <2>2. Single(n)
    BY <1>1, <1>10 DEF Mail, Single
  <2>3. \A j \in Answers : \E a \in Agents : HeldBy(t, a, j)
    BY <1>12 DEF HeldBy
  <2> QED
    BY <1>1, <1>9, <1>13, <2>1, <2>2, <2>3, TakenKeeps
<1>17. ASSUME NEW a \in Agents
       PROVE  /\ CallFits(n, {}, a) /\ WaitersFit(n, a)
              /\ n.call[a].kind = "await" => n.receipt[n.call[a].id] \in {"delivered", "reviving"}
  <2>1. WaitersFit(t, a)
    BY <1>1 DEF Calling
  <2>2. CASE Done(a)
    <3>1. n.call[a] = NoCall /\ n.waiters[a] = W[a] /\ \A w \in ToSet(W[a]) : w.owner # "tool"
      BY <1>6, <1>10, <1>11, <2>2
    <3> HIDE DEF Done
    <3>2. CallFits(n, {}, a)
      BY <3>1, NoCallFacts DEF CallFits, Got
    <3>3. WaitersFit(n, a)
      BY <1>6, <2>1, <3>1 DEF WaitersFit
    <3> QED
      BY <3>1, <3>2, <3>3, NoCallFacts
  <2>3. CASE ~Done(a)
    <3>1. n.call[a] = t.call[a] /\ n.waiters[a] = t.waiters[a]
      BY <1>6, <1>10, <1>11, <2>3
    <3>2. n.call[a].kind = "await" => n.receipt[n.call[a].id] \in {"delivered", "reviving"}
      <4>1. ASSUME t.call[a].kind = "await"
            PROVE  t.receipt[t.call[a].id] \in {"delivered", "reviving"}
        <5>1. t.receipt[t.call[a].id] \notin {"failed", "unseen"}
          BY <2>3, <4>1
        <5>2. t.receipt[t.call[a].id] \in {"reviving", "failed", "unseen", "delivered"}
          BY <1>11, <4>1
        <5> QED
          BY <5>1, <5>2
      <4>2. n.receipt = t.receipt
        BY <1>10
      <4> QED
        BY <3>1, <4>1, <4>2
    <3> HIDE DEF Done
    <3>3. CallFits(n, {}, a)
      BY <1>10, <1>11, <3>1 DEF CallFits, Got
    <3>4. WaitersFit(n, a)
      BY <1>10, <2>1, <3>1 DEF WaitersFit
    <3> QED
      BY <3>2, <3>3, <3>4
  <2> QED
    BY <2>2, <2>3
<1>18. Gathering(n) /\ Living(n)
  BY <1>1, <1>10 DEF Gathering, Living, Lives
<1>19. Calm(n)
  <2>1. \A a \in Agents : n.waiters[a] \in Seq(Waiters) /\ t.waiters[a] \in Seq(Waiters)
    BY <1>1, <1>9, NetFields
  <2> QED
    BY <1>1, <1>6, <1>10, <2>1, CalmKept
<1> HIDE DEF Done
<1> QED
  BY <1>9, <1>11, <1>16, <1>17, <1>18, <1>19 DEF Whole, Fit, Calling, Settled

\* Waiters of a collector are added.
LEMMA MoreWaiters ==
  ASSUME NEW ws \in Seq(Waiters), OneTool(ws), NEW more \in Seq(Waiters),
         \A w \in ToSet(more) : w.owner = "collector", NEW r, r = ws \o more
  PROVE  /\ r \in Seq(Waiters) /\ OneTool(r)
         /\ \A w \in ToSet(r) : w \in ToSet(ws) \/ w \in ToSet(more)
<1>1. /\ r \in Seq(Waiters) /\ Len(r) = Len(ws) + Len(more)
      /\ \A i \in 1..(Len(ws) + Len(more)) :
           r[i] = IF i <= Len(ws) THEN ws[i] ELSE more[i - Len(ws)]
  BY ConcatProperties
<1>2. Len(ws) \in Nat /\ Len(more) \in Nat
  OBVIOUS
<1>3. ASSUME NEW i \in 1..Len(r)
      PROVE  \/ i \in 1..Len(ws) /\ r[i] = ws[i]
             \/ i - Len(ws) \in 1..Len(more) /\ r[i] = more[i - Len(ws)]
  BY <1>1, <1>2
<1>4. \A w : w \in ToSet(ws) <=> \E k \in 1..Len(ws) : ws[k] = w
  BY Elements
<1>5. \A w : w \in ToSet(more) <=> \E k \in 1..Len(more) : more[k] = w
  BY Elements
<1>6. \A w : w \in ToSet(r) <=> \E k \in 1..Len(r) : r[k] = w
  BY <1>1, Elements
<1>7. \A w \in ToSet(r) : w \in ToSet(ws) \/ w \in ToSet(more)
  BY <1>3, <1>4, <1>5, <1>6
<1>8. ASSUME NEW i \in 1..Len(r), r[i].owner = "tool" PROVE i \in 1..Len(ws) /\ r[i] = ws[i]
  <2>1. \A k \in 1..Len(more) : more[k] \in ToSet(more)
    BY <1>5
  <2> QED
    BY <1>3, <1>8, <2>1
<1>9. OneTool(r)
  BY <1>8 DEF OneTool
<1> QED
  BY <1>1, <1>7, <1>9

\* Listening adds waiters that no liveness check ends.
LEMMA ListenKeeps ==
  ASSUME NEW t, Whole(t, {}), Settled(t), NEW n, n = Listen(t)
  PROVE  Whole(n, {}) /\ Settled(n)
<1> DEFINE c == t.collector
           ws == [k \in 1..Len(c.asked) |-> [from |-> t.sent[c.asked[k]].to, guarded |-> FALSE,
                                             owner |-> "collector"]]
           Ready == c.phase = "sending" /\ \A k \in 1..Len(c.asked) : t.receipt[c.asked[k]] # "reviving"
<1>1. CASE ~Ready
  BY <1>1 DEF Listen
<1>2. CASE Ready
  <2>1. /\ t \in Nets /\ Mail(t, {}) /\ Calling(t, {}) /\ Living(t) /\ Calm(t) /\ Gathering(t)
        /\ t.waiters \in [Agents -> Seq(Waiters)] /\ t.collector \in Collectors
    BY NetFields DEF Whole, Fit
  <2>2. PICK a : a = c.for
    OBVIOUS
  <2>3. a \in Agents /\ ToSet(c.asked) \subseteq Sent(t) /\ c.asked \in Seq(Ids)
    BY <1>2, <2>1, <2>2 DEF Gathering, Collectors
  <2>4. PICK more : more = ws
    OBVIOUS
  <2>5. more \in Seq(Waiters) /\ \A k \in 1..Len(more) : ~more[k].guarded /\ more[k].owner = "collector"
    <3>1. Len(c.asked) \in Nat
      BY <2>3
    <3>2. ASSUME NEW k \in 1..Len(c.asked)
          PROVE  [from |-> t.sent[c.asked[k]].to, guarded |-> FALSE, owner |-> "collector"] \in Waiters
      <4>1. c.asked[k] \in Sent(t)
        <5>1. PICK q : q = c.asked
          OBVIOUS
        <5>2. q[k] \in ToSet(q)
          BY <2>3, <5>1, Elements
        <5> QED
          BY <2>3, <5>1, <5>2
      <4>2. t.sent[c.asked[k]].to \in Agents
        BY <2>1, <4>1, SentFacts
      <4> QED
        BY <4>2 DEF Waiters
    <3>3. more \in [1..Len(c.asked) -> Waiters]
      BY <2>4, <3>2
    <3>4. more \in Seq(Waiters) /\ Len(more) = Len(c.asked)
      BY <3>1, <3>3
    <3> QED
      BY <2>4, <3>4
  <2>6. \A w \in ToSet(more) : ~w.guarded /\ w.owner = "collector"
    BY <2>5, Elements
  <2>7. PICK q, r : q = t.waiters[a] /\ r = q \o more
    OBVIOUS
  <2>8. q \in Seq(Waiters) /\ OneTool(q)
    BY <2>1, <2>3, <2>7 DEF Calling, WaitersFit
  <2>9. /\ r \in Seq(Waiters) /\ OneTool(r)
        /\ \A w \in ToSet(r) : w \in ToSet(q) \/ w \in ToSet(more)
    BY <2>5, <2>6, <2>7, <2>8, MoreWaiters
  <2>10. PICK W : W = [t.waiters EXCEPT ![a] = r]
    OBVIOUS
  <2>11. W \in [Agents -> Seq(Waiters)] /\ W[a] = r /\ \A b \in Agents : b # a => W[b] = t.waiters[b]
    BY <2>1, <2>3, <2>9, <2>10
  <2>12. PICK d : d = [c EXCEPT !.phase = "listening"]
    OBVIOUS
  <2>13. d \in Collectors /\ d.for = c.for /\ d.asked = c.asked
    BY <2>1, <2>12 DEF Collectors
  <2>14. n = [t EXCEPT !.waiters = W, !.collector = d]
    BY <1>2, <2>1, <2>2, <2>4, <2>7, <2>10, <2>12 DEF Listen, Nets
  <2>15. /\ n \in Nets /\ n.waiters = W /\ n.collector = d /\ n.call = t.call
         /\ n.status = t.status /\ n.session = t.session /\ SameMail(n, t)
    BY <2>1, <2>11, <2>13, <2>14, ZenonT(60) DEF Nets, SameMail
  <2> HIDE DEF ws, Ready, c
  <2>16. Sent(n) = Sent(t) /\ n.sent = t.sent /\ n.receipt = t.receipt /\ n.revival = t.revival
    BY <2>15 DEF SameMail, Sent
  <2>17. Mail(n, {})
    <3>1. \A i \in Sent(t) : t.sent[i].to \in Agents
      BY <2>1, SentFacts
    <3>2. \A b \in Agents : Got(n, b) = Got(t, b)
      BY <2>15 DEF Got
    <3> QED
      BY <2>1, <2>15, <3>1, <3>2, MailKept
  <2>18. ASSUME NEW b \in Agents
         PROVE  /\ OneTool(n.waiters[b])
                /\ \A w \in ToSet(n.waiters[b]) :
                     w \in ToSet(t.waiters[b]) \/ (~w.guarded /\ w.owner = "collector")
    <3>1. CASE b = a
      BY <2>6, <2>7, <2>9, <2>11, <2>15, <3>1
    <3>2. CASE b # a
      BY <2>1, <2>11, <2>15, <3>2 DEF Calling, WaitersFit
    <3> QED
      BY <3>1, <3>2
  <2>19. ASSUME NEW b \in Agents PROVE CallFits(n, {}, b) /\ WaitersFit(n, b)
    <3>1. CallFits(t, {}, b) /\ WaitersFit(t, b)
      BY <2>1 DEF Calling
    <3>2. CallFits(n, {}, b)
      BY <2>15, <2>16, <3>1 DEF CallFits, Got
    <3>3. WaitersFit(n, b)
      BY <2>15, <2>16, <2>18, <3>1 DEF WaitersFit
    <3> QED
      BY <3>2, <3>3
  <2>20. Gathering(n) /\ Living(n)
    BY <2>1, <2>2, <2>3, <2>13, <2>15, <2>16 DEF Gathering, Living, Lives, c
  <2>21. Calm(n)
    <3>1. \A b \in Agents : n.waiters[b] \in Seq(Waiters) /\ t.waiters[b] \in Seq(Waiters)
      BY <2>1, <2>15, NetFields
    <3>2. \A b \in Agents : \A w \in ToSet(n.waiters[b]) : w.guarded => w \in ToSet(t.waiters[b])
      BY <2>18
    <3> QED
      BY <2>1, <2>15, <3>1, <3>2, CalmKept
  <2>22. Settled(n)
    BY <2>15, <2>16 DEF Settled, Got
  <2> QED
    BY <2>15, <2>17, <2>19, <2>20, <2>21, <2>22 DEF Whole, Fit, Calling
<1> QED
  BY <1>1, <1>2

\* The end of a collector touches nothing else.
LEMMA CollectedKeeps ==
  ASSUME NEW t, Whole(t, {}), Settled(t), NEW n, n = Collected(t)
  PROVE  Whole(n, {}) /\ Settled(n)
<1>1. CASE n = t
  BY <1>1
<1>2. CASE n = [t EXCEPT !.collector = NoCollector]
  <2>1. t \in Nets
    BY DEF Whole, Fit
  <2>2. NoCollector \in Collectors /\ NoCollector.phase = "off"
    BY DEF NoCollector, Collectors
  <2>3. /\ n \in Nets /\ SameMail(n, t) /\ n.status = t.status /\ n.session = t.session
        /\ n.waiters = t.waiters /\ n.call = t.call /\ n.collector = NoCollector
    BY <1>2, <2>1, <2>2 DEF Nets, SameMail
  <2>4. Gathering(n)
    BY <2>2, <2>3 DEF Gathering
  <2>5. Fewer(n, t) /\ OneEach(n) /\ \A a \in Agents : CallLess(n, t, a)
    BY <2>3 DEF Fewer, OneEach, CallLess, Whole, Fit, Calling, WaitersFit
  <2>6. Whole(n, {})
    BY <2>3, <2>4, <2>5, CallsLess
  <2>7. Settled(n)
    BY <2>3 DEF Settled, Got, SameMail
  <2> QED
    BY <2>6, <2>7
<1> QED
  BY <1>1, <1>2 DEF Collected

\* What follows a step leaves everything in order.
LEMMA SettleKeeps ==
  ASSUME NEW t, Whole(t, {}), NEW n, n = Settle(t)
  PROVE  Whole(n, {}) /\ Settled(n)
<1>1. PICK u : u = Conclude(t)
  OBVIOUS
<1>2. Whole(u, {}) /\ Settled(u)
  BY <1>1, ConcludeKeeps
<1>3. PICK v : v = Listen(u)
  OBVIOUS
<1>4. Whole(v, {}) /\ Settled(v)
  BY <1>2, <1>3, ListenKeeps
<1>5. n = Collected(v)
  BY <1>1, <1>3 DEF Settle
<1> QED
  BY <1>4, <1>5, CollectedKeeps

\* The messages after the first l.
NewIds(l, m) == (l + 1)..(l + m)
Fresh(l, m) == [k \in 1..m |-> l + k]

\* The numbers of new messages.
LEMMA FreshFacts ==
  ASSUME NEW l \in Nat, NEW m \in Nat, l + m <= MaxMessages, NEW ids, ids = Fresh(l, m)
  PROVE  /\ ids \in Seq(Ids) /\ IsInjective(ids) /\ ToSet(ids) = NewIds(l, m) /\ Len(ids) = m
<1>1. MaxMessages \in Nat /\ Ids = 1..MaxMessages
  BY BusAssumption DEF Ids
<1>2. ids \in [1..m -> Ids] /\ \A k \in 1..m : ids[k] = l + k
  BY <1>1 DEF Fresh
<1>3. ids \in Seq(Ids) /\ Len(ids) = m /\ DOMAIN ids = 1..m
  BY <1>2
<1>4. IsInjective(ids)
  BY <1>2, <1>3 DEF IsInjective
<1>5. \A x : x \in ToSet(ids) <=> \E k \in 1..m : ids[k] = x
  BY <1>3, Elements
<1>6. ASSUME NEW x \in NewIds(l, m) PROVE x \in ToSet(ids)
  <2>1. x - l \in 1..m /\ ids[x - l] = x
    BY <1>2 DEF NewIds
  <2> QED
    BY <1>5, <2>1
<1>7. ASSUME NEW x \in ToSet(ids) PROVE x \in NewIds(l, m)
  <2>1. PICK k \in 1..m : ids[k] = x
    BY <1>5
  <2> QED
    BY <1>2, <2>1 DEF NewIds
<1> QED
  BY <1>3, <1>4, <1>6, <1>7

\* New messages are nowhere yet, and change nothing for the others.
LEMMA NumberedKeeps ==
  ASSUME NEW t, Whole(t, {}), NEW from \in Agents, NEW targets \in Seq(Agents), NEW re \in Nat,
         NEW awaited \in BOOLEAN, Len(t.sent) + Len(targets) <= MaxMessages,
         NEW n, n = Numbered(t, from, targets, re, awaited),
         NEW R, R = NewIds(Len(t.sent), Len(targets))
  PROVE  /\ Whole(n, R) /\ n.receipt = t.receipt /\ n.call = t.call /\ n.waiters = t.waiters
         /\ n.status = t.status /\ n.session = t.session /\ n.collector = t.collector
         /\ n.revival = t.revival
         /\ Sent(t) \subseteq Sent(n) /\ \A j \in Sent(t) : n.sent[j] = t.sent[j]
         /\ \A j \in R : /\ j \in Ids /\ j \notin Sent(t) /\ n.sent[j].from = from
                         /\ n.sent[j].to = targets[j - Len(t.sent)]
<1>1. /\ t \in Nets /\ Mail(t, {}) /\ Calling(t, {}) /\ Living(t) /\ Calm(t) /\ Gathering(t)
      /\ t.sent \in Seq(Messages) /\ Len(t.sent) \in Nat /\ Len(targets) \in Nat
      /\ MaxMessages \in Nat /\ Ids = 1..MaxMessages
  BY NetFields, BusAssumption DEF Whole, Fit, Ids
<1>2. PICK l, m : l = Len(t.sent) /\ m = Len(targets)
  OBVIOUS
<1>3. PICK more : more = [k \in 1..m |-> [from |-> from, to |-> targets[k], re |-> re, awaited |-> awaited]]
  OBVIOUS
<1>4. more \in Seq(Messages) /\ Len(more) = m
  <2>1. \A k \in 1..m : targets[k] \in Agents
    BY <1>2
  <2>2. more \in [1..m -> Messages]
    BY <1>3, <2>1 DEF Messages
  <2> QED
    <3>1. m \in Nat
      BY <1>1, <1>2
    <3>2. more \in Seq(Messages)
      BY <2>2, <3>1
    <3>3. Len(more) = m
      BY <2>2, <3>1
    <3> QED
      BY <3>2, <3>3
<1>5. PICK s : s = t.sent \o more
  OBVIOUS
<1>6. /\ s \in Seq(Messages) /\ Len(s) = l + m
      /\ \A j \in 1..(l + m) : s[j] = IF j <= l THEN t.sent[j] ELSE more[j - l]
  <2>1. PICK q : q = t.sent
    OBVIOUS
  <2>2. q \in Seq(Messages) /\ s = q \o more /\ Len(q) = l
    BY <1>1, <1>2, <1>5, <2>1
  <2>3. /\ s \in Seq(Messages) /\ Len(s) = Len(q) + Len(more)
        /\ \A j \in 1..(Len(q) + Len(more)) :
             s[j] = IF j <= Len(q) THEN q[j] ELSE more[j - Len(q)]
    BY <1>4, <2>2, ConcatProperties
  <2> QED
    BY <1>4, <2>1, <2>2, <2>3
<1>7. n = [t EXCEPT !.sent = s]
  BY <1>1, <1>2, <1>3, <1>5 DEF Numbered, Nets
<1>8. /\ n \in Nets /\ n.sent = s /\ n.receipt = t.receipt /\ n.shown = t.shown
      /\ n.steered = t.steered /\ n.asides = t.asides /\ n.mail = t.mail
      /\ n.revival = t.revival /\ n.dropped = t.dropped /\ n.due = t.due
      /\ n.call = t.call /\ n.waiters = t.waiters /\ n.status = t.status
      /\ n.session = t.session /\ n.collector = t.collector
  BY <1>1, <1>6, <1>7, ZenonT(60) DEF Nets
<1>9. Sent(t) = 1..l /\ Sent(n) = 1..(l + m) /\ R = (l + 1)..(l + m)
  BY <1>2, <1>6, <1>8 DEF Sent, NewIds
<1>10. /\ Sent(t) \subseteq Sent(n) /\ R \subseteq Sent(n) /\ Sent(n) \subseteq Ids
       /\ \A j \in Sent(n) : j \in Sent(t) \/ j \in R
       /\ \A j \in R : j \in Ids /\ j \notin Sent(t)
  BY <1>1, <1>2, <1>9
<1>11. \A j \in Sent(t) : n.sent[j] = t.sent[j]
  BY <1>1, <1>2, <1>6, <1>8, <1>9
<1>12. \A j \in R : n.sent[j].from = from /\ n.sent[j].to = targets[j - Len(t.sent)]
  <2>1. ASSUME NEW j \in R PROVE n.sent[j].from = from /\ n.sent[j].to = targets[j - Len(t.sent)]
    <3>1. j \in 1..(l + m) /\ ~(j <= l) /\ j - l \in 1..m
      BY <1>1, <1>2, <1>9
    <3>2. n.sent[j] = more[j - l]
      BY <1>6, <1>8, <3>1
    <3>3. more[j - l] = [from |-> from, to |-> targets[j - l], re |-> re, awaited |-> awaited]
      BY <1>3, <3>1
    <3> QED
      BY <1>2, <3>2, <3>3
  <2> QED
    BY <2>1
<1>13. \A a \in Agents : /\ To(t, a) \subseteq To(n, a) /\ Pending(n, a) = Pending(t, a)
                         /\ Got(n, a) = Got(t, a)
  BY <1>8, <1>10, <1>11 DEF To, Pending, Got
<1>14. Placed(n, R)
  <2>1. \A a \in Agents : \A i \in Pending(n, a) :
          i \in To(n, a) /\ n.receipt[i] = "delivered" /\ n.shown[i] = 0
    BY <1>1, <1>8, <1>13 DEF Mail, Placed
  <2>2. \A a \in Agents : \A i \in ToSet(n.mail[a]) :
          i \in To(n, a) /\ n.receipt[i] = "unseen" /\ n.shown[i] = 0
    BY <1>1, <1>8, <1>13 DEF Mail, Placed
  <2>3. \A a \in Agents : \A i \in ToSet(n.revival[a]) : i \in To(n, a) /\ n.receipt[i] = "reviving"
    BY <1>1, <1>8, <1>13 DEF Mail, Placed
  <2>4. \A a \in Agents : Got(n, a) # NoId =>
          /\ Got(n, a) \in To(n, a) \ Pending(n, a)
          /\ n.receipt[Got(n, a)] = "delivered" /\ n.shown[Got(n, a)] = 0
    BY <1>1, <1>8, <1>13 DEF Mail, Placed
  <2>5. \A i \in Ids : n.shown[i] <= 1 /\ (n.receipt[i] \in {"none", "reviving", "failed"} => n.shown[i] = 0)
    BY <1>1, <1>8 DEF Mail, Placed
  <2> QED
    BY <2>1, <2>2, <2>3, <2>4, <2>5 DEF Placed
<1>15. Single(n)
  BY <1>1, <1>8 DEF Mail, Single
<1>16. Counted(n, R)
  <2>1. n.due \subseteq Sent(n) /\ \A i \in Ids \ Sent(n) : n.receipt[i] = "none"
    BY <1>1, <1>8, <1>10 DEF Mail, Counted
  <2>2. ASSUME NEW i \in R
        PROVE  n.receipt[i] \in {"none", "reviving"} /\ i \notin ToSet(n.revival[n.sent[i].to])
    <3>1. i \in Ids \ Sent(t) /\ n.sent[i].to \in Agents
      BY <1>8, <1>10, SentFacts
    <3>2. n.receipt[i] = "none"
      BY <1>1, <1>8, <3>1 DEF Mail, Counted
    <3>3. \A a \in Agents : i \notin ToSet(n.revival[a])
      BY <1>1, <1>8, <3>2 DEF Mail, Placed
    <3> QED
      BY <3>1, <3>2, <3>3
  <2>3. ASSUME NEW i \in Sent(n), n.receipt[i] = "reviving"
        PROVE  i \in R \cup ToSet(n.revival[n.sent[i].to])
    <3>1. CASE i \in R
      BY <3>1
    <3>2. CASE i \in Sent(t)
      BY <1>1, <1>8, <1>11, <2>3, <3>2 DEF Mail, Counted
    <3> QED
      BY <1>10, <3>1, <3>2
  <2> QED
    BY <1>10, <2>1, <2>2, <2>3 DEF Counted
<1>17. Promised(n)
  <2> SUFFICES ASSUME NEW j \in Sent(n), NEW to, to = n.sent[j].to
               PROVE  /\ n.receipt[j] = "delivered" =>
                           \/ n.shown[j] > 0 \/ j \in Pending(n, to) \/ j = Got(n, to)
                           \/ n.status[to] = "aborted"
                      /\ n.receipt[j] = "unseen" =>
                           n.shown[j] > 0 \/ j \in ToSet(n.mail[to]) \/ j \in n.dropped
    BY DEF Promised
  <2>1. CASE j \in R
    BY <1>16, <2>1 DEF Counted
  <2>2. CASE j \in Sent(t)
    <3>1. to = t.sent[j].to /\ to \in Agents
      BY <1>1, <1>11, <2>2, SentFacts
    <3> QED
      BY <1>1, <1>8, <1>13, <2>2, <3>1 DEF Mail, Promised
  <2> QED
    BY <1>10, <2>1, <2>2
<1>18. ASSUME NEW a \in Agents PROVE CallFits(n, R, a) /\ WaitersFit(n, a)
  <2>1. CallFits(t, {}, a) /\ WaitersFit(t, a)
    BY <1>1 DEF Calling
  <2>2. CallFits(n, R, a)
    BY <1>8, <1>10, <2>1 DEF CallFits, Got
  <2>3. WaitersFit(n, a)
    BY <1>8, <1>11, <2>1 DEF WaitersFit, CallFits
  <2> QED
    BY <2>2, <2>3
<1>19. Gathering(n) /\ Living(n)
  <2>1. Gathering(n)
    BY <1>1, <1>8, <1>10 DEF Gathering
  <2>2. Living(n)
    BY <1>1, <1>8 DEF Living, Lives
  <2> QED
    BY <2>1, <2>2
<1>20. Calm(n)
  <2>1. \A a \in Agents : t.waiters[a] \in Seq(Waiters)
    BY <1>1, NetFields
  <2> QED
    BY <1>1, <1>8, <2>1, CalmKept
<1> QED
  BY <1>8, <1>10, <1>11, <1>12, <1>14, <1>15, <1>16, <1>17, <1>18, <1>19, <1>20
     DEF Whole, Fit, Mail, Calling

\* What an agent that is not parked sends reaches nobody who awaits it too early.
LEMMA HeardNew ==
  ASSUME NEW t, Whole(t, {}), Settled(t), NEW from \in Agents, t.status[from] # "parked",
         NEW v, v.receipt = t.receipt, \A j \in Sent(t) : v.sent[j] = t.sent[j],
         NEW i, v.sent[i].from = from, NEW to \in Agents, v.sent[i].to = to,
         v.call[to] = t.call[to]
  PROVE  Heard(v, i)
<1> SUFFICES ASSUME v.call[to].kind = "await", v.sent[v.call[to].id].to = from
             PROVE  v.receipt[v.call[to].id] = "delivered"
  BY DEF Heard
<1>1. PICK id : id = t.call[to].id
  OBVIOUS
<1>2. t.call[to].kind = "await" /\ v.call[to].id = id
  BY <1>1
<1>3. id \in Sent(t)
  BY <1>1, <1>2 DEF Whole, Fit, Calling, CallFits
<1>4. t.sent[id].to = from
  BY <1>2, <1>3
<1>5. t.receipt[id] \in {"delivered", "reviving"}
  BY <1>1, <1>2 DEF Settled
<1>6. ASSUME t.receipt[id] = "reviving" PROVE FALSE
  <2>1. id \in ToSet(t.revival[from])
    BY <1>3, <1>4, <1>6 DEF Whole, Fit, Mail, Counted
  <2>2. t.revival[from] # <<>>
    BY <2>1, NoElements
  <2> QED
    BY <2>2 DEF Whole, Living, Lives
<1> QED
  BY <1>2, <1>5, <1>6

\* Sending fresh messages and what follows leaves everything in order.
LEMMA SendFresh ==
  ASSUME NEW l \in Nat, NEW m \in Nat, l + m <= MaxMessages,
         NEW R, R = NewIds(l, m), NEW v, Whole(v, R), HeardAll(v, R),
         NEW n, n = Settle(SendEach(v, Fresh(l, m)))
  PROVE  Whole(n, {}) /\ Settled(n)
<1>1. PICK ids : ids = Fresh(l, m)
  OBVIOUS
<1>2. ids \in Seq(Ids) /\ IsInjective(ids) /\ ToSet(ids) = R
  BY <1>1, FreshFacts
<1>3. PICK u : u = SendEach(v, ids)
  OBVIOUS
<1>4. Whole(u, {})
  BY <1>2, <1>3, SendEachKeeps
<1> QED
  BY <1>1, <1>3, <1>4, SettleKeeps

\* Sending to a number of agents.
LEMMA SendAllKeeps ==
  ASSUME NEW t, Whole(t, {}), Settled(t), NEW from \in Agents, t.status[from] # "parked",
         NEW targets \in Seq(Agents), NEW re \in Nat, NEW awaited \in BOOLEAN,
         Len(t.sent) + Len(targets) <= MaxMessages,
         NEW n, n = Settle(SendAll(t, from, targets, re, awaited))
  PROVE  Whole(n, {}) /\ Settled(n)
<1>1. PICK l, m : l = Len(t.sent) /\ m = Len(targets)
  OBVIOUS
<1>2. l \in Nat /\ m \in Nat /\ l + m <= MaxMessages
  <2>1. t.sent \in Seq(Messages)
    BY NetFields DEF Whole, Fit
  <2> QED
    BY <1>1, <2>1
<1>3. PICK R, v : R = NewIds(l, m) /\ v = Numbered(t, from, targets, re, awaited)
  OBVIOUS
<1>4. /\ Whole(v, R) /\ v.receipt = t.receipt /\ v.call = t.call
      /\ \A j \in Sent(t) : v.sent[j] = t.sent[j]
  <2>1. Whole(v, R) /\ v.receipt = t.receipt /\ v.call = t.call
    BY <1>1, <1>3, NumberedKeeps
  <2>2. \A j \in Sent(t) : v.sent[j] = t.sent[j]
    BY <1>1, <1>3, NumberedKeeps
  <2> QED
    BY <2>1, <2>2
<1>5. \A j \in R : v.sent[j].from = from
  BY <1>1, <1>3, NumberedKeeps
<1>6. HeardAll(v, R)
  <2> SUFFICES ASSUME NEW i \in R PROVE Heard(v, i)
    BY DEF HeardAll
  <2>1. PICK to : to = v.sent[i].to
    OBVIOUS
  <2>2. to \in Agents /\ v.sent[i].from = from
    <3>1. i \in Sent(v) /\ v \in Nets
      BY <1>4 DEF Whole, Fit, Mail, Counted
    <3> QED
      BY <1>5, <2>1, <3>1, SentFacts
  <2> QED
    BY <1>4, <2>1, <2>2, HeardNew
<1>7. n = Settle(SendEach(v, Fresh(l, m)))
  BY <1>1, <1>3 DEF SendAll, Fresh
<1> QED
  BY <1>2, <1>3, <1>4, <1>6, <1>7, SendFresh

-----------------------------------------------------------------------------
\* The waiters of n are those of t and w.
Added(n, t, w) ==
  \A b \in Agents : \A x \in ToSet(n.waiters[b]) : x \in ToSet(t.waiters[b]) \/ x = w

\* Agent a gets blocked in call c, with waiter w.
Blocked(t, a, w, c) == [t EXCEPT !.waiters[a] = Append(@, w), !.call[a] = c]

\* An agent that is in no call starts one that waits for a message.
LEMMA BlockedKeeps ==
  ASSUME NEW R, NEW t, Fit(t, R), NEW a \in Agents, t.call[a].kind = "none", t.status[a] = "running",
         NEW w \in Waiters, w.owner = "tool", NEW c \in Calls, c.got = NoId, c.open,
         \/ c.kind = "wait"
         \/ /\ c.kind = "await" /\ c.id \in Sent(t) /\ w.from = t.sent[c.id].to
            /\ t.receipt[c.id] = "none" => c.id \in R,
         NEW n, n = Blocked(t, a, w, c)
  PROVE  /\ Fit(n, R) /\ SameMail(n, t) /\ n.status = t.status /\ n.session = t.session
         /\ n.collector = t.collector
         /\ n.call[a] = c /\ \A b \in Agents : b # a => n.call[b] = t.call[b]
         /\ Added(n, t, w)
<1>1. /\ t \in Nets /\ Mail(t, R) /\ Calling(t, R) /\ Gathering(t)
      /\ t.waiters \in [Agents -> Seq(Waiters)] /\ t.call \in [Agents -> Calls]
  BY NetFields DEF Fit
<1>2. CallFits(t, R, a) /\ WaitersFit(t, a)
  BY <1>1 DEF Calling
<1>3. ~t.call[a].open /\ Got(t, a) = NoId /\ NoTool(t, a)
  BY <1>2 DEF CallFits, WaitersFit, NoTool
<1>4. PICK q, r : q = t.waiters[a] /\ r = Append(q, w)
  OBVIOUS
<1>5. q \in Seq(Waiters) /\ \A x \in ToSet(q) : x.owner # "tool"
  BY <1>1, <1>3, <1>4 DEF NoTool
<1>6. /\ r \in Seq(Waiters) /\ Len(r) = Len(q) + 1 /\ Len(q) \in Nat
      /\ \A k \in 1..Len(q) : r[k] = q[k]
      /\ r[Len(q) + 1] = w
  BY <1>4, <1>5, AppendProperties
<1>7. \A x : x \in ToSet(q) <=> \E k \in 1..Len(q) : q[k] = x
  BY <1>5, Elements
<1>8. \A x : x \in ToSet(r) <=> \E k \in 1..Len(r) : r[k] = x
  BY <1>6, Elements
<1>9. \A k \in 1..Len(r) : (k \in 1..Len(q) /\ r[k] = q[k] /\ q[k] \in ToSet(q)) \/ (k = Len(q) + 1 /\ r[k] = w)
  BY <1>6, <1>7
<1>10. \A x \in ToSet(r) : x \in ToSet(q) \/ x = w
  BY <1>8, <1>9
<1>11. OneTool(r)
  BY <1>5, <1>9 DEF OneTool
<1>12. PICK W, C : W = [t.waiters EXCEPT ![a] = r] /\ C = [t.call EXCEPT ![a] = c]
  OBVIOUS
<1>13. /\ W \in [Agents -> Seq(Waiters)] /\ W[a] = r /\ \A b \in Agents : b # a => W[b] = t.waiters[b]
       /\ C \in [Agents -> Calls] /\ C[a] = c /\ \A b \in Agents : b # a => C[b] = t.call[b]
  BY <1>1, <1>6, <1>12
<1>14. n = [t EXCEPT !.waiters = W, !.call = C]
  BY <1>1, <1>4, <1>12 DEF Blocked, Nets
<1>15. /\ n \in Nets /\ n.waiters = W /\ n.call = C /\ SameMail(n, t)
       /\ n.status = t.status /\ n.session = t.session /\ n.collector = t.collector
  BY <1>1, <1>13, <1>14, ZenonT(60) DEF Nets, SameMail
<1>16. \A b \in Agents : Got(n, b) = Got(t, b)
  <2>1. ASSUME NEW b \in Agents PROVE Got(n, b) = Got(t, b)
    <3>1. CASE b = a
      BY <1>3, <1>13, <1>15, <3>1 DEF Got
    <3>2. CASE b # a
      BY <1>13, <1>15, <3>2 DEF Got
    <3> QED
      BY <3>1, <3>2
  <2> QED
    BY <2>1
<1>17. Mail(n, R)
  <2>1. \A i \in Sent(t) : t.sent[i].to \in Agents
    BY <1>1, SentFacts
  <2> QED
    BY <1>1, <1>15, <1>16, <2>1, MailKept
<1>18. Sent(n) = Sent(t) /\ n.sent = t.sent /\ n.receipt = t.receipt
  BY <1>15 DEF SameMail, Sent
<1>19. CallFits(n, R, a) /\ WaitersFit(n, a)
  <2>1. n.call[a] = c /\ n.waiters[a] = r
    BY <1>13, <1>15
  <2>2. CallFits(n, R, a)
    <3>1. c.kind = "await" => c.id \in Sent(n) /\ (n.receipt[c.id] = "none" => c.id \in R)
      BY <1>18
    <3>2. n.status[a] = "running" /\ Got(n, a) = NoId
      BY <1>15, <2>1 DEF Got
    <3>3. n.call[a].open => n.call[a].kind # "none"
      BY <2>1
    <3> QED
      BY <2>1, <3>1, <3>2, <3>3 DEF CallFits
  <2>3. WaitersFit(n, a)
    <3>1. ASSUME NEW x \in ToSet(r)
          PROVE  /\ x.guarded => x.owner = "tool"
                 /\ x.owner = "tool" =>
                      /\ n.call[a].open
                      /\ n.call[a].kind = "await" => x.from = n.sent[n.call[a].id].to
      <4>1. CASE x = w
        BY <1>18, <2>1, <4>1
      <4>2. CASE x \in ToSet(q)
        BY <1>2, <1>4, <1>5, <4>2 DEF WaitersFit
      <4> QED
        BY <1>10, <3>1, <4>1, <4>2
    <3> QED
      BY <1>11, <2>1, <3>1 DEF WaitersFit
  <2> QED
    BY <2>2, <2>3
<1>20. ASSUME NEW b \in Agents PROVE CallFits(n, R, b) /\ WaitersFit(n, b)
  <2>1. CASE b = a
    BY <1>19, <2>1
  <2>2. CASE b # a
    <3>1. n.call[b] = t.call[b] /\ n.waiters[b] = t.waiters[b]
      BY <1>13, <1>15, <2>2
    <3>2. CallFits(t, R, b) /\ WaitersFit(t, b)
      BY <1>1 DEF Calling
    <3>3. CallFits(n, R, b)
      BY <1>15, <1>18, <3>1, <3>2 DEF CallFits, Got
    <3>4. WaitersFit(n, b)
      BY <1>18, <3>1, <3>2 DEF WaitersFit
    <3> QED
      BY <3>3, <3>4
  <2> QED
    BY <2>1, <2>2
<1>21. Gathering(n)
  BY <1>1, <1>15, <1>18 DEF Gathering
<1>22. ASSUME NEW b \in Agents, NEW x \in ToSet(n.waiters[b]) PROVE x \in ToSet(t.waiters[b]) \/ x = w
  <2>1. CASE b = a
    BY <1>4, <1>10, <1>13, <1>15, <1>22, <2>1
  <2>2. CASE b # a
    BY <1>13, <1>15, <1>22, <2>2
  <2> QED
    BY <2>1, <2>2
<1> QED
  BY <1>13, <1>15, <1>17, <1>20, <1>21, <1>22 DEF Fit, Calling, Added

\* n and t differ in their queues at most.
SameButQueues(n, t) ==
  /\ n.sent = t.sent /\ n.receipt = t.receipt /\ n.shown = t.shown /\ n.revival = t.revival
  /\ n.dropped = t.dropped /\ n.due = t.due /\ n.call = t.call /\ n.waiters = t.waiters
  /\ n.status = t.status /\ n.session = t.session /\ n.collector = t.collector
\* The queues of n lack the messages ids.
Lacks(n, t, ids) ==
  \A a \in Agents : \A j \in Ids :
    /\ j \in Pending(n, a) <=> j \in Pending(t, a) /\ j \notin ids
    /\ j \in ToSet(n.mail[a]) <=> j \in ToSet(t.mail[a]) /\ j \notin ids
\* They were in the queues of agent a.
Queues1(t, a, ids) == \A j \in ids : j \in Ids /\ (j \in Pending(t, a) \/ j \in ToSet(t.mail[a]))
\* What showing them leaves alone.
SameRun(n, t) ==
  /\ n.sent = t.sent /\ n.receipt = t.receipt /\ n.revival = t.revival /\ n.call = t.call
  /\ n.waiters = t.waiters /\ n.status = t.status /\ n.session = t.session
  /\ n.collector = t.collector

\* Messages leave the queues when they are shown.
LEMMA ShowTaken ==
  ASSUME NEW R, NEW t, Whole(t, R), NEW u \in Nets, SameButQueues(u, t), Single(u),
         NEW ids, Lacks(u, t, ids), NEW c \in Agents, Queues1(t, c, ids), NEW n, n = Show(u, ids)
  PROVE  Whole(n, R) /\ SameRun(n, t)
<1>1. t \in Nets /\ Mail(t, R) /\ Calling(t, R) /\ Living(t) /\ Calm(t) /\ Gathering(t)
  BY DEF Whole, Fit
<1>2. /\ n \in Nets /\ n.sent = u.sent /\ n.receipt = u.receipt
      /\ n.steered = u.steered /\ n.asides = u.asides /\ n.mail = u.mail
      /\ n.revival = u.revival /\ n.dropped = u.dropped /\ n.due = u.due
      /\ n.call = u.call /\ n.waiters = u.waiters /\ n.status = u.status
      /\ n.session = u.session /\ n.collector = u.collector
  BY ShowFields
<1>3. \A j \in Ids : n.shown[j] = IF j \in ids THEN u.shown[j] + 1 ELSE u.shown[j]
  BY ShowFields
<1>4. /\ n.sent = t.sent /\ n.receipt = t.receipt /\ u.shown = t.shown
      /\ n.revival = t.revival /\ n.dropped = t.dropped /\ n.due = t.due
      /\ n.call = t.call /\ n.waiters = t.waiters /\ n.status = t.status
      /\ n.session = t.session /\ n.collector = t.collector /\ Sent(n) = Sent(t)
  BY <1>2 DEF SameButQueues, Sent
<1>5. \A a \in Agents : Pending(n, a) = Pending(u, a) /\ n.mail[a] = u.mail[a] /\ Got(n, a) = Got(t, a)
  BY <1>2, <1>4 DEF Pending, Got
<1>6. ids \in SUBSET Ids /\ \A j \in ids : HeldBy(t, c, j)
  BY DEF Queues1, HeldBy
<1>7. ASSUME NEW a \in Agents, NEW j \in Ids, j = Got(t, a) PROVE j \notin ids
  <2>1. SUFFICES ASSUME j \in ids PROVE FALSE
    OBVIOUS
  <2>2. HeldBy(t, a, j) /\ HeldBy(t, c, j)
    BY <1>6, <1>7, <2>1 DEF HeldBy
  <2>3. t.sent[j].to = a /\ t.receipt[j] = "delivered"
    BY <1>1, <1>7, <2>2, HeldByFacts
  <2>4. t.sent[j].to = c
    BY <1>1, <2>2, HeldByFacts
  <2>5. j \notin Pending(t, c) /\ j # NoId
    BY <1>1, <1>7, <2>3, <2>4, Numbers DEF Mail, Placed
  <2>6. j \notin ToSet(t.mail[c])
    BY <1>1, <2>3 DEF Mail, Placed
  <2> QED
    BY <2>1, <2>5, <2>6 DEF Queues1
<1>8. Mail(n, R)
  <2>1. Taken(n, t, ids)
    <3>1. ASSUME NEW a \in Agents, NEW j \in Ids
          PROVE  /\ j \in Pending(n, a) <=> j \in Pending(t, a) /\ j \notin ids
                 /\ j \in ToSet(n.mail[a]) <=> j \in ToSet(t.mail[a]) /\ j \notin ids
                 /\ j = Got(n, a) <=> j = Got(t, a) /\ j \notin ids
      BY <1>5, <1>7 DEF Lacks
    <3> QED
      BY <1>3, <1>4, <3>1 DEF Taken
  <2>2. Single(n)
    BY <1>2 DEF Single
  <2>3. \A j \in ids : \E a \in Agents : HeldBy(t, a, j)
    BY <1>6
  <2> QED
    BY <1>1, <1>2, <1>6, <2>1, <2>2, <2>3, TakenKeeps
<1>9. ASSUME NEW a \in Agents PROVE CallFits(n, R, a) /\ WaitersFit(n, a)
  BY <1>1, <1>4 DEF Calling, CallFits, WaitersFit, Got
<1>10. Gathering(n) /\ Living(n)
  BY <1>1, <1>4 DEF Gathering, Living, Lives
<1>11. Calm(n)
  <2>1. \A a \in Agents : t.waiters[a] \in Seq(Waiters)
    BY <1>1, NetFields
  <2> QED
    BY <1>1, <1>4, <2>1, CalmKept
<1> QED
  BY <1>2, <1>4, <1>8, <1>9, <1>10, <1>11 DEF Whole, Fit, Calling, SameRun

\* Agent a takes what its session holds.
LEMMA FlushKeeps ==
  ASSUME NEW R, NEW t, Whole(t, R), NEW a \in Agents,
         NEW n, n = Show(Flushed(t, a), Pending(t, a))
  PROVE  Whole(n, R) /\ SameRun(n, t)
<1>1. /\ t \in Nets /\ Mail(t, R) /\ t.steered \in [Agents -> SUBSET Ids] /\ t.asides \in Queues
  BY NetFields DEF Whole, Fit, Queues
<1>2. PICK u, ids : u = Flushed(t, a) /\ ids = Pending(t, a)
  OBVIOUS
<1>3. PICK S, Q : S = [t.steered EXCEPT ![a] = {}] /\ Q = [t.asides EXCEPT ![a] = <<>>]
  OBVIOUS
<1>4. /\ S \in [Agents -> SUBSET Ids] /\ S[a] = {} /\ \A b \in Agents : b # a => S[b] = t.steered[b]
  BY <1>1, <1>3
<1>5. Q \in Queues /\ Q[a] = <<>> /\ \A b \in Agents : b # a => Q[b] = t.asides[b]
  BY <1>1, <1>3, NoElements DEF Queues
<1>6. u = [t EXCEPT !.steered = S, !.asides = Q]
  BY <1>1, <1>2, <1>3 DEF Flushed, Nets
<1>7. u \in Nets /\ SameButQueues(u, t) /\ u.steered = S /\ u.asides = Q /\ u.mail = t.mail
  BY <1>1, <1>4, <1>5, <1>6 DEF Nets, SameButQueues, Queues
<1>8. Pending(u, a) = {} /\ \A b \in Agents : b # a => Pending(u, b) = Pending(t, b)
  BY <1>4, <1>5, <1>7, NoElements DEF Pending
<1>9. Lacks(u, t, ids)
  <2> SUFFICES ASSUME NEW b \in Agents, NEW j \in Ids
               PROVE  /\ j \in Pending(u, b) <=> j \in Pending(t, b) /\ j \notin ids
                      /\ j \in ToSet(u.mail[b]) <=> j \in ToSet(t.mail[b]) /\ j \notin ids
    BY DEF Lacks
  <2>1. j \in ids => t.sent[j].to = a /\ t.receipt[j] = "delivered"
    BY <1>1, <1>2 DEF Mail, Placed, To
  <2>2. j \in Pending(t, b) => t.sent[j].to = b
    BY <1>1 DEF Mail, Placed, To
  <2>3. j \in ToSet(t.mail[b]) => t.receipt[j] = "unseen"
    BY <1>1 DEF Mail, Placed
  <2> QED
    BY <1>2, <1>7, <1>8, <2>1, <2>2, <2>3
<1>10. Queues1(t, a, ids)
  BY <1>1, <1>2, HeldFacts DEF Queues1
<1>11. Single(u)
  <2>1. ASSUME NEW b \in Agents
        PROVE  /\ u.steered[b] \cap ToSet(u.asides[b]) = {} /\ IsInjective(u.asides[b])
               /\ IsInjective(u.mail[b]) /\ IsInjective(u.revival[b])
    <3>1. CASE b = a
      <4>1. u.steered[b] = {} /\ u.asides[b] = <<>>
        BY <1>4, <1>5, <1>7, <3>1
      <4> QED
        BY <1>1, <1>7, <4>1, NoElements DEF Mail, Single, SameButQueues
    <3>2. CASE b # a
      BY <1>1, <1>4, <1>5, <1>7, <3>2 DEF Mail, Single, SameButQueues
    <3> QED
      BY <3>1, <3>2
  <2> QED
    BY <2>1 DEF Single
<1>12. n = Show(u, ids)
  BY <1>2
<1> QED
  BY <1>7, <1>9, <1>10, <1>11, <1>12, ShowTaken

\* It makes no difference whether the messages are shown before the status changes.
LEMMA ShowCommutes ==
  ASSUME NEW t \in Nets, NEW a, NEW s, NEW ids
  PROVE  Show(SetStatus(t, a, s), ids) = SetStatus(Show(t, ids), a, s)
<1>1. PICK u : u = Show(t, ids)
  OBVIOUS
<1>2. PICK h : h = [i \in Ids |-> IF i \in ids THEN t.shown[i] + 1 ELSE t.shown[i]]
  OBVIOUS
<1>3. u = [t EXCEPT !.shown = h]
  BY <1>1, <1>2 DEF Show, Nets
<1>4. PICK v, w : v = WithStatus(t, a, s) /\ w = WithStatus(u, a, s)
  OBVIOUS
<1>5. PICK S : S = [t.status EXCEPT ![a] = s]
  OBVIOUS
<1>6. v = [t EXCEPT !.status = S] /\ w = [t EXCEPT !.shown = h, !.status = S]
  BY <1>3, <1>4, <1>5 DEF WithStatus, Nets
<1>7. v.status = w.status /\ v.waiters = w.waiters /\ v.call = w.call
      /\ v.waiters = t.waiters /\ v.call = t.call
  BY <1>6 DEF Nets
<1>8. \A b : Orphaned(v, b) <=> Orphaned(w, b)
  <2>1. \A b, from : HasRunningSender(v, b, from) <=> HasRunningSender(w, b, from)
    BY <1>7 DEF HasRunningSender
  <2> QED
    BY <1>7, <2>1 DEF Orphaned
<1>9. PICK W, C : /\ W = [b \in Agents |-> IF Orphaned(v, b) THEN Withdraw(t.waiters[b]) ELSE t.waiters[b]]
                  /\ C = [b \in Agents |-> IF Orphaned(v, b) THEN NoCall ELSE t.call[b]]
  OBVIOUS
<1>10. /\ W = [b \in Agents |-> IF Orphaned(w, b) THEN Withdraw(t.waiters[b]) ELSE t.waiters[b]]
       /\ C = [b \in Agents |-> IF Orphaned(w, b) THEN NoCall ELSE t.call[b]]
  BY <1>8, <1>9
<1>11. AbortOrphans(v) = [v EXCEPT !.waiters = W, !.call = C]
  BY <1>6, <1>7, <1>9 DEF AbortOrphans, Nets
<1>12. AbortOrphans(w) = [w EXCEPT !.waiters = W, !.call = C]
  BY <1>6, <1>7, <1>10 DEF AbortOrphans, Nets
<1>13. Show(AbortOrphans(v), ids) = AbortOrphans(w)
  <2>1. PICK p : p = AbortOrphans(v)
    OBVIOUS
  <2>2. p = [t EXCEPT !.status = S, !.waiters = W, !.call = C]
    BY <1>6, <1>11, <2>1 DEF Nets
  <2>3. p.shown = t.shown
    BY <2>2 DEF Nets
  <2>4. Show(p, ids) = [p EXCEPT !.shown = h]
    BY <1>2, <2>2, <2>3 DEF Show, Nets
  <2>5. [p EXCEPT !.shown = h] = AbortOrphans(w)
    BY <1>6, <1>12, <2>2 DEF Nets
  <2> QED
    BY <2>1, <2>4, <2>5
<1> QED
  BY <1>1, <1>4, <1>13 DEF SetStatus, WithStatus

\* The invariant, of a record.
Good(t) == Whole(t, {}) /\ Settled(t)

\* A step that leaves calls and receipts alone leaves no reply in between.
LEMMA SettledStays ==
  ASSUME NEW t, Settled(t), NEW n, SameRun(n, t)
  PROVE  Settled(n)
<1>1. n.call = t.call /\ n.receipt = t.receipt
  BY DEF SameRun
<1> QED
  BY <1>1 DEF Settled, Got

\* A flushed session is one without queues.
LEMMA FlushedNets ==
  ASSUME NEW t \in Nets, NEW a \in Agents
  PROVE  Flushed(t, a) \in Nets
<1>1. t.steered \in [Agents -> SUBSET Ids] /\ t.asides \in Queues
  BY NetFields DEF Queues
<1>2. PICK S, Q : S = [t.steered EXCEPT ![a] = {}] /\ Q = [t.asides EXCEPT ![a] = <<>>]
  OBVIOUS
<1>3. S \in [Agents -> SUBSET Ids] /\ Q \in [Agents -> Seq(Ids)]
  BY <1>1, <1>2, NoElements DEF Queues
<1>4. Flushed(t, a) = [t EXCEPT !.steered = S, !.asides = Q]
  BY <1>1, <1>2 DEF Flushed, Nets
<1> QED
  BY <1>3, <1>4 DEF Nets

\* An agent wakes with what its session holds.
LEMMA WakeKeeps ==
  ASSUME NEW t, Whole(t, {}), NEW a \in Agents, t.status[a] \notin {"aborted", "parked"},
         t.session[a] = "live", NEW n, n = Wake(Flushed(t, a), a, Pending(t, a))
  PROVE  Whole(n, {})
<1>1. t \in Nets /\ Living(t)
  BY DEF Whole, Fit
<1>2. PICK u, ids, f : u = Flushed(t, a) /\ ids = Pending(t, a) /\ f = Show(u, ids)
  OBVIOUS
<1>3. u \in Nets
  BY <1>1, <1>2, FlushedNets
<1>4. Whole(f, {}) /\ SameRun(f, t)
  BY <1>2, FlushKeeps
<1>5. Show(SetStatus(u, a, "running"), ids) = SetStatus(f, a, "running")
  BY <1>2, <1>3, ShowCommutes
<1>6. n = SetStatus(f, a, "running")
  BY <1>2, <1>5 DEF Wake
<1>7. Fit(f, {}) /\ Living(f)
  BY <1>4 DEF Whole
<1>8. f.status = t.status /\ f.session = t.session /\ f.revival = t.revival
  BY <1>4 DEF SameRun
<1>9. f.revival[a] = <<>>
  BY <1>1, <1>8 DEF Living, Lives
<1>10. \A b \in Agents \ {a} : Lives(f, b)
  BY <1>7 DEF Living
<1> QED
  BY <1>6, <1>7, <1>8, <1>9, <1>10, SetStatusKeeps

\* A prompt shows what the queues of the session hold, and a turn starts.
LEMMA PromptKeeps ==
  ASSUME NEW t, Good(t), NEW a \in Agents, t.status[a] = "idle", t.session[a] = "live",
         NEW n, n = Settle(Wake(Flushed(t, a), a, Pending(t, a)))
  PROVE  Good(n)
<1>1. PICK u : u = Wake(Flushed(t, a), a, Pending(t, a))
  OBVIOUS
<1>2. Whole(u, {})
  BY <1>1, WakeKeeps DEF Good
<1> QED
  BY <1>1, <1>2, SettleKeeps DEF Good

\* A step boundary shows what the queues of the session hold.
LEMMA StepBoundaryKeeps ==
  ASSUME NEW t, Good(t), NEW a \in Agents, NEW n, n = Show(Flushed(t, a), Pending(t, a))
  PROVE  Good(n)
<1>1. Whole(n, {}) /\ SameRun(n, t)
  BY FlushKeeps DEF Good
<1> QED
  BY <1>1, SettledStays DEF Good

\* A turn ends, or what arrived last starts the next one.
LEMMA TurnEndsKeeps ==
  ASSUME NEW t, Good(t), NEW a \in Agents, t.status[a] = "running", t.call[a].kind = "none",
         NEW u, u = SetStatus(t, a, "idle"),
         NEW n, n = Settle(IF Pending(t, a) = {} THEN u ELSE Wake(Flushed(u, a), a, Pending(t, a)))
  PROVE  Good(n)
<1>1. Fit(t, {}) /\ Living(t)
  BY DEF Good, Whole
<1>2. t.session[a] = "live" /\ t.revival[a] = <<>>
  BY <1>1 DEF Living, Lives
<1>3. \A b \in Agents \ {a} : Lives(t, b)
  BY <1>1 DEF Living
<1>4. Whole(u, {}) /\ SameMail(u, t) /\ u.status[a] = "idle" /\ u.session = t.session
  BY <1>1, <1>2, <1>3, SetStatusKeeps
<1>5. Pending(u, a) = Pending(t, a)
  BY <1>4 DEF SameMail, Pending
<1>6. PICK v : v = Wake(Flushed(u, a), a, Pending(u, a))
  OBVIOUS
<1>7. Whole(v, {})
  BY <1>2, <1>4, <1>6, WakeKeeps
<1>8. n = Settle(u) \/ n = Settle(v)
  BY <1>5, <1>6
<1> QED
  BY <1>4, <1>7, <1>8, SettleKeeps DEF Good

\* The elements of a group of agents, as a sequence.
LEMMA GroupFacts ==
  ASSUME NEW G \in SUBSET Agents
  PROVE  /\ SetToSeq(G) \in Seq(Agents) /\ Len(SetToSeq(G)) = Cardinality(G)
         /\ Cardinality(G) \in Nat
<1>1. IsFiniteSet(G)
  BY BusAssumption, FS_Subset
<1>2. Cardinality(G) \in Nat /\ ExistsBijection(1..Cardinality(G), G)
  BY <1>1, FS_CardinalityType
<1>3. \E f \in [1..Cardinality(G) -> G] : IsInjective(f)
  BY <1>2 DEF ExistsBijection, Bijection, Injection
<1>4. PICK q : q = SetToSeq(G)
  OBVIOUS
<1>5. q \in [1..Cardinality(G) -> G]
  BY <1>3, <1>4 DEF SetToSeq
<1>6. q \in [1..Cardinality(G) -> Agents]
  BY <1>5
<1>7. q \in Seq(Agents) /\ Len(q) = Cardinality(G)
  BY <1>2, <1>6
<1> QED
  BY <1>2, <1>4, <1>7

\* An agent sends to a peer.
LEMMA SendToKeeps ==
  ASSUME NEW t, Good(t), NEW a \in Agents, NEW b \in Agents, t.status[a] = "running",
         Len(t.sent) + 1 <= MaxMessages, NEW re \in Nat,
         NEW n, n = Settle(SendAll(t, a, <<b>>, re, FALSE))
  PROVE  Good(n)
<1>1. PICK q : q = <<b>>
  OBVIOUS
<1>2. q \in Seq(Agents) /\ Len(q) = 1
  BY <1>1
<1>3. Len(t.sent) + Len(q) <= MaxMessages
  BY <1>2
<1>4. n = Settle(SendAll(t, a, q, re, FALSE))
  BY <1>1
<1> QED
  BY <1>2, <1>3, <1>4, SendAllKeeps DEF Good

\* An agent sends to all that listen.
LEMMA BroadcastKeeps ==
  ASSUME NEW t, Good(t), NEW a \in Agents, t.status[a] = "running", NEW G \in SUBSET Agents,
         Len(t.sent) + Cardinality(G) <= MaxMessages,
         NEW n, n = Settle(SendAll(t, a, SetToSeq(G), NoId, FALSE))
  PROVE  Good(n)
<1>1. PICK q : q = SetToSeq(G)
  OBVIOUS
<1>2. q \in Seq(Agents) /\ Len(q) = Cardinality(G)
  BY <1>1, GroupFacts
<1>3. Len(t.sent) + Len(q) <= MaxMessages
  BY <1>2
<1>4. n = Settle(SendAll(t, a, q, NoId, FALSE)) /\ NoId \in Nat
  BY <1>1 DEF NoId
<1> QED
  BY <1>2, <1>3, <1>4, SendAllKeeps DEF Good

\* The new messages R of agent from in v, whose recipients do what they did in t.
Prepared(v, t, R, from) ==
  /\ v.receipt = t.receipt
  /\ \A j \in Sent(t) : v.sent[j] = t.sent[j]
  /\ \A j \in R : /\ v.sent[j].from = from /\ v.sent[j].to \in Agents
                  /\ v.call[v.sent[j].to] = t.call[v.sent[j].to]

\* Prepared messages are sent.
LEMMA SendPrepared ==
  ASSUME NEW t, Good(t), NEW from \in Agents, t.status[from] # "parked",
         NEW l \in Nat, NEW m \in Nat, l + m <= MaxMessages,
         NEW R, R = NewIds(l, m), NEW v, Whole(v, R), Prepared(v, t, R, from),
         NEW n, n = Settle(SendEach(v, Fresh(l, m)))
  PROVE  Good(n)
<1>1. HeardAll(v, R)
  <2> SUFFICES ASSUME NEW i \in R PROVE Heard(v, i)
    BY DEF HeardAll
  <2>1. PICK to : to = v.sent[i].to
    OBVIOUS
  <2>2. to \in Agents /\ v.sent[i].from = from /\ v.call[to] = t.call[to]
    BY <2>1 DEF Prepared
  <2>3. v.receipt = t.receipt /\ \A j \in Sent(t) : v.sent[j] = t.sent[j]
    BY DEF Prepared
  <2> QED
    BY <2>1, <2>2, <2>3, HeardNew DEF Good
<1> QED
  BY <1>1, SendFresh DEF Good

\* What an auto-reply owes is known no more.
LEMMA RepliedKeeps ==
  ASSUME NEW t, Good(t), NEW i, NEW n, n = [t EXCEPT !.due = @ \ {i}]
  PROVE  Good(n) /\ n.sent = t.sent /\ n.session = t.session /\ n.status = t.status
<1>1. /\ t \in Nets /\ Mail(t, {}) /\ Calling(t, {}) /\ Living(t) /\ Calm(t) /\ Gathering(t)
      /\ t.due \in SUBSET Ids /\ Settled(t)
  BY NetFields DEF Good, Whole, Fit
<1>2. /\ n \in Nets /\ n.due \subseteq t.due /\ n.receipt = t.receipt /\ n.sent = t.sent
      /\ n.shown = t.shown /\ n.steered = t.steered /\ n.asides = t.asides /\ n.mail = t.mail
      /\ n.revival = t.revival /\ n.dropped = t.dropped
      /\ n.call = t.call /\ n.waiters = t.waiters /\ n.status = t.status
      /\ n.session = t.session /\ n.collector = t.collector
  BY <1>1 DEF Nets
<1>3. Sent(n) = Sent(t)
  BY <1>2 DEF Sent
<1>9. ASSUME NEW a \in Agents
      PROVE Pending(n, a) = Pending(t, a) /\ To(n, a) = To(t, a) /\ Got(n, a) = Got(t, a)
  BY <1>2, <1>3 DEF Pending, To, Got
<1>4. Placed(n, {}) /\ Single(n)
  <2>1. Placed(n, {})
    <3>1. ASSUME NEW a \in Agents
          PROVE  /\ \A j \in Pending(n, a) : /\ j \in To(n, a)
                                             /\ n.receipt[j] = "delivered" /\ n.shown[j] = 0
                 /\ \A j \in ToSet(n.mail[a]) : /\ j \in To(n, a)
                                                /\ n.receipt[j] = "unseen" /\ n.shown[j] = 0
                 /\ \A j \in ToSet(n.revival[a]) : j \in To(n, a) /\ n.receipt[j] = "reviving"
                 /\ Got(n, a) # NoId => /\ Got(n, a) \in To(n, a) \ Pending(n, a)
                                        /\ n.receipt[Got(n, a)] = "delivered"
                                        /\ n.shown[Got(n, a)] = 0
      <4>1. PICK p, g, o : p = Pending(t, a) /\ g = Got(t, a) /\ o = To(t, a)
        OBVIOUS
      <4>2. /\ \A j \in p : j \in o /\ t.receipt[j] = "delivered" /\ t.shown[j] = 0
            /\ \A j \in ToSet(t.mail[a]) : j \in o /\ t.receipt[j] = "unseen" /\ t.shown[j] = 0
            /\ \A j \in ToSet(t.revival[a]) : j \in o /\ t.receipt[j] = "reviving"
            /\ g # NoId => g \in o \ p /\ t.receipt[g] = "delivered" /\ t.shown[g] = 0
        BY <1>1, <4>1 DEF Mail, Placed
      <4>3. Pending(n, a) = p /\ Got(n, a) = g /\ To(n, a) = o
        BY <1>9, <4>1
      <4> QED
        BY <1>2, <4>2, <4>3
    <3>2. \A j \in Ids : /\ n.shown[j] <= 1
                         /\ n.receipt[j] \in {"none", "reviving", "failed"} => n.shown[j] = 0
      BY <1>1, <1>2 DEF Mail, Placed
    <3> QED
      BY <3>1, <3>2 DEF Placed
  <2>2. Single(n)
    BY <1>1, <1>2 DEF Mail, Single
  <2> QED
    BY <2>1, <2>2
<1>5. Counted(n, {}) /\ Promised(n)
  <2>1. Counted(n, {})
    BY <1>1, <1>2, <1>3 DEF Mail, Counted
  <2>2. Promised(n)
    <3>1. \A j \in Sent(t) : n.sent[j].to \in Agents
      BY <1>1, <1>2, SentFacts
    <3> QED
      BY <1>1, <1>2, <1>3, <1>9, <3>1 DEF Mail, Promised
  <2> QED
    BY <2>1, <2>2
<1>6. Calling(n, {}) /\ Gathering(n)
  <2>1. ASSUME NEW a \in Agents PROVE CallFits(n, {}, a) /\ WaitersFit(n, a)
    <3>1. /\ n.call[a] = t.call[a] /\ n.waiters[a] = t.waiters[a] /\ n.status[a] = t.status[a]
          /\ n.receipt = t.receipt /\ n.sent = t.sent
      BY <1>2
    <3>2. CallFits(t, {}, a) /\ WaitersFit(t, a)
      BY <1>1 DEF Calling
    <3>3. CallFits(n, {}, a)
      BY <1>3, <3>1, <3>2 DEF CallFits, Got
    <3>4. WaitersFit(n, a)
      BY <3>1, <3>2 DEF WaitersFit
    <3> QED
      BY <3>3, <3>4
  <2> QED
    BY <1>1, <1>2, <1>3, <2>1 DEF Calling, Gathering
<1>7. Living(n) /\ Settled(n)
  <2>1. Living(n)
    BY <1>1, <1>2 DEF Living, Lives
  <2>2. Settled(n)
    BY <1>1, <1>2, <1>9 DEF Settled
  <2> QED
    BY <2>1, <2>2
<1>8. Calm(n)
  BY <1>1, <1>2 DEF Calm, Orphaned, HasRunningSender
<1> QED
  BY <1>2, <1>4, <1>5, <1>6, <1>7, <1>8 DEF Good, Whole, Fit, Mail

\* The side channel answers for a busy session, or gives the answer up.
LEMMA AutoReplyKeeps ==
  ASSUME NEW t, Good(t), NEW i \in t.due, NEW u, u = [t EXCEPT !.due = @ \ {i}],
         NEW n, \/ n = u
                \/ /\ t.session[t.sent[i].to] = "live" /\ Len(t.sent) + 1 <= MaxMessages
                   /\ n = Settle(SendAll(u, t.sent[i].to, <<t.sent[i].from>>, i, FALSE))
  PROVE  Good(n)
<1>1. t \in Nets /\ Living(t) /\ i \in Sent(t) /\ Sent(t) \subseteq Ids
  BY DEF Good, Whole, Fit, Mail, Counted
<1>2. PICK a, q : a = t.sent[i].to /\ q = <<t.sent[i].from>>
  OBVIOUS
<1>3. a \in Agents /\ t.sent[i].from \in Agents
  BY <1>1, <1>2, SentFacts
<1>4. q \in Seq(Agents) /\ Len(q) = 1 /\ i \in Nat
  BY <1>1, <1>2, <1>3, Numbers
<1>5. Good(u) /\ u.sent = t.sent /\ u.session = t.session /\ u.status = t.status
  BY RepliedKeeps, ZenonT(60)
<1>6. CASE n = u
  BY <1>5, <1>6
<1>7. CASE /\ t.session[a] = "live" /\ Len(t.sent) + 1 <= MaxMessages
           /\ n = Settle(SendAll(u, a, q, i, FALSE))
  <2>1. u.status[a] # "parked"
    BY <1>1, <1>3, <1>5, <1>7 DEF Living, Lives
  <2>2. Len(u.sent) + Len(q) <= MaxMessages
    BY <1>4, <1>5, <1>7
  <2> QED
    BY <1>3, <1>4, <1>5, <1>7, <2>1, <2>2, SendAllKeeps DEF Good
<1> QED
  BY <1>2, <1>6, <1>7

\* It makes no difference whether an agent is blocked before its message is numbered.
LEMMA BlockedCommutes ==
  ASSUME NEW t \in Nets, NEW a, NEW w, NEW c, NEW targets, NEW re, NEW awaited
  PROVE  /\ Numbered(Blocked(t, a, w, c), a, targets, re, awaited)
              = Blocked(Numbered(t, a, targets, re, awaited), a, w, c)
         /\ Blocked(t, a, w, c).sent = t.sent
<1>1. PICK W, C, S : /\ W = [t.waiters EXCEPT ![a] = Append(@, w)]
                     /\ C = [t.call EXCEPT ![a] = c]
                     /\ S = t.sent \o [k \in 1..Len(targets) |->
                              [from |-> a, to |-> targets[k], re |-> re, awaited |-> awaited]]
  OBVIOUS
<1>2. PICK u, v : u = Blocked(t, a, w, c) /\ v = Numbered(t, a, targets, re, awaited)
  OBVIOUS
<1>3. u = [t EXCEPT !.waiters = W, !.call = C] /\ v = [t EXCEPT !.sent = S]
  BY <1>1, <1>2 DEF Blocked, Numbered, Nets
<1>4. u.sent = t.sent /\ v.waiters = t.waiters /\ v.call = t.call
  BY <1>3 DEF Nets
<1>5. Numbered(u, a, targets, re, awaited) = [u EXCEPT !.sent = S]
  BY <1>1, <1>4 DEF Numbered
<1>6. Blocked(v, a, w, c) = [v EXCEPT !.waiters = W, !.call = C]
  BY <1>1, <1>4 DEF Blocked
<1>7. [u EXCEPT !.sent = S] = [v EXCEPT !.waiters = W, !.call = C]
  BY <1>3 DEF Nets
<1> QED
  BY <1>2, <1>4, <1>5, <1>6, <1>7

\* Waiter w and call c are for the answer of agent b to message i.
ForAnswer(w, c, b, i) ==
  /\ w \in Waiters /\ w.owner = "tool" /\ ~w.guarded /\ w.from = b
  /\ c \in Calls /\ c.got = NoId /\ c.open /\ c.kind = "await" /\ c.id = i
\* Message i is the only one of R, and the first after the first l.
First(R, i, l) == R = {i} /\ i - l = 1

\* An agent gets blocked for the answer to its message, which is the next one.
LEMMA AwaitingKeeps ==
  ASSUME NEW t, Good(t), NEW a \in Agents, NEW b \in Agents \ {a}, t.status[a] = "running",
         t.call[a].kind = "none", NEW q \in Seq(Agents), q[1] = b, NEW re \in Nat,
         NEW awaited \in BOOLEAN, Len(t.sent) + Len(q) <= MaxMessages,
         NEW R, R = NewIds(Len(t.sent), Len(q)),
         NEW i, First(R, i, Len(t.sent)), NEW w, NEW c, ForAnswer(w, c, b, i),
         NEW u, u = Numbered(t, a, q, re, awaited), NEW v, v = Blocked(u, a, w, c)
  PROVE  Whole(v, R) /\ Prepared(v, t, R, a)
<1>1. Whole(t, {})
  BY DEF Good
<1>2. Whole(u, R) /\ u.receipt = t.receipt /\ u.call = t.call /\ u.status = t.status
  BY <1>1, NumberedKeeps
<1>3. \A j \in Sent(t) : u.sent[j] = t.sent[j]
  BY <1>1, NumberedKeeps
<1>4. \A j \in R : u.sent[j].from = a /\ u.sent[j].to = q[j - Len(t.sent)]
  BY <1>1, NumberedKeeps
<1>5. u.sent[i].from = a /\ u.sent[i].to = b
  BY <1>4 DEF First
<1>6. Fit(u, R) /\ Living(u) /\ Calm(u) /\ u \in Nets /\ R \subseteq Sent(u)
  BY <1>2 DEF Whole, Fit, Mail, Counted
<1>7. /\ c.id \in R /\ c.id \in Sent(u) /\ w.from = u.sent[c.id].to
      /\ w \in Waiters /\ w.owner = "tool" /\ ~w.guarded /\ c \in Calls /\ c.got = NoId
      /\ c.open /\ c.kind = "await"
  BY <1>5, <1>6 DEF ForAnswer, First
<1>8. u.call[a].kind = "none" /\ u.status[a] = "running"
  BY <1>2
<1>13. \/ c.kind = "wait"
          \/ /\ c.kind = "await" /\ c.id \in Sent(u) /\ w.from = u.sent[c.id].to
             /\ u.receipt[c.id] = "none" => c.id \in R
  BY <1>7
<1>14. w \in Waiters /\ w.owner = "tool" /\ c \in Calls /\ c.got = NoId /\ c.open
  BY <1>7
<1>15. /\ Fit(v, R) /\ SameMail(v, u) /\ v.status = u.status /\ v.session = u.session
  BY <1>6, <1>8, <1>13, <1>14, BlockedKeeps
<1>16. \A d \in Agents : d # a => v.call[d] = u.call[d]
  BY <1>6, <1>8, <1>13, <1>14, BlockedKeeps
<1>17. Added(v, u, w)
  BY <1>6, <1>8, <1>13, <1>14, BlockedKeeps
<1>9. /\ Fit(v, R) /\ SameMail(v, u) /\ v.status = u.status /\ v.session = u.session
      /\ \A d \in Agents : d # a => v.call[d] = u.call[d]
      /\ \A d \in Agents : \A x \in ToSet(v.waiters[d]) : x \in ToSet(u.waiters[d]) \/ x = w
  BY <1>15, <1>16, <1>17 DEF Added
<1>10. Living(v)
  BY <1>6, <1>9 DEF Living, Lives, SameMail
<1>11. Calm(v)
  <2>1. \A d \in Agents : u.waiters[d] \in Seq(Waiters) /\ v.waiters[d] \in Seq(Waiters)
    BY <1>6, <1>9, NetFields DEF Fit
  <2>2. \A d \in Agents : \A x \in ToSet(v.waiters[d]) : x.guarded => x \in ToSet(u.waiters[d])
    BY <1>7, <1>9
  <2> QED
    BY <1>6, <1>9, <2>1, <2>2, CalmKept
<1>12. Prepared(v, t, R, a)
  <2>1. v.receipt = t.receipt /\ v.sent = u.sent
    BY <1>2, <1>9 DEF SameMail
  <2>2. v.call[b] = t.call[b]
    BY <1>2, <1>9
  <2>3. \A j \in R : v.sent[j].from = a /\ v.sent[j].to = b
    BY <1>5, <2>1 DEF First
  <2> QED
    BY <1>3, <2>1, <2>2, <2>3 DEF Prepared
<1> QED
  BY <1>9, <1>10, <1>11, <1>12 DEF Whole

\* An agent sends and awaits the reply: its waiter is there first.
LEMMA SendAndAwaitKeeps ==
  ASSUME NEW t, Good(t), NEW a \in Agents, NEW b \in Agents \ {a}, t.status[a] = "running",
         t.call[a].kind = "none", NEW l, l = Len(t.sent), l + 1 <= MaxMessages,
         NEW w, w = [from |-> b, guarded |-> FALSE, owner |-> "tool"],
         NEW c, c = [kind |-> "await", id |-> l + 1, open |-> TRUE, got |-> NoId],
         NEW awaited \in BOOLEAN,
         NEW n, n = Settle(SendAll(Blocked(t, a, w, c), a, <<b>>, NoId, awaited))
  PROVE  Good(n)
<1>1. t \in Nets /\ l \in Nat /\ MaxMessages \in Nat
  <2>1. t \in Nets
    BY DEF Good, Whole, Fit
  <2>2. t.sent \in Seq(Messages)
    BY <2>1, NetFields
  <2> QED
    BY <2>1, <2>2, Numbers DEF Good
<1>2. PICK q, R, i : q = <<b>> /\ R = NewIds(l, 1) /\ i = l + 1
  OBVIOUS
<1>3. q \in Seq(Agents) /\ Len(q) = 1 /\ q[1] = b /\ NoId \in Nat
  BY <1>1, <1>2 DEF NoId
<1>4. /\ R = NewIds(Len(t.sent), Len(q)) /\ Len(t.sent) + Len(q) <= MaxMessages
  BY <1>1, <1>2, <1>3
<1>5. First(R, i, Len(t.sent))
  BY <1>1, <1>2 DEF First, NewIds
<1>6. ForAnswer(w, c, b, i)
  BY <1>1, <1>2 DEF ForAnswer, Calls, Waiters, Ids
<1>7. PICK u, v : u = Numbered(t, a, q, NoId, awaited) /\ v = Blocked(u, a, w, c)
  OBVIOUS
<1>8. Whole(v, R) /\ Prepared(v, t, R, a)
  BY <1>3, <1>4, <1>5, <1>6, <1>7, AwaitingKeeps, ZenonT(60)
<1>9. SendAll(Blocked(t, a, w, c), a, q, NoId, awaited) = SendEach(v, Fresh(l, 1))
  <2>1. PICK x : x = Blocked(t, a, w, c)
    OBVIOUS
  <2>2. Numbered(x, a, q, NoId, awaited) = v /\ x.sent = t.sent
    BY <1>1, <1>7, <2>1, BlockedCommutes
  <2> QED
    BY <1>3, <2>1, <2>2 DEF SendAll, Fresh
<1>10. n = Settle(SendEach(v, Fresh(l, 1))) /\ t.status[a] # "parked" /\ 1 \in Nat
  BY <1>2, <1>9
<1> QED
  BY <1>1, <1>2, <1>8, <1>10, SendPrepared

\* The collector gets to work, by messages that were sent.
Asking(t, c) == [t EXCEPT !.collector = c]

\* The collector starts, before any of its messages is sent.
LEMMA AskingKeeps ==
  ASSUME NEW R, NEW t, Whole(t, R), NEW c \in Collectors, c.for \in Agents,
         ToSet(c.asked) \subseteq Sent(t), NEW n, n = Asking(t, c)
  PROVE  Whole(n, R) /\ SameMail(n, t) /\ n.call = t.call
<1>1. t \in Nets /\ Calling(t, R)
  BY DEF Whole, Fit
<1>2. /\ n \in Nets /\ n.collector = c /\ n.waiters = t.waiters /\ n.call = t.call
      /\ SameMail(n, t) /\ n.status = t.status /\ n.session = t.session
  BY <1>1 DEF Nets, Asking, SameMail
<1>3. Gathering(n)
  BY <1>2 DEF Gathering, SameMail, Sent
<1>4. Fewer(n, t) /\ OneEach(n)
  BY <1>1, <1>2 DEF Fewer, OneEach, Calling, WaitersFit
<1>5. \A a \in Agents : CallLess(n, t, a)
  BY <1>2 DEF CallLess
<1> QED
  BY <1>2, <1>3, <1>4, <1>5, CallsLess

\* The messages of a group send are those its collector asks about.
LEMMA AskedKeeps ==
  ASSUME NEW t, Good(t), NEW a \in Agents, NEW q \in Seq(Agents), NEW re \in Nat,
         NEW awaited \in BOOLEAN, Len(t.sent) + Len(q) <= MaxMessages,
         NEW R, R = NewIds(Len(t.sent), Len(q)),
         NEW c \in Collectors, c.for \in Agents, ToSet(c.asked) = R,
         NEW u, u = Numbered(t, a, q, re, awaited), NEW v, v = Asking(u, c)
  PROVE  Whole(v, R) /\ Prepared(v, t, R, a)
<1>1. Whole(t, {})
  BY DEF Good
<1>2. Whole(u, R) /\ u.receipt = t.receipt /\ u.call = t.call
  BY <1>1, NumberedKeeps
<1>3. /\ \A j \in Sent(t) : u.sent[j] = t.sent[j]
      /\ \A j \in R : u.sent[j].from = a
  BY <1>1, NumberedKeeps
<1>4. u \in Nets /\ R \subseteq Sent(u)
  BY <1>2 DEF Whole, Fit, Mail, Counted
<1>5. Whole(v, R) /\ SameMail(v, u) /\ v.call = u.call
  BY <1>2, <1>4, AskingKeeps
<1>6. v.receipt = t.receipt /\ v.sent = u.sent /\ v.call = t.call
  BY <1>2, <1>5 DEF SameMail
<1>7. \A j \in R : u.sent[j].to \in Agents
  BY <1>4, SentFacts
<1> QED
  BY <1>3, <1>5, <1>6, <1>7 DEF Prepared

\* The collector asks a group.
LEMMA CollectKeeps ==
  ASSUME NEW t, Good(t), NEW a \in Agents, t.status[a] # "parked", NEW G \in SUBSET Agents,
         NEW l, l = Len(t.sent), l + Cardinality(G) <= MaxMessages,
         NEW c, c = [phase |-> "sending", for |-> a,
                     asked |-> [k \in 1..Cardinality(G) |-> l + k], got |-> {}],
         NEW awaited \in BOOLEAN,
         NEW n, n = Settle(SendAll(Asking(t, c), a, SetToSeq(G), NoId, awaited))
  PROVE  Good(n)
<1>1. t \in Nets /\ l \in Nat
  <2>1. t \in Nets
    BY DEF Good, Whole, Fit
  <2>2. t.sent \in Seq(Messages)
    BY <2>1, NetFields
  <2> QED
    BY <2>1, <2>2 DEF Good
<1>2. PICK q, m, R : q = SetToSeq(G) /\ m = Cardinality(G) /\ R = NewIds(l, m)
  OBVIOUS
<1>3. q \in Seq(Agents) /\ Len(q) = m /\ m \in Nat /\ l + m <= MaxMessages /\ NoId \in Nat
  BY <1>2, GroupFacts DEF NoId
<1>4. R = NewIds(Len(t.sent), Len(q)) /\ Len(t.sent) + Len(q) <= MaxMessages
  BY <1>1, <1>2, <1>3
<1>5. c.asked = Fresh(l, m) /\ c.for = a
  BY <1>2 DEF Fresh
<1>6. c.asked \in Seq(Ids) /\ ToSet(c.asked) = R
  BY <1>1, <1>2, <1>3, <1>5, FreshFacts
<1>7. c \in Collectors
  BY <1>6 DEF Collectors
<1>8. PICK u, v : u = Numbered(t, a, q, NoId, awaited) /\ v = Asking(u, c)
  OBVIOUS
<1>9. Whole(v, R) /\ Prepared(v, t, R, a)
  BY <1>3, <1>4, <1>5, <1>6, <1>7, <1>8, AskedKeeps
<1>10. SendAll(Asking(t, c), a, q, NoId, awaited) = SendEach(v, Fresh(l, m))
  <2>1. PICK x, S : /\ x = Asking(t, c)
                    /\ S = t.sent \o [k \in 1..Len(q) |->
                              [from |-> a, to |-> q[k], re |-> NoId, awaited |-> awaited]]
    OBVIOUS
  <2>2. x = [t EXCEPT !.collector = c] /\ x.sent = t.sent /\ u = [t EXCEPT !.sent = S]
    BY <1>1, <1>8, <2>1 DEF Asking, Numbered, Nets
  <2>3. Numbered(x, a, q, NoId, awaited) = [x EXCEPT !.sent = S]
    BY <2>1, <2>2 DEF Numbered
  <2>4. [x EXCEPT !.sent = S] = v
    BY <1>1, <1>8, <2>2 DEF Asking, Nets
  <2> QED
    BY <1>3, <2>1, <2>2, <2>3, <2>4 DEF SendAll, Fresh
<1>11. n = Settle(SendEach(v, Fresh(l, m)))
  BY <1>2, <1>10
<1> QED
  BY <1>1, <1>2, <1>3, <1>9, <1>11, SendPrepared

\* One wait of the collector times out.
LEMMA CollectorTimesOutKeeps ==
  ASSUME NEW t, Good(t), NEW a \in Agents, NEW k \in DOMAIN t.waiters[a],
         t.waiters[a][k].owner = "collector", NEW n, n = Settle(RemoveWaiter(t, a, k))
  PROVE  Good(n)
<1>1. t \in Nets /\ Whole(t, {}) /\ OneEach(t) /\ Gathering(t)
  BY DEF Good, Whole, Fit, Calling, WaitersFit, OneEach
<1>2. k \in 1..Len(t.waiters[a])
  <2>1. t.waiters[a] \in Seq(Waiters)
    BY <1>1, NetFields
  <2> QED
    BY <2>1
<1>3. PICK m : m = RemoveWaiter(t, a, k)
  OBVIOUS
<1>4. /\ m \in Nets /\ SameRest(m, t) /\ m.call = t.call /\ m.collector = t.collector
      /\ Fewer(m, t) /\ OneEach(m)
  BY <1>1, <1>2, <1>3, RemoveWaiterFacts
<1>5. Gathering(m)
  BY <1>1, <1>4 DEF Gathering, SameRest, SameMail, Sent
<1>6. \A b \in Agents : CallLess(m, t, b)
  BY <1>4 DEF CallLess
<1>7. Whole(m, {})
  BY <1>1, <1>4, <1>5, <1>6, CallsLess DEF SameRest
<1> QED
  BY <1>3, <1>7, SettleKeeps DEF Good

\* The queues g are the queues f, of which agent a has lost the messages ids.
Thinner(g, f, a, ids) ==
  /\ g \in Queues /\ \A b \in Agents : b # a => g[b] = f[b]
  /\ IsInjective(g[a]) /\ \A j \in Ids : j \in ToSet(g[a]) <=> j \in ToSet(f[a]) /\ j \notin ids

\* A queue gives away one message.
LEMMA ThinnerByOne ==
  ASSUME NEW f \in Queues, NEW a \in Agents, IsInjective(f[a]), NEW k \in 1..Len(f[a]),
         NEW g, g = [f EXCEPT ![a] = RemoveAt(@, k)]
  PROVE  Thinner(g, f, a, {f[a][k]}) /\ f[a][k] \in ToSet(f[a])
<1>1. PICK q, r : q = f[a] /\ r = RemoveAt(q, k)
  OBVIOUS
<1>2. q \in Seq(Ids)
  BY <1>1 DEF Queues
<1>3. r \in Seq(Ids) /\ IsInjective(r) /\ ToSet(r) = ToSet(q) \ {q[k]} /\ q[k] \in ToSet(q)
  BY <1>1, <1>2, RemovedSet, Elements
<1>4. g = [f EXCEPT ![a] = r]
  BY <1>1
<1>5. g \in Queues /\ g[a] = r /\ \A b \in Agents : b # a => g[b] = f[b]
  BY <1>3, <1>4 DEF Queues
<1> QED
  BY <1>1, <1>3, <1>5 DEF Thinner

\* A queue gives away all it holds.
LEMMA ThinnerByAll ==
  ASSUME NEW f \in Queues, NEW a \in Agents, NEW ids, ToSet(f[a]) \subseteq ids,
         NEW g, g = [f EXCEPT ![a] = <<>>]
  PROVE  Thinner(g, f, a, ids)
<1>1. g \in Queues /\ g[a] = <<>> /\ \A b \in Agents : b # a => g[b] = f[b]
  BY NoElements DEF Queues
<1> QED
  BY <1>1, NoElements DEF Thinner

\* A queue holds none of what another one gives away.
LEMMA ThinnerByNone ==
  ASSUME NEW f \in Queues, NEW a \in Agents, IsInjective(f[a]), NEW ids, ToSet(f[a]) \cap ids = {}
  PROVE  Thinner(f, f, a, ids)
BY DEF Thinner

\* Messages that an agent takes from its queues are shown to it.
LEMMA TakeKeeps ==
  ASSUME NEW t, Good(t), NEW a \in Agents, NEW ids,
         ids \subseteq ToSet(t.asides[a]) \cup ToSet(t.mail[a]),
         NEW Q, Thinner(Q, t.asides, a, ids), NEW M, Thinner(M, t.mail, a, ids),
         NEW u, u = [t EXCEPT !.asides = Q, !.mail = M], NEW n, n = Show(u, ids)
  PROVE  Good(n)
<1>1. t \in Nets /\ Mail(t, {}) /\ Whole(t, {})
  BY DEF Good, Whole, Fit
<1>2. Q \in Queues /\ M \in Queues
  BY DEF Thinner
<1>3. u \in Nets /\ SameButQueues(u, t) /\ u.steered = t.steered /\ u.asides = Q /\ u.mail = M
  BY <1>1, <1>2 DEF Nets, Queues, SameButQueues
<1>4. ToSet(t.asides[a]) \in SUBSET Ids /\ ToSet(t.mail[a]) \in SUBSET Ids
  BY <1>1, HeldFacts
<1>5. Lacks(u, t, ids)
  <2> SUFFICES ASSUME NEW b \in Agents, NEW j \in Ids
               PROVE  /\ j \in Pending(u, b) <=> j \in Pending(t, b) /\ j \notin ids
                      /\ j \in ToSet(u.mail[b]) <=> j \in ToSet(t.mail[b]) /\ j \notin ids
    BY DEF Lacks
  <2>1. CASE b = a
    <3>1. /\ j \in ToSet(Q[a]) <=> j \in ToSet(t.asides[a]) /\ j \notin ids
          /\ j \in ToSet(M[a]) <=> j \in ToSet(t.mail[a]) /\ j \notin ids
      BY DEF Thinner
    <3>2. j \in t.steered[a] => j \notin ToSet(t.asides[a]) /\ t.receipt[j] = "delivered"
      BY <1>1 DEF Mail, Single, Placed, Pending
    <3>3. j \in ToSet(t.mail[a]) => t.receipt[j] = "unseen"
      BY <1>1 DEF Mail, Placed
    <3>4. j \in t.steered[a] => j \notin ids
      BY <3>2, <3>3
    <3> QED
      BY <1>3, <2>1, <3>1, <3>4 DEF Pending
  <2>2. CASE b # a
    <3>1. Q[b] = t.asides[b] /\ M[b] = t.mail[b]
      BY <2>2 DEF Thinner
    <3>2. j \in Pending(t, b) \/ j \in ToSet(t.mail[b]) => t.sent[j].to = b
      BY <1>1 DEF Mail, Placed, To
    <3>3. j \in ids => t.sent[j].to = a
      BY <1>1 DEF Mail, Placed, To, Pending
    <3> QED
      BY <1>3, <2>2, <3>1, <3>2, <3>3 DEF Pending
  <2> QED
    BY <2>1, <2>2
<1>6. Queues1(t, a, ids)
  BY <1>4 DEF Queues1, Pending
<1>7. Single(u)
  <2>1. ASSUME NEW b \in Agents
        PROVE  /\ u.steered[b] \cap ToSet(u.asides[b]) = {} /\ IsInjective(u.asides[b])
               /\ IsInjective(u.mail[b]) /\ IsInjective(u.revival[b])
    <3>1. /\ t.steered[b] \cap ToSet(t.asides[b]) = {} /\ IsInjective(t.asides[b])
          /\ IsInjective(t.mail[b]) /\ IsInjective(t.revival[b])
      BY <1>1 DEF Mail, Single
    <3>2. CASE b = a
      <4>1. IsInjective(Q[a]) /\ IsInjective(M[a])
        BY DEF Thinner
      <4>2. ToSet(Q[a]) \in SUBSET Ids
        BY <1>1, <1>3, HeldFacts
      <4>3. ToSet(Q[a]) \subseteq ToSet(t.asides[a])
        BY <4>2 DEF Thinner
      <4> QED
        BY <1>3, <3>1, <3>2, <4>1, <4>3 DEF SameButQueues
    <3>3. CASE b # a
      <4>1. Q[b] = t.asides[b] /\ M[b] = t.mail[b]
        BY <3>3 DEF Thinner
      <4> QED
        BY <1>3, <3>1, <4>1 DEF SameButQueues
    <3> QED
      BY <3>2, <3>3
  <2> QED
    BY <2>1 DEF Single
<1>8. Whole(n, {}) /\ SameRun(n, t)
  BY <1>1, <1>3, <1>5, <1>6, <1>7, ShowTaken
<1> QED
  BY <1>8, SettledStays DEF Good

\* The queues of an agent.
LEMMA OwnQueues ==
  ASSUME NEW t, Good(t), NEW a \in Agents
  PROVE  /\ t \in Nets /\ t.asides \in Queues /\ t.mail \in Queues
         /\ IsInjective(t.asides[a]) /\ IsInjective(t.mail[a])
         /\ \A j \in ToSet(t.asides[a]) : t.receipt[j] = "delivered"
         /\ \A j \in ToSet(t.mail[a]) : t.receipt[j] = "unseen"
         /\ ToSet(t.asides[a]) \cap ToSet(t.mail[a]) = {}
<1>1. t \in Nets /\ Mail(t, {})
  BY DEF Good, Whole, Fit
<1>2. t.asides \in Queues /\ t.mail \in Queues
  BY <1>1, NetFields DEF Queues
<1>3. IsInjective(t.asides[a]) /\ IsInjective(t.mail[a])
  BY <1>1 DEF Mail, Single
<1>4. /\ \A j \in ToSet(t.asides[a]) : t.receipt[j] = "delivered"
      /\ \A j \in ToSet(t.mail[a]) : t.receipt[j] = "unseen"
  BY <1>1 DEF Mail, Placed, Pending
<1> QED
  BY <1>1, <1>2, <1>3, <1>4

\* An irc `wait` takes the first fitting message the session holds.
LEMMA WaitTakesAside ==
  ASSUME NEW t, Good(t), NEW a \in Agents, NEW from, NEW k, k = FirstFrom(t, t.asides[a], from), k # 0,
         NEW n, n = Show([t EXCEPT !.asides[a] = RemoveAt(@, k)], {t.asides[a][k]})
  PROVE  Good(n)
<1>1. /\ t \in Nets /\ t.asides \in Queues /\ t.mail \in Queues
      /\ IsInjective(t.asides[a]) /\ IsInjective(t.mail[a])
      /\ ToSet(t.asides[a]) \cap ToSet(t.mail[a]) = {}
  BY OwnQueues
<1>2. k \in 1..Len(t.asides[a])
  <2>1. t.asides[a] \in Seq(Ids)
    BY <1>1 DEF Queues
  <2> QED
    BY <2>1, FirstFacts
<1>3. PICK f, M, ids : f = t.asides /\ M = t.mail /\ ids = {f[a][k]}
  OBVIOUS
<1>11. PICK Q : Q = [f EXCEPT ![a] = RemoveAt(@, k)]
  OBVIOUS
<1>4. PICK u : u = [t EXCEPT !.asides = Q, !.mail = M]
  OBVIOUS
<1>5. Thinner(Q, f, a, ids) /\ f[a][k] \in ToSet(f[a])
  BY <1>1, <1>2, <1>3, <1>11, ThinnerByOne
<1>6. Thinner(M, M, a, ids)
  BY <1>1, <1>3, <1>5, ThinnerByNone
<1>7. ids \subseteq ToSet(t.asides[a]) \cup ToSet(t.mail[a])
  BY <1>3, <1>5
<1>8. [t EXCEPT !.asides[a] = RemoveAt(@, k)] = u
  BY <1>1, <1>3, <1>4, <1>11 DEF Nets
<1>9. n = Show(u, ids)
  BY <1>3, <1>8
<1>10. Thinner(Q, t.asides, a, ids) /\ Thinner(M, t.mail, a, ids)
  BY <1>3, <1>5, <1>6
<1> QED
  BY <1>4, <1>7, <1>9, <1>10, TakeKeeps

\* An irc `wait` takes the first fitting message of the mailbox.
LEMMA WaitTakesMail ==
  ASSUME NEW t, Good(t), NEW a \in Agents, NEW from, NEW k, k = FirstFrom(t, t.mail[a], from), k # 0,
         NEW n, n = Show([t EXCEPT !.mail[a] = RemoveAt(@, k)], {t.mail[a][k]})
  PROVE  Good(n)
<1>1. /\ t \in Nets /\ t.asides \in Queues /\ t.mail \in Queues
      /\ IsInjective(t.asides[a]) /\ IsInjective(t.mail[a])
      /\ ToSet(t.asides[a]) \cap ToSet(t.mail[a]) = {}
  BY OwnQueues
<1>2. k \in 1..Len(t.mail[a])
  <2>1. t.mail[a] \in Seq(Ids)
    BY <1>1 DEF Queues
  <2> QED
    BY <2>1, FirstFacts
<1>3. PICK f, Q, ids : f = t.mail /\ Q = t.asides /\ ids = {f[a][k]}
  OBVIOUS
<1>11. PICK M : M = [f EXCEPT ![a] = RemoveAt(@, k)]
  OBVIOUS
<1>4. PICK u : u = [t EXCEPT !.asides = Q, !.mail = M]
  OBVIOUS
<1>5. Thinner(M, f, a, ids) /\ f[a][k] \in ToSet(f[a])
  BY <1>1, <1>2, <1>3, <1>11, ThinnerByOne
<1>6. Thinner(Q, Q, a, ids)
  BY <1>1, <1>3, <1>5, ThinnerByNone
<1>7. ids \subseteq ToSet(t.asides[a]) \cup ToSet(t.mail[a])
  BY <1>3, <1>5
<1>8. [t EXCEPT !.mail[a] = RemoveAt(@, k)] = u
  BY <1>1, <1>3, <1>4, <1>11 DEF Nets
<1>9. n = Show(u, ids)
  BY <1>3, <1>8
<1>10. Thinner(Q, t.asides, a, ids) /\ Thinner(M, t.mail, a, ids)
  BY <1>3, <1>5, <1>6
<1> QED
  BY <1>4, <1>7, <1>9, <1>10, TakeKeeps

\* A peek of the inbox takes what peers sent to the session.
LEMMA PeekKeeps ==
  ASSUME NEW t, Good(t), NEW a \in Agents,
         NEW n, n = Show([t EXCEPT !.asides[a] = <<>>], ToSet(t.asides[a]))
  PROVE  Good(n)
<1>1. /\ t \in Nets /\ t.asides \in Queues /\ t.mail \in Queues
      /\ IsInjective(t.asides[a]) /\ IsInjective(t.mail[a])
      /\ ToSet(t.asides[a]) \cap ToSet(t.mail[a]) = {}
  BY OwnQueues
<1>2. PICK f, g : f = t.asides /\ g = t.mail
  OBVIOUS
<1>3. PICK Q : Q = [f EXCEPT ![a] = <<>>]
  OBVIOUS
<1>4. PICK u, ids : u = [t EXCEPT !.asides = Q, !.mail = g] /\ ids = ToSet(f[a])
  OBVIOUS
<1>5. Thinner(Q, f, a, ids)
  BY <1>1, <1>2, <1>3, <1>4, ThinnerByAll
<1>6. Thinner(g, g, a, ids)
  BY <1>1, <1>2, <1>4, ThinnerByNone
<1>7. [t EXCEPT !.asides[a] = <<>>] = u
  BY <1>1, <1>2, <1>3, <1>4 DEF Nets
<1>8. n = Show(u, ids)
  BY <1>2, <1>4, <1>7
<1>9. ids \subseteq ToSet(t.asides[a]) \cup ToSet(t.mail[a])
  BY <1>2, <1>4
<1> QED
  BY <1>2, <1>4, <1>5, <1>6, <1>8, <1>9, TakeKeeps

\* The inbox gives away the queue of the session and the mailbox.
LEMMA DrainKeeps ==
  ASSUME NEW t, Good(t), NEW a \in Agents,
         NEW n, n = Show([t EXCEPT !.asides[a] = <<>>, !.mail[a] = <<>>],
                         ToSet(t.asides[a]) \cup ToSet(t.mail[a]))
  PROVE  Good(n)
<1>1. /\ t \in Nets /\ t.asides \in Queues /\ t.mail \in Queues
      /\ IsInjective(t.asides[a]) /\ IsInjective(t.mail[a])
      /\ ToSet(t.asides[a]) \cap ToSet(t.mail[a]) = {}
  BY OwnQueues
<1>2. PICK f, g : f = t.asides /\ g = t.mail
  OBVIOUS
<1>3. PICK Q, M : Q = [f EXCEPT ![a] = <<>>] /\ M = [g EXCEPT ![a] = <<>>]
  OBVIOUS
<1>4. PICK u, ids : /\ u = [t EXCEPT !.asides = Q, !.mail = M]
                    /\ ids = ToSet(f[a]) \cup ToSet(g[a])
  OBVIOUS
<1>5. Thinner(Q, f, a, ids)
  BY <1>1, <1>2, <1>3, <1>4, ThinnerByAll
<1>6. Thinner(M, g, a, ids)
  BY <1>1, <1>2, <1>3, <1>4, ThinnerByAll
<1>7. [t EXCEPT !.asides[a] = <<>>, !.mail[a] = <<>>] = u
  BY <1>1, <1>2, <1>3, <1>4 DEF Nets
<1>8. n = Show(u, ids)
  BY <1>2, <1>4, <1>7
<1>9. ids \subseteq ToSet(t.asides[a]) \cup ToSet(t.mail[a])
  BY <1>2, <1>4
<1> QED
  BY <1>2, <1>4, <1>5, <1>6, <1>8, <1>9, TakeKeeps, ZenonT(60)

\* A call starts to wait, and ends at once if nobody could answer.
LEMMA RegisteredKeeps ==
  ASSUME NEW t, Good(t), NEW a \in Agents, t.status[a] = "running", t.call[a].kind = "none",
         NEW w \in Waiters, w.owner = "tool",
         NEW c \in Calls, c.got = NoId, c.open, c.kind = "wait",
         NEW v, v = Blocked(t, a, w, c), NEW n, n = AbortOrphans(v)
  PROVE  Good(n)
<1>1. Fit(t, {}) /\ Living(t) /\ Settled(t)
  BY DEF Good, Whole
<1>2. \/ c.kind = "wait"
      \/ /\ c.kind = "await" /\ c.id \in Sent(t) /\ w.from = t.sent[c.id].to
         /\ t.receipt[c.id] = "none" => c.id \in {}
  OBVIOUS
<1>5. /\ Fit(v, {}) /\ SameMail(v, t) /\ v.status = t.status /\ v.session = t.session
      /\ v.call[a] = c
  BY <1>1, <1>2, BlockedKeeps
<1>6. \A b \in Agents : b # a => v.call[b] = t.call[b]
  BY <1>1, <1>2, BlockedKeeps
<1>3. /\ Fit(n, {}) /\ Calm(n) /\ SameMail(n, v) /\ n.status = v.status /\ n.session = v.session
  BY <1>5, AbortOrphansKeeps
<1>4. ASSUME NEW b \in Agents
      PROVE Got(n, b) = Got(v, b) /\ (n.call[b] = v.call[b] \/ n.call[b] = NoCall)
  BY <1>5, AbortOrphansKeeps
<1>7. /\ Fit(n, {}) /\ Calm(n) /\ SameMail(n, v) /\ n.status = v.status /\ n.session = v.session
      /\ \A b \in Agents : Got(n, b) = Got(v, b) /\ (n.call[b] = v.call[b] \/ n.call[b] = NoCall)
  BY <1>3, <1>4
<1>8. Living(n)
  BY <1>1, <1>5, <1>7 DEF Living, Lives, SameMail
<1>9. Settled(n)
  <2> SUFFICES ASSUME NEW b \in Agents
               PROVE  /\ Got(n, b) = NoId
                      /\ n.call[b].kind = "await" => n.receipt[n.call[b].id] \in {"delivered", "reviving"}
    BY DEF Settled
  <2>1. Got(n, b) = Got(v, b) /\ (n.call[b] = v.call[b] \/ n.call[b] = NoCall)
    BY <1>7
  <2>2. CASE b = a
    <3>1. Got(n, b) = NoId
      BY <1>5, <2>1, <2>2, NoCallFacts DEF Got
    <3>2. n.call[b].kind # "await"
      BY <1>5, <2>1, <2>2, NoCallFacts
    <3> QED
      BY <3>1, <3>2
  <2>3. CASE b # a
    <3>1. v.call[b] = t.call[b] /\ Got(v, b) = Got(t, b)
      BY <1>6, <2>3 DEF Got
    <3>2. n.receipt = t.receipt
      BY <1>5, <1>7 DEF SameMail
    <3> QED
      BY <1>1, <2>1, <3>1, <3>2, NoCallFacts DEF Settled
  <2> QED
    BY <2>2, <2>3
<1> QED
  BY <1>7, <1>8, <1>9 DEF Good, Whole

\* An irc `wait` that finds no message registers a waiter with a liveness check.
LEMMA WaitRegisters ==
  ASSUME NEW t, Good(t), NEW a \in Agents, t.status[a] = "running", t.call[a].kind = "none",
         NEW from \in Agents \cup {None},
         NEW w, w = [from |-> from, guarded |-> TRUE, owner |-> "tool"],
         NEW c, c = [NoCall EXCEPT !.kind = "wait", !.open = TRUE],
         NEW n, n = AbortOrphans(Blocked(t, a, w, c))
  PROVE  Good(n)
<1>1. w \in Waiters /\ w.owner = "tool"
  BY DEF Waiters
<1>2. c \in Calls /\ c.got = NoId /\ c.open /\ c.kind = "wait"
  BY DEF NoCall, Calls
<1> QED
  BY <1>1, <1>2, RegisteredKeeps

\* The wait of a tool call that settles without a message has no waiter any more.
LEMMA GiveUpKeeps ==
  ASSUME NEW t, Good(t), NEW a \in Agents, NEW n, n = GiveUp(t, a)
  PROVE  /\ Whole(n, {}) /\ NoTool(n, a) /\ SameMail(n, t) /\ n.status = t.status
         /\ n.session = t.session /\ \A b \in Agents : Got(n, b) = NoId
<1>1. t \in Nets /\ Whole(t, {}) /\ Calling(t, {}) /\ Gathering(t) /\ Settled(t)
  BY DEF Good, Whole, Fit
<1>2. /\ t.waiters \in [Agents -> Seq(Waiters)] /\ t.call \in [Agents -> Calls]
      /\ OneTool(t.waiters[a]) /\ Got(t, a) = NoId
  BY <1>1, NetFields DEF Calling, WaitersFit, Settled
<1>3. PICK ws, r : ws = t.waiters[a] /\ r = Withdraw(ws)
  OBVIOUS
<1>4. /\ r \in Seq(Waiters) /\ ToSet(r) \subseteq ToSet(ws) /\ OneTool(r)
      /\ \A w \in ToSet(r) : w.owner # "tool"
  BY <1>2, <1>3, WithdrawFacts
<1>5. PICK d, c : /\ d = t.call[a]
                  /\ c = IF d.kind = "wait" THEN NoCall ELSE [d EXCEPT !.open = FALSE]
  OBVIOUS
<1>6. /\ c \in Calls /\ (c = NoCall \/ (c.kind = d.kind /\ c.id = d.id /\ c.got = d.got /\ ~c.open))
  <2>1. d \in Calls
    BY <1>2, <1>5
  <2> QED
    BY <1>5, <2>1, NoCallFacts DEF Calls
<1>7. PICK W, C : W = [t.waiters EXCEPT ![a] = r] /\ C = [t.call EXCEPT ![a] = c]
  OBVIOUS
<1>8. /\ W \in [Agents -> Seq(Waiters)] /\ W[a] = r /\ \A b \in Agents : b # a => W[b] = t.waiters[b]
      /\ C \in [Agents -> Calls] /\ C[a] = c /\ \A b \in Agents : b # a => C[b] = t.call[b]
  BY <1>2, <1>4, <1>6, <1>7
<1>9. n = [t EXCEPT !.waiters = W, !.call = C]
  BY <1>1, <1>3, <1>5, <1>7 DEF GiveUp, Nets
<1>10. /\ n \in Nets /\ n.waiters = W /\ n.call = C /\ n.collector = t.collector
       /\ SameMail(n, t) /\ n.status = t.status /\ n.session = t.session
  BY <1>1, <1>8, <1>9, ZenonT(60) DEF Nets, SameMail
<1>11. NoTool(n, a)
  BY <1>4, <1>8, <1>10 DEF NoTool
<1>12. Gathering(n)
  BY <1>1, <1>10 DEF Gathering, SameMail, Sent
<1>13. ASSUME NEW b \in Agents
       PROVE  /\ CallLess(n, t, b) /\ OneTool(n.waiters[b])
              /\ ToSet(n.waiters[b]) \subseteq ToSet(t.waiters[b])
  <2>1. CASE b = a
    BY <1>2, <1>3, <1>4, <1>5, <1>6, <1>8, <1>10, <1>11, <2>1 DEF CallLess
  <2>2. CASE b # a
    BY <1>1, <1>8, <1>10, <2>2 DEF CallLess, Calling, WaitersFit
  <2> QED
    BY <2>1, <2>2
<1>14. Whole(n, {}) /\ \A b \in Agents : Got(n, b) = Got(t, b)
  <2>1. Fewer(n, t) /\ OneEach(n) /\ \A b \in Agents : CallLess(n, t, b)
    BY <1>13 DEF Fewer, OneEach
  <2> QED
    BY <1>1, <1>10, <1>12, <2>1, CallsLess
<1> QED
  BY <1>1, <1>10, <1>11, <1>14 DEF Settled

\* A wait is over without a message: a timeout, or an interruption.
LEMMA WaitEndsKeeps ==
  ASSUME NEW t, Good(t), NEW a \in Agents, NEW n, n = Settle(GiveUp(t, a))
  PROVE  Good(n)
<1>1. PICK u : u = GiveUp(t, a)
  OBVIOUS
<1>2. Whole(u, {})
  BY <1>1, GiveUpKeeps
<1> QED
  BY <1>1, <1>2, SettleKeeps DEF Good

\* An agent that is aborted hard: its session is gone, with what waited in it.
Gone(t, a) == WithStatus([Flushed(t, a) EXCEPT !.session[a] = "none", !.call[a] = NoCall], a, "aborted")

\* The status of an agent that is aborted.
LEMMA AbortedFields ==
  ASSUME NEW t \in Nets, NEW a \in Agents, NEW n, n = WithStatus(t, a, "aborted")
  PROVE  /\ n \in Nets /\ SameMail(n, t) /\ n.waiters = t.waiters /\ n.call = t.call
         /\ n.session = t.session /\ n.collector = t.collector
         /\ n.status[a] = "aborted" /\ \A b \in Agents : b # a => n.status[b] = t.status[b]
<1>1. t.status \in [Agents -> {"idle", "running", "parked", "aborted"}]
  BY NetFields
<1>2. /\ n \in Nets /\ n.status = [t.status EXCEPT ![a] = "aborted"]
      /\ n.waiters = t.waiters /\ n.call = t.call /\ n.session = t.session
      /\ n.collector = t.collector /\ SameMail(n, t)
  BY <1>1 DEF WithStatus, Nets, SameMail
<1> QED
  BY <1>1, <1>2

\* What is left of the agent, and of everybody else.
LEMMA GoneFields ==
  ASSUME NEW t \in Nets, NEW a \in Agents, NEW n, n = Gone(t, a)
  PROVE  /\ n \in Nets /\ n.sent = t.sent /\ n.receipt = t.receipt /\ n.shown = t.shown
         /\ n.revival = t.revival /\ n.mail = t.mail
         /\ n.dropped = t.dropped /\ n.due = t.due
         /\ n.waiters = t.waiters /\ n.collector = t.collector
         /\ n.steered[a] = {} /\ n.asides[a] = <<>> /\ n.call[a] = NoCall
         /\ n.status[a] = "aborted" /\ n.session[a] = "none"
         /\ \A b \in Agents : b # a =>
              /\ n.steered[b] = t.steered[b] /\ n.asides[b] = t.asides[b] /\ n.call[b] = t.call[b]
              /\ n.status[b] = t.status[b] /\ n.session[b] = t.session[b]
<1>1. PICK S, Q, C, T :
        /\ S = [t.steered EXCEPT ![a] = {}] /\ Q = [t.asides EXCEPT ![a] = <<>>]
        /\ C = [t.call EXCEPT ![a] = NoCall] /\ T = [t.session EXCEPT ![a] = "none"]
  OBVIOUS
<1>2. /\ t.steered \in [Agents -> SUBSET Ids] /\ t.asides \in Queues /\ t.call \in [Agents -> Calls]
      /\ t.session \in [Agents -> {"live", "disposed", "none"}]
  BY NetFields DEF Queues
<1>3. /\ S \in [Agents -> SUBSET Ids] /\ Q \in [Agents -> Seq(Ids)] /\ S[a] = {} /\ Q[a] = <<>>
      /\ \A b \in Agents : b # a => S[b] = t.steered[b] /\ Q[b] = t.asides[b]
  BY <1>1, <1>2, NoElements DEF Queues
<1>4. /\ C \in [Agents -> Calls] /\ C[a] = NoCall
      /\ \A b \in Agents : b # a => C[b] = t.call[b]
  BY <1>1, <1>2, NoCallFacts
<1>5. /\ T \in [Agents -> {"live", "disposed", "none"}] /\ T[a] = "none"
      /\ \A b \in Agents : b # a => T[b] = t.session[b]
  BY <1>1, <1>2
<1>6. PICK u, v : u = Flushed(t, a) /\ v = [u EXCEPT !.session[a] = "none", !.call[a] = NoCall]
  OBVIOUS
<1>7. u = [t EXCEPT !.steered = S, !.asides = Q]
  BY <1>1, <1>6 DEF Flushed, Nets
<1>8. v = [u EXCEPT !.session = T, !.call = C]
  BY <1>1, <1>6, <1>7 DEF Nets
<1>9. /\ u \in Nets /\ u.sent = t.sent /\ u.receipt = t.receipt /\ u.shown = t.shown
      /\ u.revival = t.revival /\ u.mail = t.mail
      /\ u.dropped = t.dropped /\ u.due = t.due
      /\ u.waiters = t.waiters /\ u.collector = t.collector /\ u.status = t.status
      /\ u.steered = S /\ u.asides = Q
  BY <1>3, <1>7 DEF Nets
<1>10. /\ v \in Nets /\ SameMail(v, u) /\ v.session = T /\ v.call = C
       /\ v.waiters = u.waiters /\ v.collector = u.collector /\ v.status = u.status
  BY <1>4, <1>5, <1>8, <1>9 DEF Nets, SameMail
<1>11. n = WithStatus(v, a, "aborted")
  BY <1>6 DEF Gone
<1>14. v \in Nets
  BY <1>10
<1>15. /\ n \in Nets /\ SameMail(n, v) /\ n.waiters = v.waiters /\ n.call = v.call
       /\ n.session = v.session /\ n.collector = v.collector /\ n.status[a] = "aborted"
  BY <1>11, <1>14, AbortedFields
<1>16. ASSUME NEW b \in Agents, b # a PROVE n.status[b] = v.status[b]
  BY <1>11, <1>14, <1>16, AbortedFields
<1>12. /\ n \in Nets /\ SameMail(n, v) /\ n.waiters = v.waiters /\ n.call = v.call
       /\ n.session = v.session /\ n.collector = v.collector
       /\ n.status[a] = "aborted" /\ \A b \in Agents : b # a => n.status[b] = v.status[b]
  BY <1>15, <1>16
<1>13. /\ n.sent = t.sent /\ n.receipt = t.receipt /\ n.shown = t.shown
       /\ n.revival = t.revival /\ n.mail = t.mail
       /\ n.dropped = t.dropped /\ n.due = t.due
       /\ n.waiters = t.waiters /\ n.collector = t.collector
       /\ n.steered = S /\ n.asides = Q /\ n.call = C /\ n.session = T
       /\ \A b \in Agents : b # a => n.status[b] = t.status[b]
  BY <1>9, <1>10, <1>12 DEF SameMail
<1> QED
  BY <1>3, <1>4, <1>5, <1>12, <1>13

\* The session of an aborted agent is gone with the queues it held.
LEMMA GoneKeeps ==
  ASSUME NEW t, Whole(t, {}), NEW a \in Agents, NoTool(t, a), Got(t, a) = NoId, NEW n, n = Gone(t, a)
  PROVE  Fit(n, {})
<1>1. t \in Nets /\ Mail(t, {}) /\ Calling(t, {}) /\ Gathering(t)
  BY DEF Whole, Fit
<1>2. /\ n \in Nets /\ n.sent = t.sent /\ n.receipt = t.receipt /\ n.shown = t.shown
      /\ n.revival = t.revival /\ n.mail = t.mail
      /\ n.dropped = t.dropped /\ n.due = t.due
      /\ n.waiters = t.waiters /\ n.collector = t.collector
      /\ n.steered[a] = {} /\ n.asides[a] = <<>> /\ n.call[a] = NoCall
      /\ n.status[a] = "aborted" /\ n.session[a] = "none"
  BY <1>1, GoneFields
<1>3. ASSUME NEW b \in Agents, b # a
      PROVE  /\ n.steered[b] = t.steered[b] /\ n.asides[b] = t.asides[b] /\ n.call[b] = t.call[b]
             /\ n.status[b] = t.status[b] /\ n.session[b] = t.session[b]
  BY <1>1, <1>3, GoneFields
<1>4. Sent(n) = Sent(t) /\ \A b \in Agents : Got(n, b) = Got(t, b)
  BY <1>2, <1>3, NoCallFacts DEF Sent, Got
<1>5. Pending(n, a) = {} /\ \A b \in Agents : b # a => Pending(n, b) = Pending(t, b)
  BY <1>2, <1>3, NoElements DEF Pending
<1>6. Placed(n, {})
  <2>1. ASSUME NEW b \in Agents
        PROVE  /\ \A j \in Pending(n, b) : /\ j \in To(n, b)
                                           /\ n.receipt[j] = "delivered" /\ n.shown[j] = 0
               /\ \A j \in ToSet(n.mail[b]) : /\ j \in To(n, b)
                                              /\ n.receipt[j] = "unseen" /\ n.shown[j] = 0
               /\ \A j \in ToSet(n.revival[b]) : j \in To(n, b) /\ n.receipt[j] = "reviving"
               /\ Got(n, b) # NoId => /\ Got(n, b) \in To(n, b) \ Pending(n, b)
                                      /\ n.receipt[Got(n, b)] = "delivered"
                                      /\ n.shown[Got(n, b)] = 0
    <3>1. PICK p, g, o, x : p = Pending(t, b) /\ g = Got(t, b) /\ o = To(t, b) /\ x = Pending(n, b)
      OBVIOUS
    <3>2. /\ \A j \in p : j \in o /\ t.receipt[j] = "delivered" /\ t.shown[j] = 0
          /\ \A j \in ToSet(t.mail[b]) : j \in o /\ t.receipt[j] = "unseen" /\ t.shown[j] = 0
          /\ \A j \in ToSet(t.revival[b]) : j \in o /\ t.receipt[j] = "reviving"
          /\ g # NoId => g \in o \ p /\ t.receipt[g] = "delivered" /\ t.shown[g] = 0
      BY <1>1, <3>1 DEF Mail, Placed
    <3>3. Got(n, b) = g /\ To(n, b) = o /\ x \subseteq p
      BY <1>2, <1>4, <1>5, <3>1 DEF To
    <3> QED
      BY <1>2, <3>1, <3>2, <3>3
  <2>2. \A j \in Ids : /\ n.shown[j] <= 1
                       /\ n.receipt[j] \in {"none", "reviving", "failed"} => n.shown[j] = 0
    BY <1>1, <1>2 DEF Mail, Placed
  <2> QED
    BY <2>1, <2>2 DEF Placed
<1>7. Single(n)
  <2>1. ASSUME NEW b \in Agents
        PROVE  /\ n.steered[b] \cap ToSet(n.asides[b]) = {} /\ IsInjective(n.asides[b])
    BY <1>1, <1>2, <1>3, NoElements DEF Mail, Single
  <2> QED
    BY <1>1, <1>2, <2>1 DEF Mail, Single
<1>8. Counted(n, {})
  BY <1>1, <1>2, <1>4 DEF Mail, Counted
<1>9. Promised(n)
  <2> SUFFICES ASSUME NEW i \in Sent(n), NEW to, to = n.sent[i].to
               PROVE  /\ n.receipt[i] = "delivered" =>
                           n.shown[i] > 0 \/ i \in Pending(n, to) \/ i = Got(n, to) \/ n.status[to] = "aborted"
                      /\ n.receipt[i] = "unseen" =>
                           n.shown[i] > 0 \/ i \in ToSet(n.mail[to]) \/ i \in n.dropped
    BY DEF Promised
  <2>1. to \in Agents /\ to = t.sent[i].to
    BY <1>1, <1>2, <1>4, SentFacts
  <2>2. /\ t.receipt[i] = "delivered" =>
             t.shown[i] > 0 \/ i \in Pending(t, to) \/ i = Got(t, to) \/ t.status[to] = "aborted"
        /\ t.receipt[i] = "unseen" => t.shown[i] > 0 \/ i \in ToSet(t.mail[to]) \/ i \in t.dropped
    BY <1>1, <1>4, <2>1 DEF Mail, Promised
  <2>3. CASE to = a
    BY <1>2, <2>2, <2>3
  <2>4. CASE to # a
    BY <1>2, <1>3, <1>4, <1>5, <2>1, <2>2, <2>4
  <2> QED
    BY <2>3, <2>4
<1>10. ASSUME NEW b \in Agents PROVE CallFits(n, {}, b) /\ WaitersFit(n, b)
  <2>1. CallFits(t, {}, b) /\ WaitersFit(t, b)
    BY <1>1 DEF Calling
  <2>2. CASE b = a
    <3>1. CallFits(n, {}, a)
      BY <1>2, NoCallFacts DEF CallFits, Got
    <3>2. WaitersFit(n, a)
      BY <1>2, <2>1, <2>2 DEF WaitersFit, NoTool
    <3> QED
      BY <2>2, <3>1, <3>2
  <2>3. CASE b # a
    <3>1. n.call[b] = t.call[b] /\ n.status[b] = t.status[b] /\ Got(n, b) = Got(t, b)
      BY <1>3, <1>4, <2>3
    <3>2. CallFits(n, {}, b)
      BY <1>2, <1>4, <2>1, <3>1 DEF CallFits
    <3>3. WaitersFit(n, b)
      BY <1>2, <2>1, <3>1 DEF WaitersFit
    <3> QED
      BY <3>2, <3>3
  <2> QED
    BY <2>2, <2>3
<1>11. Gathering(n)
  BY <1>1, <1>2, <1>4 DEF Gathering
<1> QED
  BY <1>2, <1>6, <1>7, <1>8, <1>9, <1>10, <1>11 DEF Fit, Mail, Calling

\* A hard abort ends the wait, the session and the status of an agent.
LEMMA HardAbortKeeps ==
  ASSUME NEW t, Good(t), NEW a \in Agents, t.status[a] \notin {"parked", "aborted"},
         NEW n, n = Settle(SetStatus([Flushed(GiveUp(t, a), a) EXCEPT !.session[a] = "none",
                                                                     !.call[a] = NoCall], a, "aborted"))
  PROVE  Good(n)
<1>1. PICK u, v : u = GiveUp(t, a) /\ v = Gone(u, a)
  OBVIOUS
<1>2. /\ Whole(u, {}) /\ NoTool(u, a) /\ SameMail(u, t) /\ u.status = t.status
      /\ u.session = t.session /\ Got(u, a) = NoId
  BY <1>1, GiveUpKeeps
<1>3. Fit(v, {})
  BY <1>1, <1>2, GoneKeeps
<1>4. u \in Nets /\ Living(u)
  BY <1>2 DEF Whole, Fit
<1>5. v.revival = u.revival /\ v.status[a] = "aborted" /\ v.session[a] = "none"
  BY <1>1, <1>4, GoneFields
<1>6. \A b \in Agents : b # a => v.status[b] = u.status[b] /\ v.session[b] = u.session[b]
  BY <1>1, <1>4, GoneFields
<1>7. PICK w : w = AbortOrphans(v)
  OBVIOUS
<1>8. Fit(w, {}) /\ Calm(w) /\ SameMail(w, v) /\ w.status = v.status /\ w.session = v.session
  BY <1>3, <1>7, AbortOrphansKeeps
<1>9. ASSUME NEW b \in Agents PROVE Lives(w, b)
  <2>1. Lives(u, b)
    BY <1>4 DEF Living
  <2>2. w.revival = u.revival
    BY <1>5, <1>8 DEF SameMail
  <2>3. CASE b = a
    <3>1. u.revival[a] = <<>>
      BY <1>2, <2>1, <2>3 DEF Lives
    <3> QED
      BY <1>5, <1>8, <2>2, <2>3, <3>1 DEF Lives
  <2>4. CASE b # a
    BY <1>6, <1>8, <2>1, <2>2, <2>4 DEF Lives
  <2> QED
    BY <2>3, <2>4
<1>10. Whole(w, {})
  BY <1>8, <1>9 DEF Whole, Living
<1>11. n = Settle(w)
  BY <1>1, <1>7 DEF Gone, WithStatus, SetStatus
<1> QED
  BY <1>10, <1>11, SettleKeeps DEF Good

\* What fits does so whatever happens to the sessions.
Sessions == [Agents -> {"live", "disposed", "none"}]

\* Nothing but Living speaks of sessions.
LEMMA SessionFits ==
  ASSUME NEW R, NEW t, Fit(t, R), NEW T \in Sessions,
         NEW n, n = [t EXCEPT !.session = T]
  PROVE  /\ Fit(n, R) /\ n.session = T /\ SameMail(n, t) /\ n.status = t.status
         /\ n.call = t.call /\ n.waiters = t.waiters /\ n.collector = t.collector
<1>1. t \in Nets /\ Mail(t, R) /\ Calling(t, R) /\ Gathering(t)
  BY DEF Fit
<1>2. /\ n \in Nets /\ n.session = T /\ SameMail(n, t) /\ n.status = t.status
      /\ n.call = t.call /\ n.waiters = t.waiters /\ n.collector = t.collector
  BY <1>1 DEF Nets, SameMail, Sessions
<1>3. Mail(n, R)
  <2>3. \A b \in Agents : t.status[b] = "aborted" => n.status[b] = "aborted"
    BY <1>2
  <2>1. \A i \in Sent(t) : t.sent[i].to \in Agents
    BY <1>1, SentFacts
  <2>2. \A b \in Agents : Got(n, b) = Got(t, b)
    BY <1>2 DEF Got
  <2>4. SameMail(n, t) /\ Mail(t, R)
    BY <1>1, <1>2
  <2> QED
    BY <2>1, <2>2, <2>3, <2>4, MailKept
<1>4. Sent(n) = Sent(t) /\ n.sent = t.sent /\ n.receipt = t.receipt
  BY <1>2 DEF SameMail, Sent
<1>5. ASSUME NEW b \in Agents PROVE CallFits(n, R, b) /\ WaitersFit(n, b)
  BY <1>1, <1>2, <1>4 DEF Calling, CallFits, WaitersFit, Got
<1>6. Gathering(n)
  BY <1>1, <1>2, <1>4 DEF Gathering
<1> QED
  BY <1>2, <1>3, <1>5, <1>6 DEF Fit, Calling

\* The disposal of an idle session begins.
LEMMA BeginParkKeeps ==
  ASSUME NEW t, Good(t), NEW a \in Agents, t.status[a] = "idle",
         NEW n, n = [t EXCEPT !.session[a] = "disposed"]
  PROVE  Good(n)
<1>1. Fit(t, {}) /\ Living(t) /\ Calm(t) /\ Settled(t) /\ t \in Nets
  BY DEF Good, Whole, Fit
<1>2. PICK T : T = [t.session EXCEPT ![a] = "disposed"]
  OBVIOUS
<1>3. /\ T \in Sessions /\ T[a] = "disposed"
      /\ \A b \in Agents : b # a => T[b] = t.session[b]
  BY <1>1, <1>2, NetFields DEF Sessions
<1>9. PICK u : u = [t EXCEPT !.session = T]
  OBVIOUS
<1>4. n = u
  BY <1>1, <1>2, <1>9 DEF Nets
<1>5. /\ Fit(n, {}) /\ n.session = T /\ SameMail(n, t) /\ n.status = t.status
      /\ n.call = t.call /\ n.waiters = t.waiters
  <2>1. T \in Sessions /\ Fit(t, {})
    BY <1>1, <1>3
  <2>2. /\ Fit(u, {}) /\ u.session = T /\ SameMail(u, t) /\ u.status = t.status
        /\ u.call = t.call /\ u.waiters = t.waiters
    BY <1>9, <2>1, SessionFits
  <2> QED
    BY <1>4, <2>2
<1>6. ASSUME NEW b \in Agents PROVE Lives(n, b)
  <2>1. Lives(t, b)
    BY <1>1 DEF Living
  <2>2. n.revival = t.revival
    BY <1>5 DEF SameMail
  <2>3. CASE b = a
    BY <1>3, <1>5, <2>1, <2>2, <2>3 DEF Lives
  <2>4. CASE b # a
    BY <1>3, <1>5, <2>1, <2>2, <2>4 DEF Lives
  <2> QED
    BY <2>3, <2>4
<1>7. Calm(n)
  BY <1>1, <1>5 DEF Calm, Orphaned, HasRunningSender
<1>8. Settled(n)
  <2>1. n.receipt = t.receipt
    BY <1>5 DEF SameMail
  <2> QED
    BY <1>1, <1>5, <2>1 DEF Settled, Got
<1> QED
  BY <1>5, <1>6, <1>7, <1>8 DEF Good, Whole, Living

\* The disposal is over: the agent is parked, without a session.
LEMMA ParkedKeeps ==
  ASSUME NEW t, Good(t), NEW a \in Agents, t.status[a] = "idle",
         NEW n, n = Settle(SetStatus([t EXCEPT !.session[a] = "none"], a, "parked"))
  PROVE  Good(n)
<1>1. Fit(t, {}) /\ Living(t) /\ t \in Nets /\ Calling(t, {})
  BY DEF Good, Whole, Fit
<1>2. PICK T : T = [t.session EXCEPT ![a] = "none"]
  OBVIOUS
<1>3. /\ T \in Sessions /\ T[a] = "none"
      /\ \A b \in Agents : b # a => T[b] = t.session[b]
  BY <1>1, <1>2, NetFields DEF Sessions
<1>4. PICK u : u = [t EXCEPT !.session = T]
  OBVIOUS
<1>5. /\ Fit(u, {}) /\ u.session = T /\ SameMail(u, t) /\ u.status = t.status
      /\ u.call = t.call
  BY <1>1, <1>3, <1>4, SessionFits
<1>6. ASSUME NEW b \in Agents \ {a} PROVE Lives(u, b)
  <2>1. Lives(t, b)
    BY <1>1 DEF Living
  <2> QED
    BY <1>3, <1>5, <2>1 DEF Lives, SameMail
<1>7. u.call[a].kind = "none"
  BY <1>1, <1>5 DEF Calling, CallFits
<1>8. PICK v : v = SetStatus(u, a, "parked")
  OBVIOUS
<1>9. u.status[a] # "aborted" /\ u.session[a] = "none"
  BY <1>3, <1>5
<1>10. Whole(v, {})
  BY <1>5, <1>6, <1>7, <1>8, <1>9, SetStatusKeeps
<1>11. [t EXCEPT !.session[a] = "none"] = u
  BY <1>1, <1>2, <1>4 DEF Nets
<1>12. n = Settle(v)
  BY <1>8, <1>11
<1> QED
  BY <1>10, <1>12, SettleKeeps DEF Good

-----------------------------------------------------------------------------
\* The messages that awaited the revival of agent b are being sent.
Awaited(t, b) == [t EXCEPT !.revival[b] = <<>>]

\* What awaited a revival is being sent again.
LEMMA AwaitedFits ==
  ASSUME NEW t, Whole(t, {}), NEW b \in Agents, NEW R, R = ToSet(t.revival[b]),
         NEW n, n = Awaited(t, b)
  PROVE  /\ Fit(n, R) /\ n.revival[b] = <<>>
         /\ n.status = t.status /\ n.session = t.session /\ n.call = t.call /\ n.waiters = t.waiters
         /\ n.sent = t.sent /\ n.collector = t.collector
         /\ \A c \in Agents : c # b => n.revival[c] = t.revival[c]
         /\ \A i \in R : i \in Sent(t) /\ t.sent[i].to = b
<1>1. t \in Nets /\ Mail(t, {}) /\ Calling(t, {}) /\ Gathering(t)
  BY DEF Whole, Fit
<1>2. PICK V : V = [t.revival EXCEPT ![b] = <<>>]
  OBVIOUS
<1>3. /\ V \in [Agents -> Seq(Ids)] /\ V[b] = <<>> /\ \A c \in Agents : c # b => V[c] = t.revival[c]
  BY <1>1, <1>2, NetFields, NoElements
<1>4. n = [t EXCEPT !.revival = V]
  BY <1>1, <1>2 DEF Awaited, Nets
<1>5. /\ n \in Nets /\ n.revival = V /\ n.receipt = t.receipt /\ n.sent = t.sent
      /\ n.shown = t.shown /\ n.steered = t.steered /\ n.asides = t.asides /\ n.mail = t.mail
      /\ n.due = t.due /\ n.dropped = t.dropped
      /\ n.call = t.call /\ n.waiters = t.waiters /\ n.status = t.status
      /\ n.session = t.session /\ n.collector = t.collector
  BY <1>1, <1>3, <1>4 DEF Nets
<1>6. Sent(n) = Sent(t)
  BY <1>5 DEF Sent
<1>7. ASSUME NEW c \in Agents
      PROVE  /\ Pending(n, c) = Pending(t, c) /\ To(n, c) = To(t, c) /\ Got(n, c) = Got(t, c)
             /\ ToSet(V[c]) \subseteq ToSet(t.revival[c])
  <2>1. ToSet(V[c]) \subseteq ToSet(t.revival[c])
    BY <1>3, NoElements
  <2> QED
    BY <1>5, <1>6, <2>1 DEF Pending, To, Got
<1>8. \A i \in R : i \in Sent(t) /\ t.sent[i].to = b /\ t.receipt[i] = "reviving"
  BY <1>1 DEF Mail, Placed, To
<1>9. Placed(n, R)
  <2>1. ASSUME NEW c \in Agents
        PROVE  /\ \A j \in Pending(n, c) : /\ j \in To(n, c)
                                           /\ n.receipt[j] = "delivered" /\ n.shown[j] = 0
               /\ \A j \in ToSet(n.mail[c]) : /\ j \in To(n, c)
                                              /\ n.receipt[j] = "unseen" /\ n.shown[j] = 0
               /\ \A j \in ToSet(n.revival[c]) : j \in To(n, c) /\ n.receipt[j] = "reviving"
               /\ Got(n, c) # NoId => /\ Got(n, c) \in To(n, c) \ Pending(n, c)
                                      /\ n.receipt[Got(n, c)] = "delivered"
                                      /\ n.shown[Got(n, c)] = 0
    <3>1. PICK p, g, o : p = Pending(t, c) /\ g = Got(t, c) /\ o = To(t, c)
      OBVIOUS
    <3>2. /\ \A j \in p : j \in o /\ t.receipt[j] = "delivered" /\ t.shown[j] = 0
          /\ \A j \in ToSet(t.mail[c]) : j \in o /\ t.receipt[j] = "unseen" /\ t.shown[j] = 0
          /\ \A j \in ToSet(t.revival[c]) : j \in o /\ t.receipt[j] = "reviving"
          /\ g # NoId => g \in o \ p /\ t.receipt[g] = "delivered" /\ t.shown[g] = 0
      BY <1>1, <3>1 DEF Mail, Placed
    <3>3. Pending(n, c) = p /\ Got(n, c) = g /\ To(n, c) = o
      BY <1>7, <3>1
    <3> QED
      BY <1>5, <1>7, <3>2, <3>3
  <2>2. \A j \in Ids : /\ n.shown[j] <= 1
                       /\ n.receipt[j] \in {"none", "reviving", "failed"} => n.shown[j] = 0
    BY <1>1, <1>5 DEF Mail, Placed
  <2> QED
    BY <2>1, <2>2 DEF Placed
<1>10. Single(n)
  <2>1. \A c \in Agents : IsInjective(V[c])
    BY <1>1, <1>3, NoElements DEF Mail, Single
  <2> QED
    BY <1>1, <1>5, <2>1 DEF Mail, Single
<1>11. Counted(n, R)
  <2>1. \A i \in R : i \notin ToSet(n.revival[n.sent[i].to])
    BY <1>3, <1>5, <1>8, NoElements
  <2>2. ASSUME NEW i \in Sent(n), n.receipt[i] = "reviving"
        PROVE  i \in R \cup ToSet(n.revival[n.sent[i].to])
    <3>1. i \in ToSet(t.revival[t.sent[i].to])
      BY <1>1, <1>5, <1>6, <2>2 DEF Mail, Counted
    <3>2. t.sent[i].to \in Agents
      BY <1>1, <1>6, SentFacts
    <3> QED
      BY <1>3, <1>5, <3>1, <3>2
  <2> QED
    BY <1>1, <1>5, <1>6, <1>8, <2>1, <2>2 DEF Mail, Counted
<1>12. Promised(n)
  <2>1. \A j \in Sent(t) : n.sent[j].to \in Agents
    BY <1>1, <1>5, SentFacts
  <2> QED
    BY <1>1, <1>5, <1>6, <1>7, <2>1 DEF Mail, Promised
<1>13. ASSUME NEW c \in Agents PROVE CallFits(n, R, c) /\ WaitersFit(n, c)
  <2>1. CallFits(t, {}, c) /\ WaitersFit(t, c)
    BY <1>1 DEF Calling
  <2>2. n.call[c] = t.call[c] /\ n.status[c] = t.status[c] /\ Got(n, c) = Got(t, c)
    BY <1>5, <1>7
  <2>3. CallFits(n, R, c)
    BY <1>5, <1>6, <2>1, <2>2 DEF CallFits
  <2>4. WaitersFit(n, c)
    BY <1>5, <2>1, <2>2 DEF WaitersFit
  <2> QED
    BY <2>3, <2>4
<1>14. Gathering(n)
  BY <1>1, <1>5, <1>6 DEF Gathering
<1> QED
  BY <1>3, <1>5, <1>8, <1>9, <1>10, <1>11, <1>12, <1>13, <1>14 DEF Fit, Mail, Calling

\* The agent is back, and every message that awaited it is sent.
LEMMA RevivedKeeps ==
  ASSUME NEW t, Good(t), NEW b \in Agents, t.status[b] = "parked", NEW ids, ids = t.revival[b],
         NEW n, n = Settle(SendEach(SetStatus([Awaited(t, b) EXCEPT !.session[b] = "live"], b, "idle"), ids))
  PROVE  Good(n)
<1>1. Whole(t, {}) /\ Living(t) /\ t \in Nets /\ Calling(t, {}) /\ Single(t)
  BY DEF Good, Whole, Fit, Mail
<1>2. PICK R, u : R = ToSet(ids) /\ u = Awaited(t, b)
  OBVIOUS
<1>3. ids \in Seq(Ids) /\ IsInjective(ids)
  BY <1>1, NetFields DEF Single
<1>4. R = ToSet(t.revival[b])
  BY <1>2
<1>5. /\ Fit(u, R) /\ u.revival[b] = <<>>
      /\ u.status = t.status /\ u.session = t.session /\ u.call = t.call /\ u.sent = t.sent
  BY <1>1, <1>2, <1>4, AwaitedFits
<1>6. /\ \A c \in Agents : c # b => u.revival[c] = t.revival[c]
      /\ \A i \in R : t.sent[i].to = b
  BY <1>1, <1>2, <1>4, AwaitedFits
<1>7. PICK T, v : T = [u.session EXCEPT ![b] = "live"] /\ v = [u EXCEPT !.session = T]
  OBVIOUS
<1>8. u \in Nets
  BY <1>5 DEF Fit
<1>9. T \in Sessions /\ T[b] = "live" /\ \A c \in Agents : c # b => T[c] = t.session[c]
  BY <1>5, <1>7, <1>8, NetFields DEF Sessions
<1>10. Fit(v, R) /\ v.session = T /\ SameMail(v, u) /\ v.status = u.status /\ v.call = u.call
  BY <1>5, <1>7, <1>9, SessionFits
<1>11. PICK w : w = SetStatus(v, b, "idle")
  OBVIOUS
<1>12. \A c \in Agents \ {b} : Lives(v, c)
  <2>1. ASSUME NEW c \in Agents, c # b PROVE Lives(v, c)
    <3>1. Lives(t, c)
      BY <1>1 DEF Living
    <3>2. v.revival[c] = t.revival[c] /\ v.status[c] = t.status[c] /\ v.session[c] = t.session[c]
      BY <1>5, <1>6, <1>9, <1>10, <2>1 DEF SameMail
    <3> QED
      BY <3>1, <3>2 DEF Lives
  <2> QED
    BY <2>1
<1>13. /\ v.status[b] = "parked" /\ v.session[b] = "live" /\ v.call[b].kind = "none"
       /\ v.revival[b] = <<>>
  <2>1. t.call[b].kind = "none"
    BY <1>1 DEF Calling, CallFits
  <2> QED
    BY <1>5, <1>9, <1>10, <2>1 DEF SameMail
<1>14. Whole(w, R) /\ SameMail(w, v) /\ (w.call[b] = v.call[b] \/ w.call[b] = NoCall)
  BY <1>10, <1>11, <1>12, <1>13, SetStatusKeeps
<1>15. HeardAll(w, R)
  <2>1. w.call[b].kind = "none" /\ w.sent = t.sent
    BY <1>5, <1>10, <1>13, <1>14, NoCallFacts DEF SameMail
  <2> QED
    BY <1>6, <2>1 DEF HeardAll, Heard
<1>16. PICK x : x = SendEach(w, ids)
  OBVIOUS
<1>17. Whole(x, {})
  BY <1>2, <1>3, <1>14, <1>15, <1>16, SendEachKeeps
<1>18. [u EXCEPT !.session[b] = "live"] = v
  BY <1>7, <1>8 DEF Nets
<1>19. n = Settle(x)
  BY <1>2, <1>11, <1>16, <1>18
<1> QED
  BY <1>17, <1>19, SettleKeeps DEF Good

\* Messages that were being sent, to nobody who is there, have failed.
RefusedAll(t, R) == [t EXCEPT !.receipt = [i \in Ids |-> IF i \in R THEN "failed" ELSE @[i]]]

\* What was being sent has failed.
LEMMA RefusedFits ==
  ASSUME NEW R, NEW t, Fit(t, R), NEW n, n = RefusedAll(t, R)
  PROVE  /\ Fit(n, {}) /\ n.status = t.status /\ n.session = t.session /\ n.waiters = t.waiters
         /\ n.revival = t.revival
<1>1. /\ t \in Nets /\ Mail(t, R) /\ Calling(t, R) /\ Gathering(t)
      /\ t.receipt \in [Ids -> Receipts]
  BY NetFields DEF Fit
<1>2. PICK r : r = [i \in Ids |-> IF i \in R THEN "failed" ELSE t.receipt[i]]
  OBVIOUS
<1>3. /\ r \in [Ids -> Receipts]
      /\ \A i \in Ids : (i \in R => r[i] = "failed") /\ (i \notin R => r[i] = t.receipt[i])
  BY <1>1, <1>2 DEF Receipts
<1>4. n = [t EXCEPT !.receipt = r]
  BY <1>1, <1>2 DEF RefusedAll, Nets
<1>15. t \in Nets /\ r \in [Ids -> Receipts]
  BY <1>1, <1>3
<1>5. /\ n \in Nets /\ n.receipt = r /\ n.sent = t.sent
      /\ n.shown = t.shown /\ n.steered = t.steered /\ n.asides = t.asides /\ n.mail = t.mail
      /\ n.revival = t.revival /\ n.due = t.due /\ n.dropped = t.dropped
      /\ n.call = t.call /\ n.waiters = t.waiters /\ n.status = t.status
      /\ n.session = t.session /\ n.collector = t.collector
  BY <1>4, <1>15 DEF Nets
<1>6. Sent(n) = Sent(t) /\ R \subseteq Sent(t) /\ Sent(t) \subseteq Ids
  BY <1>1, <1>5 DEF Sent, Mail, Counted
<1>7. ASSUME NEW c \in Agents
      PROVE  /\ Pending(n, c) = Pending(t, c) /\ To(n, c) = To(t, c) /\ Got(n, c) = Got(t, c)
  BY <1>5, <1>6 DEF Pending, To, Got
<1>8. ASSUME NEW i \in R
      PROVE  /\ i \in Ids /\ t.shown[i] = 0 /\ t.receipt[i] \in {"none", "reviving"}
             /\ \A a \in Agents : /\ i \notin Pending(t, a) /\ i \notin ToSet(t.mail[a])
                                  /\ i \notin ToSet(t.revival[a]) /\ i # Got(t, a)
  BY <1>1, NowhereYet
<1>9. Placed(n, {})
  <2>1. ASSUME NEW c \in Agents
        PROVE  /\ \A j \in Pending(n, c) : /\ j \in To(n, c)
                                           /\ n.receipt[j] = "delivered" /\ n.shown[j] = 0
               /\ \A j \in ToSet(n.mail[c]) : /\ j \in To(n, c)
                                              /\ n.receipt[j] = "unseen" /\ n.shown[j] = 0
               /\ \A j \in ToSet(n.revival[c]) : j \in To(n, c) /\ n.receipt[j] = "reviving"
               /\ Got(n, c) # NoId => /\ Got(n, c) \in To(n, c) \ Pending(n, c)
                                      /\ n.receipt[Got(n, c)] = "delivered"
                                      /\ n.shown[Got(n, c)] = 0
    <3>1. PICK p, g, o : p = Pending(t, c) /\ g = Got(t, c) /\ o = To(t, c)
      OBVIOUS
    <3>2. /\ \A j \in p : j \in o /\ t.receipt[j] = "delivered" /\ t.shown[j] = 0
          /\ \A j \in ToSet(t.mail[c]) : j \in o /\ t.receipt[j] = "unseen" /\ t.shown[j] = 0
          /\ \A j \in ToSet(t.revival[c]) : j \in o /\ t.receipt[j] = "reviving"
          /\ g # NoId => g \in o \ p /\ t.receipt[g] = "delivered" /\ t.shown[g] = 0
      BY <1>1, <3>1 DEF Mail, Placed
    <3>3. Pending(n, c) = p /\ Got(n, c) = g /\ To(n, c) = o
      BY <1>7, <3>1
    <3>4. \A j \in o : j \in Ids
      BY <1>6, <3>1 DEF To
    <3>5. \A j \in R : j \notin p /\ j \notin ToSet(t.mail[c]) /\ j \notin ToSet(t.revival[c]) /\ j # g
      BY <1>8, <3>1
    <3>6. \A j \in o : j \notin R => n.receipt[j] = t.receipt[j]
      BY <1>3, <1>5, <3>4
    <3>7. g # NoId => g \in o /\ g \notin R
      BY <3>2, <3>5
    <3> QED
      BY <1>5, <3>2, <3>3, <3>5, <3>6, <3>7
  <2>2. ASSUME NEW j \in Ids
        PROVE  /\ n.shown[j] <= 1
               /\ n.receipt[j] \in {"none", "reviving", "failed"} => n.shown[j] = 0
    <3>1. CASE j \in R
      BY <1>1, <1>5, <1>8, <3>1
    <3>2. CASE j \notin R
      BY <1>1, <1>3, <1>5, <3>2 DEF Mail, Placed
    <3> QED
      BY <3>1, <3>2
  <2> QED
    BY <2>1, <2>2 DEF Placed
<1>10. Single(n)
  BY <1>1, <1>5 DEF Mail, Single
<1>11. Counted(n, {})
  <2>1. \A i \in Ids \ Sent(n) : n.receipt[i] = "none"
    BY <1>1, <1>3, <1>5, <1>6 DEF Mail, Counted
  <2>2. ASSUME NEW i \in Sent(n), n.receipt[i] = "reviving"
        PROVE  i \in ToSet(n.revival[n.sent[i].to])
    BY <1>1, <1>3, <1>5, <1>6, <2>2 DEF Mail, Counted
  <2> QED
    BY <1>1, <1>5, <1>6, <2>1, <2>2 DEF Mail, Counted
<1>12. Promised(n)
  <2> SUFFICES ASSUME NEW i \in Sent(n), NEW to, to = n.sent[i].to
               PROVE  /\ n.receipt[i] = "delivered" =>
                           n.shown[i] > 0 \/ i \in Pending(n, to) \/ i = Got(n, to) \/ n.status[to] = "aborted"
                      /\ n.receipt[i] = "unseen" =>
                           n.shown[i] > 0 \/ i \in ToSet(n.mail[to]) \/ i \in n.dropped
    BY DEF Promised
  <2>1. to \in Agents /\ to = t.sent[i].to /\ i \in Ids
    BY <1>1, <1>5, <1>6, SentFacts
  <2>2. /\ t.receipt[i] = "delivered" =>
             t.shown[i] > 0 \/ i \in Pending(t, to) \/ i = Got(t, to) \/ t.status[to] = "aborted"
        /\ t.receipt[i] = "unseen" => t.shown[i] > 0 \/ i \in ToSet(t.mail[to]) \/ i \in t.dropped
    BY <1>1, <1>6, <2>1 DEF Mail, Promised
  <2>3. n.receipt[i] = "failed" \/ n.receipt[i] = t.receipt[i]
    BY <1>3, <1>5, <2>1
  <2> QED
    BY <1>5, <1>7, <2>1, <2>2, <2>3
<1>13. ASSUME NEW c \in Agents PROVE CallFits(n, {}, c) /\ WaitersFit(n, c)
  <2>1. CallFits(t, R, c) /\ WaitersFit(t, c)
    BY <1>1 DEF Calling
  <2>2. n.call[c] = t.call[c] /\ n.status[c] = t.status[c] /\ Got(n, c) = Got(t, c)
    BY <1>5, <1>7
  <2>3. PICK id : id = t.call[c].id
    OBVIOUS
  <2>4. ASSUME t.call[c].kind = "await"
        PROVE  id \in Sent(n) /\ n.receipt[id] # "none" /\ (t.receipt[id] = "delivered" => n.receipt[id] = "delivered")
    <3>1. id \in Sent(t) /\ id \in Ids /\ (t.receipt[id] = "none" => id \in R)
      BY <1>6, <2>1, <2>3, <2>4 DEF CallFits
    <3>2. CASE id \in R
      BY <1>3, <1>5, <1>6, <1>8, <3>1, <3>2
    <3>3. CASE id \notin R
      BY <1>3, <1>5, <1>6, <3>1, <3>3
    <3> QED
      BY <3>2, <3>3
  <2>5. CallFits(n, {}, c)
    BY <2>1, <2>2, <2>3, <2>4 DEF CallFits
  <2>6. WaitersFit(n, c)
    BY <1>5, <2>1, <2>2 DEF WaitersFit
  <2> QED
    BY <2>5, <2>6
<1>14. Gathering(n)
  BY <1>1, <1>5, <1>6 DEF Gathering
<1> QED
  BY <1>5, <1>9, <1>10, <1>11, <1>12, <1>13, <1>14 DEF Fit, Mail, Calling

\* The revival failed, and with it every message that awaited it.
LEMMA RevivalFailsKeeps ==
  ASSUME NEW t, Good(t), NEW b \in Agents, NEW R, R = ToSet(t.revival[b]),
         NEW n, n = Settle(RefusedAll(Awaited(t, b), R))
  PROVE  Good(n)
<1>1. Whole(t, {}) /\ Living(t) /\ Calm(t)
  BY DEF Good, Whole
<1>2. PICK u, v : u = Awaited(t, b) /\ v = RefusedAll(u, R)
  OBVIOUS
<1>3. /\ Fit(u, R) /\ u.revival[b] = <<>>
      /\ u.status = t.status /\ u.session = t.session /\ u.waiters = t.waiters
  BY <1>1, <1>2, AwaitedFits
<1>4. \A c \in Agents : c # b => u.revival[c] = t.revival[c]
  BY <1>1, <1>2, AwaitedFits
<1>5. /\ Fit(v, {}) /\ v.status = u.status /\ v.session = u.session /\ v.waiters = u.waiters
      /\ v.revival = u.revival
  BY <1>2, <1>3, RefusedFits
<1>6. ASSUME NEW c \in Agents PROVE Lives(v, c)
  <2>1. Lives(t, c)
    BY <1>1 DEF Living
  <2>2. v.revival[c] = <<>> \/ v.revival[c] = t.revival[c]
    BY <1>3, <1>4, <1>5
  <2> QED
    BY <1>3, <1>5, <2>1, <2>2 DEF Lives
<1>7. Calm(v)
  BY <1>1, <1>3, <1>5 DEF Calm, Orphaned, HasRunningSender
<1>8. Whole(v, {})
  BY <1>5, <1>6, <1>7 DEF Whole, Living
<1> QED
  BY <1>2, <1>8, SettleKeeps DEF Good

\* No agent runs and no message is sent at first.
LEMMA QuietIsGood == Good(Quiet)
<1>1. PICK n : n = Quiet
  OBVIOUS
<1>2. PICK f, g : f = [a \in Agents |-> <<>>] /\ g = [a \in Agents |-> {}]
  OBVIOUS
<1>3. /\ f \in [Agents -> Seq(Ids)] /\ f \in [Agents -> Seq(Waiters)] /\ g \in [Agents -> SUBSET Ids]
      /\ \A a \in Agents : f[a] = <<>> /\ g[a] = {}
  BY <1>2, NoElements
<1>4. /\ n.sent = <<>> /\ n.due = {} /\ n.dropped = {} /\ n.collector = NoCollector
      /\ n.steered = g /\ n.asides = f /\ n.revival = f /\ n.mail = f /\ n.waiters = f
  BY <1>1, <1>2 DEF Quiet
<1>5. /\ \A a \in Agents : n.status[a] = "idle" /\ n.session[a] = "live" /\ n.call[a] = NoCall
      /\ \A i \in Ids : n.receipt[i] = "none" /\ n.shown[i] = 0
  BY <1>1 DEF Quiet
<1>6. n \in Nets
  <2>1. n.status \in [Agents -> {"idle", "running", "parked", "aborted"}]
    BY <1>1 DEF Quiet
  <2>2. n.session \in [Agents -> {"live", "disposed", "none"}]
    BY <1>1 DEF Quiet
  <2>3. n.call \in [Agents -> Calls]
    BY <1>1, NoCallFacts DEF Quiet
  <2>4. n.receipt \in [Ids -> Receipts] /\ n.shown \in [Ids -> Nat]
    BY <1>1 DEF Quiet, Receipts
  <2>5. NoCollector \in Collectors
    BY NoElements DEF NoCollector, Collectors
  <2>6. <<>> \in Seq(Messages)
    BY NoElements
  <2>7. n = [status |-> n.status, session |-> n.session, steered |-> n.steered,
             asides |-> n.asides, revival |-> n.revival, mail |-> n.mail, waiters |-> n.waiters,
             call |-> n.call, collector |-> n.collector, sent |-> n.sent,
             receipt |-> n.receipt, due |-> n.due, dropped |-> n.dropped, shown |-> n.shown]
    BY <1>1 DEF Quiet
  <2> QED
    BY <1>3, <1>4, <2>1, <2>2, <2>3, <2>4, <2>5, <2>6, <2>7 DEF Nets
<1>7. Sent(n) = {}
  BY <1>4 DEF Sent
<1>8. ASSUME NEW a \in Agents
      PROVE  /\ Pending(n, a) = {} /\ ToSet(n.mail[a]) = {} /\ ToSet(n.revival[a]) = {}
             /\ Got(n, a) = NoId /\ ToSet(n.waiters[a]) = {} /\ n.waiters[a] = <<>>
  BY <1>3, <1>4, <1>5, NoElements, NoCallFacts DEF Pending, Got
<1>9. Placed(n, {})
  BY <1>5, <1>8 DEF Placed
<1>10. Single(n)
  BY <1>3, <1>4, NoElements DEF Single
<1>11. Counted(n, {}) /\ Promised(n)
  BY <1>4, <1>5, <1>7 DEF Counted, Promised
<1>12. ASSUME NEW a \in Agents PROVE CallFits(n, {}, a) /\ WaitersFit(n, a)
  <2>1. CallFits(n, {}, a)
    BY <1>5, <1>8, NoCallFacts DEF CallFits
  <2>2. OneTool(<<>>)
    BY DEF OneTool
  <2> QED
    BY <1>8, <2>1, <2>2 DEF WaitersFit
<1>13. Gathering(n)
  BY <1>4 DEF Gathering, NoCollector
<1>14. Living(n)
  BY <1>3, <1>4, <1>5 DEF Living, Lives
<1>15. Calm(n)
  <2>1. \A a \in Agents : DOMAIN n.waiters[a] = {}
    BY <1>8
  <2> QED
    BY <2>1 DEF Calm, Orphaned
<1>16. Settled(n)
  BY <1>5, <1>8, NoCallFacts DEF Settled
<1> QED
  BY <1>1, <1>6, <1>9, <1>10, <1>11, <1>12, <1>13, <1>14, <1>15, <1>16
     DEF Good, Whole, Fit, Mail, Calling

-----------------------------------------------------------------------------
\* The steps of a turn keep the invariant.
LEMMA TurnInv ==
  ASSUME Good(net), NEW a \in Agents, Turn(a)
  PROVE  Good(net')
<1>1. CASE Prompt(a)
  BY <1>1, PromptKeeps DEF Prompt
<1>2. CASE StepBoundary(a)
  BY <1>2, StepBoundaryKeeps DEF StepBoundary
<1>3. CASE TurnEnds(a)
  BY <1>3, TurnEndsKeeps DEF TurnEnds, Streaming, IsFree
<1> QED
  BY <1>1, <1>2, <1>3 DEF Turn

\* The two ways to send to one peer keep it.
LEMMA SendingInv ==
  ASSUME Good(net), NEW a \in Agents, NEW b \in Agents \ {a}, SendTo(a, b) \/ SendAndAwait(a, b)
  PROVE  Good(net')
<1>0. net \in Nets /\ DOMAIN net.sent \subseteq Nat
  <2>1. net \in Nets
    BY DEF Good, Whole, Fit
  <2>2. net.sent \in Seq(Messages)
    BY <2>1, NetFields
  <2> QED
    BY <2>1, <2>2
<1>1. CASE SendTo(a, b)
  <2>1. PICK re \in Answerable(a, b) : net' = Settle(SendAll(net, a, <<b>>, re, FALSE))
    BY <1>1 DEF SendTo
  <2>2. re \in Nat
    BY <1>0, <2>1 DEF Answerable, NoId
  <2>3. net.status[a] = "running" /\ Len(net.sent) + 1 <= MaxMessages
    BY <1>1 DEF SendTo, Streaming, HasRoomFor
  <2> QED
    BY <2>1, <2>2, <2>3, SendToKeeps
<1>2. CASE SendAndAwait(a, b)
  <2>1. PICK l, w, c : /\ l = Len(net.sent)
                       /\ w = [from |-> b, guarded |-> FALSE, owner |-> "tool"]
                       /\ c = [kind |-> "await", id |-> l + 1, open |-> TRUE, got |-> NoId]
    OBVIOUS
  <2>2. /\ net.status[a] = "running" /\ net.call[a].kind = "none" /\ l + 1 <= MaxMessages
        /\ net' = Settle(SendAll(Blocked(net, a, w, c), a, <<b>>, NoId, TRUE))
    BY <1>2, <2>1 DEF SendAndAwait, Streaming, IsFree, HasRoomFor, Blocked
  <2>3. PICK yes \in BOOLEAN : net' = Settle(SendAll(Blocked(net, a, w, c), a, <<b>>, NoId, yes))
    BY <2>2, Zenon
  <2> QED
    BY <2>1, <2>2, <2>3, SendAndAwaitKeeps, ZenonT(60)
<1> QED
  BY <1>1, <1>2

\* So does a broadcast,
LEMMA BroadcastInv ==
  ASSUME Good(net), NEW a \in Agents, Broadcast(a)
  PROVE  Good(net')
<1>1. PICK G : G = {b \in Agents \ {a} : net.status[b] \in {"running", "idle"}}
  OBVIOUS
<1>2. G \in SUBSET Agents
  BY <1>1
<1>3. /\ net.status[a] = "running" /\ Len(net.sent) + Cardinality(G) <= MaxMessages
      /\ net' = Settle(SendAll(net, a, SetToSeq(G), NoId, FALSE))
  BY <1>1 DEF Broadcast, Streaming, HasRoomFor
<1> QED
  BY <1>2, <1>3, BroadcastKeeps

\* and an irc `wait`, wherever it finds its message,
LEMMA WaitInv ==
  ASSUME Good(net), NEW a \in Agents, NEW from \in {None} \cup (Agents \ {a}), Wait(a, from)
  PROVE  Good(net')
<1>1. PICK k, j : k = FirstFrom(net, net.asides[a], from) /\ j = FirstFrom(net, net.mail[a], from)
  OBVIOUS
<1>2. PICK w, c : /\ w = [from |-> from, guarded |-> TRUE, owner |-> "tool"]
                  /\ c = [NoCall EXCEPT !.kind = "wait", !.open = TRUE]
  OBVIOUS
<1>3. /\ net.status[a] = "running" /\ net.call[a].kind = "none"
      /\ net' = IF k # 0
                THEN Show([net EXCEPT !.asides[a] = RemoveAt(@, k)], {net.asides[a][k]})
                ELSE IF j # 0
                THEN Show([net EXCEPT !.mail[a] = RemoveAt(@, j)], {net.mail[a][j]})
                ELSE AbortOrphans(Blocked(net, a, w, c))
  BY <1>1, <1>2 DEF Wait, Streaming, IsFree, Blocked
<1>4. CASE k # 0
  BY <1>1, <1>3, <1>4, WaitTakesAside
<1>5. CASE k = 0 /\ j # 0
  BY <1>1, <1>3, <1>5, WaitTakesMail
<1>6. CASE k = 0 /\ j = 0
  BY <1>2, <1>3, <1>6, WaitRegisters
<1> QED
  BY <1>4, <1>5, <1>6

\* hence every tool call.
LEMMA ToolInv ==
  ASSUME Good(net), NEW a \in Agents, Tool(a)
  PROVE  Good(net')
<1>1. ASSUME NEW peek \in BOOLEAN, Inbox(a, peek) PROVE Good(net')
  <2>1. CASE peek
    BY <1>1, <2>1, PeekKeeps DEF Inbox
  <2>2. CASE ~peek
    BY <1>1, <2>2, DrainKeeps DEF Inbox
  <2> QED
    BY <2>1, <2>2
<1>2. CASE WaitTimesOut(a)
  BY <1>2, WaitEndsKeeps DEF WaitTimesOut
<1>3. CASE Interrupt(a)
  BY <1>3, WaitEndsKeeps DEF Interrupt
<1> QED
  BY <1>1, <1>2, <1>3, SendingInv, BroadcastInv, WaitInv DEF Tool

\* Parking, reviving and aborting an agent keep the invariant.
LEMMA LifecycleInv ==
  ASSUME Good(net), NEW a \in Agents, Lifecycle(a)
  PROVE  Good(net')
<1>1. CASE BeginPark(a)
  BY <1>1, BeginParkKeeps DEF BeginPark
<1>2. CASE Parked(a)
  BY <1>2, ParkedKeeps DEF Parked
<1>3. CASE HardAbort(a)
  <2>1. net.status[a] \notin {"parked", "aborted"}
    BY <1>3 DEF HardAbort
  <2> QED
    BY <1>3, <2>1, HardAbortKeeps DEF HardAbort
<1>4. ASSUME NEW revived \in BOOLEAN, Revival(a, revived) PROVE Good(net')
  <2>1. PICK ids, R, n : ids = net.revival[a] /\ R = ToSet(ids) /\ n = Awaited(net, a)
    OBVIOUS
  <2>2. net.status[a] = "parked"
    BY <1>4 DEF Revival
  <2>3. CASE revived
    <3>1. net' = Settle(SendEach(SetStatus([n EXCEPT !.session[a] = "live"], a, "idle"), ids))
      BY <1>4, <2>1, <2>3 DEF Revival, Awaited
    <3> QED
      BY <2>1, <2>2, <3>1, RevivedKeeps
  <2>4. CASE ~revived
    <3>1. net' = Settle(RefusedAll(n, R))
      BY <1>4, <2>1, <2>4 DEF Revival, Awaited, RefusedAll
    <3> QED
      BY <2>1, <3>1, RevivalFailsKeeps
  <2> QED
    BY <2>3, <2>4
<1> QED
  BY <1>1, <1>2, <1>3, <1>4 DEF Lifecycle

\* A question to a group keeps it.
LEMMA GroupInv ==
  ASSUME Good(net), NEW a \in Agents, NEW group \in SUBSET Agents, Collect(a, group)
  PROVE  Good(net')
<1>1. PICK l, c : /\ l = Len(net.sent)
                  /\ c = [phase |-> "sending", for |-> a,
                          asked |-> [k \in 1..Cardinality(group) |-> l + k], got |-> {}]
  OBVIOUS
<1>2. /\ net.status[a] # "parked" /\ l + Cardinality(group) <= MaxMessages
      /\ net' = Settle(SendAll(Asking(net, c), a, SetToSeq(group), NoId, TRUE))
  BY <1>1 DEF Collect, HasRoomFor, Asking
<1>3. PICK yes \in BOOLEAN :
        net' = Settle(SendAll(Asking(net, c), a, SetToSeq(group), NoId, yes))
  BY <1>2, Zenon
<1> QED
  BY <1>1, <1>2, <1>3, CollectKeeps

\* Every step keeps the invariant.
LEMMA NextInv ==
  ASSUME Good(net), [Next]_vars
  PROVE  Good(net')
<1>1. ASSUME NEW i \in Ids, AutoReply(i) PROVE Good(net')
  <2>1. PICK u : u = [net EXCEPT !.due = @ \ {i}]
    OBVIOUS
  <2>2. /\ i \in net.due
        /\ \/ net' = u
           \/ /\ net.session[net.sent[i].to] = "live" /\ Len(net.sent) + 1 <= MaxMessages
              /\ net' = Settle(SendAll(u, net.sent[i].to, <<net.sent[i].from>>, i, FALSE))
    BY <1>1, <2>1 DEF AutoReply, HasRoomFor
  <2> QED
    BY <2>1, <2>2, AutoReplyKeeps
<1>2. CASE CollectorTimesOut
  <2>1. PICK a : a = net.collector.for
    OBVIOUS
  <2>2. PICK k \in DOMAIN net.waiters[a] : /\ net.waiters[a][k].owner = "collector"
                                           /\ net' = Settle(RemoveWaiter(net, a, k))
    BY <1>2, <2>1 DEF CollectorTimesOut
  <2>3. a \in Agents
    BY <1>2, <2>1 DEF CollectorTimesOut, Good, Whole, Fit, Gathering
  <2> QED
    BY <2>2, <2>3, CollectorTimesOutKeeps
<1>3. CASE UNCHANGED vars
  BY <1>3 DEF vars
<1> QED
  BY <1>1, <1>2, <1>3, TurnInv, ToolInv, LifecycleInv, GroupInv DEF Next

-----------------------------------------------------------------------------
\* The inductive invariant: between two steps of the bus (irc/bus.ts) and the sessions a
\* receipt says where its message is, a tool call has one waiter at most, and no reply
\* is on its way between the two.
THEOREM MessagingInvariant == Spec => []IInv
<1>1. Init => IInv
  BY QuietIsGood DEF Init, IInv, Good
<1>2. IInv /\ [Next]_vars => IInv'
  BY NextInv DEF IInv, Good
<1> QED
  BY <1>1, <1>2, PTL DEF Spec

\* A message whose sender was told that it was delivered is shown to its recipient, or
\* still in a queue of it (irc/bus.ts, deliverIrcMessage of session/agent/agent-session.ts),
\* unless the recipient was hard-aborted; one that failed for a disposed session waits
\* in the mailbox until it is read or pushed out.
THEOREM NothingLostHolds == Spec => []NothingLost
<1>1. IInv => NothingLost
  <2> SUFFICES ASSUME IInv, NEW i \in DOMAIN net.sent
               PROVE  LET to == net.sent[i].to IN
                      /\ net.receipt[i] = "delivered" =>
                           net.shown[i] > 0 \/ Held(to, i) \/ net.status[to] = "aborted"
                      /\ net.receipt[i] = "unseen" => net.shown[i] > 0 \/ Held(to, i) \/ i \in net.dropped
    BY DEF NothingLost
  <2>1. net.sent \in Seq(Messages)
    BY NetFields DEF IInv, Whole, Fit
  <2>2. i \in Sent(net)
    BY <2>1 DEF Sent
  <2>3. Promised(net)
    BY DEF IInv, Whole, Fit, Mail
  <2> QED
    BY <2>2, <2>3 DEF Promised, Held, Got
<1> QED
  BY <1>1, MessagingInvariant, PTL

\* No message gets into the context of its recipient twice, whichever of the paths - a
\* wait, a step boundary, the inbox, a wake-up, a stranded queue - takes it there, and
\* none stays in a queue once it is shown.
THEOREM ShownOnceHolds == Spec => []ShownOnce
<1>1. IInv => ShownOnce
  <2> SUFFICES ASSUME IInv, NEW i \in DOMAIN net.sent, NEW to, to = net.sent[i].to
               PROVE  net.shown[i] <= 1 /\ (net.shown[i] = 1 => ~Held(to, i))
    BY DEF ShownOnce
  <2>1. net \in Nets /\ Placed(net, {}) /\ Counted(net, {})
    BY DEF IInv, Whole, Fit, Mail
  <2>2. net.sent \in Seq(Messages)
    BY <2>1, NetFields
  <2>3. i \in Sent(net) /\ i \in Ids
    BY <2>1, <2>2 DEF Sent, Counted
  <2>4. to \in Agents
    BY <2>1, <2>3, SentFacts
  <2>5. i # NoId
    BY <2>3, Numbers
  <2>6. Held(to, i) => net.shown[i] = 0
    BY <2>1, <2>4, <2>5 DEF Held, Placed, Got
  <2>7. net.shown[i] <= 1
    BY <2>1, <2>3 DEF Placed
  <2> QED
    BY <2>6, <2>7
<1> QED
  BY <1>1, MessagingInvariant, PTL

\* No irc `wait` outlives the last running agent it could hear from: the listener it
\* registers with the agent registry ends it (IrcBus.wait).
THEOREM NobodyWaitsInVainHolds == Spec => []NobodyWaitsInVain
<1>1. IInv => NobodyWaitsInVain
  BY DEF IInv, Whole, Calm, NobodyWaitsInVain
<1> QED
  BY <1>1, MessagingInvariant, PTL
===============================================================================
