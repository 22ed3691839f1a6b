------------------------------- MODULE IrcBus -------------------------------
(***************************************************************************)
(* IrcBus (irc/bus.ts) with the two things it calls: the agent registry    *)
(* (status, session, change listeners) and AgentSession.deliverIrcMessage. *)
(* `net` is the record of all of them; one operator per method.            *)
(*                                                                         *)
(* A message is a number; sent[i] says who sent it to whom and which       *)
(* message it answers.  The labels of a receipt (injected, woken, revived) *)
(* are one value, "delivered": no caller tells them apart.  "unseen" is a   *)
(* failed receipt whose message went to the mailbox.                       *)
(***************************************************************************)
EXTENDS Naturals, FiniteSets, SequencesExt

CONSTANTS Agents,       \* agents known to the registry
          None,         \* no agent: a waiter without a from-filter
          Parent,       \* the agent that spawned an agent, or None
          MaxMessages,  \* bound on the messages ever sent
          MailboxCap,   \* MAILBOX_CAP, 100 in the code
          AsyncEnabled  \* the setting async.enabled

ASSUME BusAssumption ==
  /\ IsFiniteSet(Agents) /\ None \notin Agents
  /\ Parent \in [Agents -> Agents \cup {None}]
  /\ MaxMessages \in Nat /\ MailboxCap \in Nat \ {0}
  /\ AsyncEnabled \in BOOLEAN

Ids == 1..MaxMessages
NoId == 0

\* call: the irc tool call an agent is blocked in; open says that its wait
\* has not settled, got is the message the wait of a `send await` has taken.
NoCall == [kind |-> "none", id |-> NoId, open |-> FALSE, got |-> NoId]
\* collector: collectResponses; asked are the messages of its group send.
NoCollector == [phase |-> "off", for |-> None, asked |-> <<>>, got |-> {}]

Quiet == [status    |-> [a \in Agents |-> "idle"],
          session   |-> [a \in Agents |-> "live"],
          steered   |-> [a \in Agents |-> {}],
          asides    |-> [a \in Agents |-> <<>>],
          revival   |-> [a \in Agents |-> <<>>],
          mail      |-> [a \in Agents |-> <<>>],
          waiters   |-> [a \in Agents |-> <<>>],
          call      |-> [a \in Agents |-> NoCall],
          collector |-> NoCollector,
          sent      |-> <<>>,
          receipt   |-> [i \in Ids |-> "none"],
          due       |-> {},
          dropped   |-> {},
          shown     |-> [i \in Ids |-> 0]]

Show(net, ids) == [net EXCEPT !.shown = [i \in Ids |-> IF i \in ids THEN @[i] + 1 ELSE @[i]]]
Receive(net, i, outcome) == [net EXCEPT !.receipt[i] = outcome]

\* What waits in a session for its next step: steers, and messages of peers in order.
Pending(net, a) == net.steered[a] \cup ToSet(net.asides[a])
Flushed(net, a) == [net EXCEPT !.steered[a] = {}, !.asides[a] = <<>>]

-----------------------------------------------------------------------------
\* AgentRegistry.setStatus, whose listeners run at once: an irc `wait` ends
\* when no visible peer it could hear from is running any more.
HasRunningSender(net, a, from) ==
  \E b \in Agents \ {a} : net.status[b] = "running" /\ from \in {None, b}

Orphaned(net, a) ==
  \E k \in DOMAIN net.waiters[a] : /\ net.waiters[a][k].guarded
                                   /\ ~HasRunningSender(net, a, net.waiters[a][k].from)

\* #removeWaiter: the wait of an agent's tool call, of which there is one at most.
Withdraw(ws) ==
  LET k == SelectInSeq(ws, LAMBDA w : w.owner = "tool")
  IN  IF k = 0 THEN ws ELSE RemoveAt(ws, k)

\* Faulty: a wait looks at its peers only when it starts.
AbortOrphansNever(net) == net

AbortOrphans(net) ==
  [net EXCEPT
     !.waiters = [a \in Agents |-> IF Orphaned(net, a) THEN Withdraw(@[a]) ELSE @[a]],
     !.call    = [a \in Agents |-> IF Orphaned(net, a) THEN NoCall ELSE @[a]]]

SetStatus(net, a, status) == AbortOrphans([net EXCEPT !.status[a] = status])

-----------------------------------------------------------------------------
\* #enqueue: a mailbox over its cap loses its oldest message.
Enqueue(net, i) ==
  LET to == net.sent[i].to
      box == Append(net.mail[to], i)
  IN  IF Len(box) <= MailboxCap
      THEN [net EXCEPT !.mail[to] = box]
      ELSE [net EXCEPT !.mail[to] = Tail(box), !.dropped = @ \cup {Head(box)}]

\* The first message of a queue that a from-filter accepts, or 0.
FirstFrom(net, queue, from) ==
  SelectInSeq(queue, LAMBDA i : from \in {None, net.sent[i].from})

\* #takeMatchingWaiter: the oldest waiter that accepts the sender.
MatchingWaiter(net, i) ==
  SelectInSeq(net.waiters[net.sent[i].to], LAMBDA w : w.from \in {None, net.sent[i].from})

RemoveWaiter(net, a, k) == [net EXCEPT !.waiters[a] = RemoveAt(@, k)]

\* waiter.resolve: the waiter is removed, and whoever waits has the message.
Resolve(net, k, i) ==
  LET to == net.sent[i].to
      n  == RemoveWaiter(net, to, k)
  IN  IF net.waiters[to][k].owner = "collector"
      THEN Show([n EXCEPT !.collector.got = @ \cup {i}], {i})
      ELSE IF net.call[to].kind = "wait" THEN Show([n EXCEPT !.call[to] = NoCall], {i})
           ELSE [n EXCEPT !.call[to] = [@ EXCEPT !.open = FALSE, !.got = i]]

-----------------------------------------------------------------------------
\* #wakeForIrc: a turn that starts with the records.
Wake(net, a, ids) == Show(SetStatus(net, a, "running"), ids)

\* Faulty: a disposed session loses the message.
DeliverUnbuffered(net, i) ==
  IF net.session[net.sent[i].to] = "disposed" THEN Receive(net, i, "unseen")
  ELSE Receive([net EXCEPT !.asides[net.sent[i].to] = Append(@, i)], i, "delivered")

\* deliverIrcMessage: a busy session keeps the record for its next step (a
\* parent's message is steered) and may owe an auto-reply; an idle one wakes.
DeliverToSession(net, i) ==
  LET m == net.sent[i]
      due == IF m.awaited /\ ~AsyncEnabled THEN {i} ELSE {}
  IN  IF net.session[m.to] = "disposed" THEN Receive(Enqueue(net, i), i, "unseen")
      ELSE IF net.status[m.to] # "running" THEN Receive(Wake(net, m.to, {i}), i, "delivered")
      ELSE IF m.from = Parent[m.to]
      THEN Receive([net EXCEPT !.steered[m.to] = @ \cup {i}, !.due = @ \cup due], i, "delivered")
      ELSE Receive([net EXCEPT !.asides[m.to] = Append(@, i), !.due = @ \cup due], i, "delivered")

\* send, from where the recipient is not parked: a waiter, then the session.
Deliver(net, i) ==
  LET to == net.sent[i].to
      k  == MatchingWaiter(net, i)
  IN  IF k # 0 THEN Receive(Resolve(net, k, i), i, "delivered")
      ELSE IF net.session[to] = "none" THEN Receive(net, i, "failed")
      ELSE DeliverToSession(net, i)

\* send, to a parked agent: it is revived first.
AwaitRevival(net, i) ==
  [Receive(net, i, "reviving") EXCEPT !.revival[net.sent[i].to] = Append(@, i)]

\* send: an aborted agent is refused.
Send(net, i) ==
  LET to == net.sent[i].to IN
  CASE net.status[to] = "aborted" -> Receive(net, i, "failed")
    [] net.status[to] = "parked"  -> AwaitRevival(net, i)
    [] OTHER                      -> Deliver(net, i)

\* One message after the other.
SendEach(net, ids) ==
  LET after[k \in 0..Len(ids)] == IF k = 0 THEN net ELSE Send(after[k - 1], ids[k])
  IN  after[Len(ids)]

\* New messages, numbered in the order of the targets, all sent at once.
Numbered(net, from, targets, re, awaited) ==
  [net EXCEPT !.sent = @ \o [k \in 1..Len(targets) |->
                                [from |-> from, to |-> targets[k], re |-> re, awaited |-> awaited]]]
SendAll(net, from, targets, re, awaited) ==
  SendEach(Numbered(net, from, targets, re, awaited),
           [k \in 1..Len(targets) |-> Len(net.sent) + k])

-----------------------------------------------------------------------------
\* Faulty: a failed send waits for its reply like any other and reports nothing.
ConcludeDelivered(net) ==
  LET Done(a) == /\ net.call[a].kind = "await" /\ ~net.call[a].open
                 /\ net.receipt[net.call[a].id] = "delivered"
  IN  Show([net EXCEPT !.call = [a \in Agents |-> IF Done(a) THEN NoCall ELSE @[a]]],
           {net.call[a].got : a \in {b \in Agents : Done(b)}} \ {NoId})

\* The end of a `send await`: a failed send gives up the wait, a reply is
\* returned together with the receipt.
Conclude(net) ==
  LET Sent(a)   == net.call[a].kind = "await" /\ net.receipt[net.call[a].id] # "reviving"
      Failed(a) == Sent(a) /\ net.receipt[net.call[a].id] \in {"failed", "unseen"}
      Done(a)   == Failed(a) \/ (Sent(a) /\ ~net.call[a].open)
      Answers   == {net.call[a].got : a \in {b \in Agents : Done(b) /\ ~Failed(b)}} \ {NoId}
  IN  Show([net EXCEPT
              !.waiters = [a \in Agents |-> IF Failed(a) THEN Withdraw(@[a]) ELSE @[a]],
              !.call    = [a \in Agents |-> IF Done(a) THEN NoCall ELSE @[a]]],
           Answers)

\* collectResponses, once every send of the group has its receipt: one waiter
\* per agent asked, for what is still to come.
Listen(net) ==
  LET c == net.collector
      ws == [k \in 1..Len(c.asked) |-> [from |-> net.sent[c.asked[k]].to, guarded |-> FALSE,
                                        owner |-> "collector"]]
  IN  IF c.phase = "sending" /\ \A k \in 1..Len(c.asked) : net.receipt[c.asked[k]] # "reviving"
      THEN [net EXCEPT !.waiters[c.for] = @ \o ws, !.collector.phase = "listening"]
      ELSE net

\* collectResponses returns when all its waiters have settled.
Collected(net) ==
  LET c == net.collector IN
  IF c.phase = "listening" /\ \A w \in ToSet(net.waiters[c.for]) : w.owner # "collector"
  THEN [net EXCEPT !.collector = NoCollector] ELSE net

\* What follows a step in its microtasks.
Settle(net) == Collected(Listen(Conclude(net)))
=============================================================================
