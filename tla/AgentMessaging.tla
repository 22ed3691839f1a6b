--------------------------- MODULE AgentMessaging ---------------------------
(***************************************************************************)
(* Agents that talk over the bus: their turns, the irc tool (tools/irc.ts) *)
(* in a turn, group questions (collectResponses), and the lifecycle of the *)
(* recipients: parked, revived by a message, hard-aborted.                 *)
(*                                                                         *)
(* A turn may run several tools at once, so an agent can send while it is  *)
(* blocked in a wait; it is blocked in one wait at a time.                 *)
(***************************************************************************)
EXTENDS IrcBus

CONSTANTS Parkable,     \* agents that may be parked when idle
          MaxParks      \* bound on the parks in a behaviour

ASSUME ParkableAssumption == Parkable \subseteq Agents /\ MaxParks \in Nat

VARIABLES net, parks
vars == <<net, parks>>

Init == net = Quiet /\ parks = 0

Streaming(a) == net.status[a] = "running"
IsFree(a) == net.call[a].kind = "none"
HasRoomFor(n) == Len(net.sent) + n <= MaxMessages
\* A send that awaits the revival of its recipient keeps its tool call open.
IsSending(a) == \E b \in Agents : \E k \in DOMAIN net.revival[b] :
                  net.sent[net.revival[b][k]].from = a

\* What the agent may say it answers: a message it has been shown.
Answerable(a, b) == {NoId} \cup {i \in DOMAIN net.sent : /\ net.sent[i].to = a
                                                         /\ net.sent[i].from = b
                                                         /\ net.shown[i] > 0}
-----------------------------------------------------------------------------
\* A prompt from the host: records left in the queues are flushed first.
Prompt(a) ==
  /\ net.status[a] = "idle" /\ net.session[a] = "live"
  /\ net' = Settle(Wake(Flushed(net, a), a, Pending(net, a)))
  /\ UNCHANGED parks

\* The aside poll between two model calls, when the batch of tools is done.
StepBoundary(a) ==
  /\ Streaming(a) /\ IsFree(a) /\ ~IsSending(a)
  /\ Pending(net, a) # {}
  /\ net' = Show(Flushed(net, a), Pending(net, a))
  /\ UNCHANGED parks

\* Faulty: what arrived after the last poll waits for the next prompt.
TurnEndsDeaf(a) ==
  /\ Streaming(a) /\ IsFree(a) /\ ~IsSending(a)
  /\ net' = Settle(SetStatus(net, a, "idle"))
  /\ UNCHANGED parks

\* #endInFlight: the turn is over; what arrived after its last poll wakes the
\* next one (#drainStrandedQueuedMessages, #resumeStrandedIrcAsides).
TurnEnds(a) ==
  /\ Streaming(a) /\ IsFree(a) /\ ~IsSending(a)
  /\ LET idle == SetStatus(net, a, "idle") IN
     net' = Settle(IF Pending(net, a) = {} THEN idle
                   ELSE Wake(Flushed(idle, a), a, Pending(net, a)))
  /\ UNCHANGED parks

-----------------------------------------------------------------------------
\* irc send, to one peer or to all that are running or idle.
SendTo(a, b) ==
  /\ Streaming(a) /\ HasRoomFor(1)
  /\ \E re \in Answerable(a, b) : net' = Settle(SendAll(net, a, <<b>>, re, FALSE))
  /\ UNCHANGED parks

Broadcast(a) ==
  LET peers == {b \in Agents \ {a} : net.status[b] \in {"running", "idle"}} IN
  /\ Streaming(a) /\ HasRoomFor(Cardinality(peers))
  /\ net' = Settle(SendAll(net, a, SetToSeq(peers), NoId, FALSE))
  /\ UNCHANGED parks

\* irc send await: the waiter is there before the message leaves.
SendAndAwait(a, b) ==
  LET id == Len(net.sent) + 1
      waiting == [net EXCEPT
                    !.waiters[a] = Append(@, [from |-> b, guarded |-> FALSE, owner |-> "tool"]),
                    !.call[a] = [kind |-> "await", id |-> id, open |-> TRUE, got |-> NoId]]
  IN  /\ Streaming(a) /\ IsFree(a) /\ HasRoomFor(1)
      /\ net' = Settle(SendAll(waiting, a, <<b>>, NoId, TRUE))
      /\ UNCHANGED parks

\* #runIrcAutoReply: a side channel answers for a session that is busy.
AutoReply(i) ==
  LET m == net.sent[i] IN
  /\ i \in net.due
  /\ net' = IF net.session[m.to] = "live" /\ HasRoomFor(1)
            THEN Settle(SendAll([net EXCEPT !.due = @ \ {i}], m.to, <<m.from>>, i, FALSE))
            ELSE [net EXCEPT !.due = @ \ {i}]
  /\ UNCHANGED parks

\* Faulty: what the session holds is shown and left in its queue.
WaitPeeks(a, from) ==
  LET k == FirstFrom(net, net.asides[a], from) IN
  /\ Streaming(a) /\ IsFree(a) /\ k # 0
  /\ net' = Show(net, {net.asides[a][k]})
  /\ UNCHANGED parks

\* irc wait: session first (not the steers), then mailbox, then a waiter with a
\* liveness check.
Wait(a, from) ==
  LET k == FirstFrom(net, net.asides[a], from)
      j == FirstFrom(net, net.mail[a], from)
  IN  /\ Streaming(a) /\ IsFree(a)
      /\ net' = IF k # 0
                THEN Show([net EXCEPT !.asides[a] = RemoveAt(@, k)], {net.asides[a][k]})
                ELSE IF j # 0
                THEN Show([net EXCEPT !.mail[a] = RemoveAt(@, j)], {net.mail[a][j]})
                ELSE AbortOrphans([net EXCEPT
                       !.waiters[a] = Append(@, [from |-> from, guarded |-> TRUE, owner |-> "tool"]),
                       !.call[a] = [NoCall EXCEPT !.kind = "wait", !.open = TRUE]])
      /\ UNCHANGED parks

\* irc inbox: drains mailbox and asides, a peek only the asides.  What a peek
\* shows of the mailbox is not counted: it is meant to be shown again.
Inbox(a, peek) ==
  /\ Streaming(a)
  /\ net' = IF peek THEN Show([net EXCEPT !.asides[a] = <<>>], ToSet(net.asides[a]))
            ELSE Show([net EXCEPT !.asides[a] = <<>>, !.mail[a] = <<>>],
                      ToSet(net.asides[a]) \cup ToSet(net.mail[a]))
  /\ UNCHANGED parks

\* The wait of a call settles without a message.
GiveUp(n, a) ==
  [n EXCEPT !.waiters[a] = Withdraw(@),
            !.call[a] = IF @.kind = "wait" THEN NoCall ELSE [@ EXCEPT !.open = FALSE]]

WaitTimesOut(a) ==
  /\ net.call[a].open
  /\ net' = Settle(GiveUp(net, a))
  /\ UNCHANGED parks

\* A steer, a peer's message or the user interrupts the batch of tools.
Interrupt(a) ==
  /\ net.call[a].open
  /\ net' = Settle(GiveUp(net, a))
  /\ UNCHANGED parks

-----------------------------------------------------------------------------
\* collectResponses on behalf of an agent (roundtable, vote), whose session
\* the nodes that call it keep live.
Collect(a, group) ==
  LET n == Len(net.sent) IN
  /\ net.status[a] \in {"running", "idle"} /\ net.session[a] = "live"
  /\ net.collector.phase = "off" /\ group # {} /\ HasRoomFor(Cardinality(group))
  /\ net' = Settle(SendAll([net EXCEPT !.collector =
                              [phase |-> "sending", for |-> a,
                               asked |-> [k \in 1..Cardinality(group) |-> n + k], got |-> {}]],
                           a, SetToSeq(group), NoId, TRUE))
  /\ UNCHANGED parks

\* One of its waits times out.
CollectorTimesOut ==
  LET a == net.collector.for IN
  /\ net.collector.phase = "listening"
  /\ \E k \in DOMAIN net.waiters[a] :
       /\ net.waiters[a][k].owner = "collector"
       /\ net' = Settle(RemoveWaiter(net, a, k))
  /\ UNCHANGED parks

-----------------------------------------------------------------------------
\* AgentLifecycleManager: the idle timer, the end of the disposal, a revival
\* shared by everybody who sends, and a hard abort.
BeginPark(a) ==
  /\ a \in Parkable /\ parks < MaxParks
  /\ net.status[a] = "idle" /\ net.session[a] = "live"
  /\ parks' = parks + 1
  /\ net' = [net EXCEPT !.session[a] = "disposed"]

Parked(a) ==
  /\ net.status[a] = "idle" /\ net.session[a] = "disposed"
  /\ net' = Settle(SetStatus([net EXCEPT !.session[a] = "none"], a, "parked"))
  /\ UNCHANGED parks

\* ensureLive answers: every send that awaited it goes on, in order, or fails.
Revival(b, revived) ==
  LET ids == net.revival[b]
      n == [net EXCEPT !.revival[b] = <<>>]
      Refused(i) == i \in ToSet(ids)
  IN  /\ net.status[b] = "parked" /\ ids # <<>>
      /\ net' = Settle(IF revived
                       THEN SendEach(SetStatus([n EXCEPT !.session[b] = "live"], b, "idle"), ids)
                       ELSE [n EXCEPT !.receipt = [i \in Ids |-> IF Refused(i) THEN "failed" ELSE @[i]]])
      /\ UNCHANGED parks

HardAbort(a) ==
  /\ net.status[a] \in {"running", "idle"} /\ net.session[a] = "live"
  /\ net' = Settle(SetStatus([Flushed(GiveUp(net, a), a) EXCEPT !.session[a] = "none",
                                                               !.call[a] = NoCall], a, "aborted"))
  /\ UNCHANGED parks

-----------------------------------------------------------------------------
Turn(a) == Prompt(a) \/ StepBoundary(a) \/ TurnEnds(a)
Tool(a) == \/ \E b \in Agents \ {a} : SendTo(a, b) \/ SendAndAwait(a, b)
           \/ \E from \in {None} \cup (Agents \ {a}) : Wait(a, from)
           \/ \E peek \in BOOLEAN : Inbox(a, peek)
           \/ Broadcast(a) \/ WaitTimesOut(a) \/ Interrupt(a)
Lifecycle(a) == \/ BeginPark(a) \/ Parked(a) \/ HardAbort(a)
                \/ \E revived \in BOOLEAN : Revival(a, revived)

Next == \/ \E a \in Agents : Turn(a) \/ Tool(a) \/ Lifecycle(a)
        \/ \E i \in Ids : AutoReply(i)
        \/ \E a \in Agents, group \in SUBSET Agents : Collect(a, group)
        \/ CollectorTimesOut

Spec == Init /\ [][Next]_vars

\* Timers fire and lifecycle work ends (an agent has one of the three to do at
\* a time).  Between two batches of tools there is always a step boundary, so a
\* turn comes to it again and again.
FairSpec ==
  /\ Spec
  /\ \A a \in Agents :
       /\ SF_vars(StepBoundary(a))
       /\ WF_vars(WaitTimesOut(a) \/ Parked(a) \/ \E revived \in BOOLEAN : Revival(a, revived))
  /\ WF_vars(CollectorTimesOut)

-----------------------------------------------------------------------------
\* Where a message to agent a can be.
Held(a, i) == \/ i \in Pending(net, a) \cup ToSet(net.mail[a])
              \/ i = net.call[a].got

\* A message whose sender was told that it was delivered has been shown to its
\* recipient once, or is still on its way into its context, unless the
\* recipient was hard-aborted with it; one that failed for a disposed session
\* is kept until read or pushed out of a full mailbox (bus.ts:146-159,226-230).
NothingLost ==
  \A i \in DOMAIN net.sent :
    LET to == net.sent[i].to IN
    /\ net.receipt[i] = "delivered" =>
         net.shown[i] > 0 \/ Held(to, i) \/ net.status[to] = "aborted"
    /\ net.receipt[i] = "unseen" => net.shown[i] > 0 \/ Held(to, i) \/ i \in net.dropped

\* No message is shown twice, or shown while a queue still holds it.
ShownOnce ==
  \A i \in DOMAIN net.sent :
    net.shown[i] <= 1 /\ (net.shown[i] = 1 => ~Held(net.sent[i].to, i))

\* A wait without a running peer to hear from has been ended.
NobodyWaitsInVain == \A a \in Agents : ~Orphaned(net, a)

\* An irc tool call ends although nobody answers.
CallsReturn == \A a \in Agents : []<>IsFree(a)

\* What waits in a session's queue gets into a turn of it: no queue stays
\* non-empty for ever.
AsidesArrive == \A a \in Agents : []<>(Pending(net, a) = {})
=============================================================================
