--------------------------- MODULE AgentLifecycle ---------------------------
(***************************************************************************)
(* One subagent id over its life: AgentRegistry, AgentLifecycleManager,    *)
(* createAgentSession's registration (sdk.ts) and the finalisation of a    *)
(* run (task/executor.ts).  The agent is spawned, finishes, is kept alive, *)
(* parked by its idle timer, revived by whoever needs it, and released.    *)
(*                                                                         *)
(* Everything is one event loop; a step is the code between two awaits.    *)
(* A registration creates a ref object and, later, one session; both have  *)
(* the number of the registration.  An old ref object lives on in the      *)
(* coroutines that hold it.                                                *)
(*                                                                         *)
(* A disposal is assumed to finish before the idle timer can fire again    *)
(* and before the five seconds the executor allows for it.                 *)
(***************************************************************************)
EXTENDS Naturals, FiniteSets

CONSTANTS Callers,   \* tool calls, messages and views that need the live session
          MaxRegs    \* bound on the number of registrations of the id

ASSUME MaxRegsAssumption == MaxRegs \in Nat \ {0}

VARIABLES r,         \* registry and lifecycle manager, see NoAgent
          parking,   \* #parking holds the id
          tasks,     \* coroutines awaiting session.dispose(): [op, of, at]
          revival,   \* the #revivals entry: [ref, stage, cold], or None
          caller,    \* what each caller of ensureLive has: [state, session]
          released   \* release() has been called
vars == <<r, parking, tasks, revival, caller, released>>

Regs == 1..MaxRegs
None == 0
NoRevival == [ref |-> None, stage |-> "none", cold |-> FALSE]
NotAdopted == [by |-> "nobody", revive |-> FALSE, timer |-> FALSE]
Idle == [state |-> "idle", session |-> None]

\* cur: the ref in the map; ref: the ref objects; adopted: the entry of
\* #adopted; sess: the sessions, `kept` those that have outlived a run or were revived.
NoAgent == [cur |-> None, last |-> None,
            ref |-> [g \in Regs |-> [status |-> "none", session |-> None]],
            adopted |-> NotAdopted,
            sess |-> [g \in Regs |-> "none"],
            kept |-> {}]

Init == /\ r = NoAgent /\ parking = FALSE /\ tasks = {}
        /\ revival = NoRevival
        /\ caller = [c \in Callers |-> Idle]
        /\ released = FALSE

-----------------------------------------------------------------------------
Status(t) == IF t.cur = None THEN "none" ELSE t.ref[t.cur].status
Session(t) == IF t.cur = None THEN None ELSE t.ref[t.cur].session

\* Faulty: a running agent keeps its timer.
OnStatusKeepTimer(t, status) ==
  IF t.adopted = NotAdopted THEN t
  ELSE [t EXCEPT !.adopted.timer = @ \/ status = "idle"]

\* #onRegistryEvent: running disarms the timer, idle arms it.
OnStatus(t, status) ==
  IF t.adopted = NotAdopted THEN t
  ELSE [t EXCEPT !.adopted.timer = (status = "idle") \/ (@ /\ status # "running")]

SetStatus(t, status) ==
  IF t.cur = None \/ Status(t) = status THEN t
  ELSE OnStatus([t EXCEPT !.ref[t.cur].status = status], status)

AttachSession(t, s) == IF t.cur = None THEN t ELSE [t EXCEPT !.ref[t.cur].session = s]
DetachSession(t) == IF t.cur = None THEN t ELSE [t EXCEPT !.ref[t.cur].session = None]

\* The "removed" event ends the adoption.
Unregister(t) == IF t.cur = None THEN t
                 ELSE [t EXCEPT !.cur = None, !.adopted = NotAdopted]

\* The dispose wrapper of createAgentSession.
UnregisterUnlessParked(t) ==
  IF Status(t) = "parked" \/ parking THEN t ELSE Unregister(t)

\* A duplicate id is unregistered first; it never has a session here.
Register(t, status) ==
  [Unregister(t) EXCEPT !.cur = t.last + 1, !.last = t.last + 1,
                        !.ref[t.last + 1] = [status |-> status, session |-> None]]

\* Without a session file there is nothing to revive from.
Adopt(t, revivable) ==
  IF t.cur = None THEN t
  ELSE [t EXCEPT !.adopted = [by |-> "executor", revive |-> revivable, timer |-> TRUE]]

\* Disposal of a session begins; the coroutine `op` waits for it.
BeginDispose(t, s) == [t EXCEPT !.sess[s] = IF @ = "disposed" THEN @ ELSE "disposing"]
Waiting(op, s) == [op |-> op, of |-> s, at |-> "dispose"]

-----------------------------------------------------------------------------
\* createAgentSession registers the id, or the Agent Hub finds its transcript.
Spawn ==
  /\ r.last = None
  /\ r' = Register(r, "running")
  /\ UNCHANGED <<parking, tasks, revival, caller, released>>

FoundOnDisk ==
  /\ r.last = None
  /\ r' = [Register(r, "parked") EXCEPT !.sess[1] = "disposed"]
  /\ UNCHANGED <<parking, tasks, revival, caller, released>>

\* The first session is attached, or could not be created.
Opened ==
  /\ r.last = 1 /\ r.sess[1] = "none"
  /\ \/ r' = AttachSession([r EXCEPT !.sess[1] = "live"], 1)
     \/ r' = UnregisterUnlessParked([r EXCEPT !.sess[1] = "disposed"])
  /\ UNCHANGED <<parking, tasks, revival, caller, released>>

\* finalizeSubagentLifecycle of a kept-alive agent.
FinishKeepAlive(revivable) ==
  /\ r.sess[1] = "live" /\ 1 \notin r.kept
  /\ r' = Adopt(SetStatus([r EXCEPT !.kept = @ \cup {1}], "idle"), revivable)
  /\ UNCHANGED <<parking, tasks, revival, caller, released>>

\* The same for a killed, a one-shot and an isolated run.
FinishAndDispose(op) ==
  /\ r.sess[1] = "live" /\ 1 \notin r.kept
  /\ r' = BeginDispose(CASE op = "aborted"  -> SetStatus(r, "aborted")
                         [] op = "oneshot"  -> r
                         [] op = "isolated" -> SetStatus(r, "parked"), 1)
  /\ tasks' = tasks \cup {Waiting(op, 1)}
  /\ UNCHANGED <<parking, revival, caller, released>>

\* A session starts or ends a turn; a disposed one emits nothing, and a revived
\* one is listened to only when it is ready.
Turn(s, status) ==
  /\ s \in r.kept \cup {1} /\ r.sess[s] = "live"
  /\ status \in {"running", "idle"} /\ Status(r) # status
  /\ r' = SetStatus(r, status)
  /\ UNCHANGED <<parking, tasks, revival, caller, released>>

\* Faulty: the agent is marked parked before its session is disposed.
BeginParkMarked(t) ==
  SetStatus(DetachSession(BeginDispose([t EXCEPT !.adopted.timer = FALSE], Session(t))), "parked")

BeginPark(t) == BeginDispose([t EXCEPT !.adopted.timer = FALSE], Session(t))

\* The idle timer fires: park(), up to its await.
TimerFires ==
  /\ r.adopted.timer
  /\ ~\E t \in tasks : t.op = "park"
  /\ IF Session(r) = None
     THEN r' = [r EXCEPT !.adopted.timer = FALSE] /\ UNCHANGED <<parking, tasks>>
     ELSE /\ r' = BeginPark(r)
          /\ parking' = TRUE
          /\ tasks' = tasks \cup {Waiting("park", Session(r))}
  /\ UNCHANGED <<revival, caller, released>>

\* session.dispose() is done; its wrapper forgets the agent unless parked.
Disposed(t) ==
  /\ t \in tasks /\ t.at = "dispose"
  /\ r' = UnregisterUnlessParked([r EXCEPT !.sess[t.of] = "disposed"])
  /\ tasks' = (tasks \ {t}) \cup {[t EXCEPT !.at = "after"]}
  /\ UNCHANGED <<parking, revival, caller, released>>

MarkParked(t) == SetStatus(DetachSession(t), "parked")

ParkingAfter(op) == parking /\ op # "park"

\* What follows the await in park, release and finalizeSubagentLifecycle.
Resume(t) ==
  /\ t \in tasks /\ t.at = "after" /\ t.op # "revive"
  /\ tasks' = tasks \ {t}
  /\ r' = CASE t.op = "park"           -> MarkParked(r)
            [] t.op = "isolated"       -> DetachSession(r)
            [] t.op = "oneshot"        -> Unregister(r)
            [] t.op = "release"        -> Unregister(r)
            [] t.op = "release_orphan" -> Unregister(DetachSession(r))
            [] t.op = "aborted"        -> r
  /\ parking' = ParkingAfter(t.op)
  /\ UNCHANGED <<revival, caller, released>>

\* release(id).
Release ==
  /\ r.last # None /\ ~released
  /\ released' = TRUE
  /\ IF Session(r) = None
     THEN r' = Unregister([r EXCEPT !.adopted = NotAdopted]) /\ UNCHANGED tasks
     ELSE /\ r' = BeginDispose([r EXCEPT !.adopted = NotAdopted], Session(r))
          /\ tasks' = tasks \cup {Waiting(IF r.adopted = NotAdopted THEN "release_orphan"
                                          ELSE "release", Session(r))}
  /\ UNCHANGED <<parking, revival, caller>>

-----------------------------------------------------------------------------
Revivable(ref) == r.adopted.revive /\ r.ref[ref].status = "parked"
Answer(c, s) == caller' = [caller EXCEPT ![c] = [state |-> "got", session |-> s]]
Refuse(c) == caller' = [caller EXCEPT ![c] = [state |-> "error", session |-> None]]
Await(c) == caller' = [caller EXCEPT ![c] = [state |-> "waiting", session |-> None]]
\* Faulty: only one of the callers learns of the result.
SettleOne(state, s) ==
  LET first == CHOOSE c \in Callers : caller[c].state = "waiting"
  IN  caller' = [caller EXCEPT ![first] = [state |-> state, session |-> s]]

Settle(state, s) ==
  caller' = [c \in Callers |-> IF caller[c].state = "waiting"
                               THEN [state |-> state, session |-> s] ELSE caller[c]]

\* ensureLive: no agent, a session, a revive in flight, or a new one.
EnsureLive(c) ==
  /\ caller[c] = Idle
  /\ \/ r.cur = None /\ Refuse(c) /\ UNCHANGED revival
     \/ Session(r) # None /\ Answer(c, Session(r)) /\ UNCHANGED revival
     \/ /\ r.cur # None /\ Session(r) = None
        /\ revival # NoRevival /\ Await(c) /\ UNCHANGED revival
     \/ /\ r.cur # None /\ Session(r) = None /\ revival = NoRevival
        /\ r.last < MaxRegs
        /\ \/ /\ Revivable(r.cur)
              /\ revival' = [ref |-> r.cur, stage |-> "opening", cold |-> FALSE]
              /\ Await(c)
           \/ /\ ~r.adopted.revive /\ Status(r) = "parked"
              /\ revival' = [ref |-> r.cur, stage |-> "factory", cold |-> FALSE]
              /\ Await(c)
           \/ Status(r) # "parked" /\ Refuse(c) /\ UNCHANGED revival
  /\ UNCHANGED <<r, parking, tasks, released>>

\* The persisted-subagent factory answers: a reviver, or none.
FactoryAnswers(found) ==
  /\ revival.stage = "factory"
  /\ r' = IF found THEN [r EXCEPT !.adopted = [by |-> "cold", revive |-> TRUE, timer |-> FALSE]]
          ELSE r
  /\ IF found /\ r.ref[revival.ref].status = "parked"
     THEN revival' = [revival EXCEPT !.stage = "opening", !.cold = TRUE] /\ UNCHANGED caller
     ELSE revival' = NoRevival /\ Settle("error", None)
  /\ UNCHANGED <<parking, tasks, released>>

\* The reviver has opened the transcript; createAgentSession registers the id.
Reregister ==
  /\ revival.stage = "opening"
  /\ r' = Register(r, "running")
  /\ revival' = [revival EXCEPT !.stage = "creating"]
  /\ UNCHANGED <<parking, tasks, caller, released>>

\* createAgentSession attaches the new session and goes on with its setup.
Reattached ==
  /\ revival.stage = "creating"
  /\ r' = AttachSession([r EXCEPT !.sess[r.last] = "live"], r.last)
  /\ revival' = [revival EXCEPT !.stage = "attached"]
  /\ UNCHANGED <<parking, tasks, caller, released>>

\* The reviver returns: #revive attaches the session and sets it idle.
Revived ==
  /\ revival.stage = "attached"
  /\ r' = SetStatus(AttachSession([r EXCEPT !.kept = @ \cup {r.last}], r.last), "idle")
  /\ revival' = NoRevival
  /\ Settle("got", r.last)
  /\ UNCHANGED <<parking, tasks, released>>

\* Faulty: a failed cold revive forgets the agent.
DropColdAgent(t) == IF revival.cold THEN Unregister(t) ELSE t

\* A failed cold revive drops its reviver.
DropCold(t) == IF revival.cold THEN [t EXCEPT !.adopted = NotAdopted] ELSE t
Failed == revival' = NoRevival /\ Settle("error", None)

\* Opening or creating failed, or setting the tools of a cold one.
ReviveFails ==
  /\ \/ revival.stage = "opening" /\ r' = DropCold(r)
     \/ revival.stage = "creating" /\ r' = DropCold(UnregisterUnlessParked(r))
     \/ revival.stage = "attached" /\ revival.cold /\ r' = DropCold(r)
  /\ Failed
  /\ UNCHANGED <<parking, tasks, released>>

\* The setup after the attach failed: the session is disposed first.
SetupFails ==
  /\ revival.stage = "attached"
  /\ r' = BeginDispose(r, r.last)
  /\ tasks' = tasks \cup {Waiting("revive", r.last)}
  /\ revival' = [revival EXCEPT !.stage = "failing"]
  /\ UNCHANGED <<parking, caller, released>>

SetupFailed(t) ==
  /\ t \in tasks /\ t.at = "after" /\ t.op = "revive"
  /\ tasks' = tasks \ {t}
  /\ r' = DropCold(r)
  /\ Failed
  /\ UNCHANGED <<parking, released>>

\* A caller is done with what it got.
CallerDone(c) ==
  /\ caller[c].state \in {"got", "error"}
  /\ caller' = [caller EXCEPT ![c] = Idle]
  /\ UNCHANGED <<r, parking, tasks, revival, released>>

Next == \/ Spawn \/ FoundOnDisk \/ Opened
        \/ \E revivable \in BOOLEAN : FinishKeepAlive(revivable)
        \/ \E op \in {"aborted", "oneshot", "isolated"} : FinishAndDispose(op)
        \/ \E s \in Regs, status \in {"running", "idle"} : Turn(s, status)
        \/ TimerFires
        \/ \E t \in tasks : Disposed(t) \/ Resume(t) \/ SetupFailed(t)
        \/ Release
        \/ \E c \in Callers : EnsureLive(c) \/ CallerDone(c)
        \/ \E found \in BOOLEAN : FactoryAnswers(found)
        \/ Reregister \/ Reattached \/ Revived \/ ReviveFails \/ SetupFails

Spec == Init /\ [][Next]_vars

\* Disposals and revives end, one way or the other, and awaits are resumed.
FairSpec == /\ Spec
            /\ WF_vars(\E t \in tasks : Disposed(t) \/ Resume(t) \/ SetupFailed(t))
            /\ WF_vars(\E found \in BOOLEAN : FactoryAnswers(found))
            /\ WF_vars(Reregister \/ Reattached \/ Revived \/ ReviveFails \/ SetupFails)

-----------------------------------------------------------------------------

Live == {g \in Regs : r.sess[g] = "live"}

\* The transcript has one writer: never two undisposed sessions of one id,
\* whoever revives, parks or releases it at the same time.
OneWriter == Cardinality({g \in Regs : r.sess[g] \in {"live", "disposing"}}) <= 1

Adopted == r.adopted # NotAdopted

\* The agent rests: idle, with a session that nobody disposes or is still creating.
Resting == Status(r) = "idle" /\ Session(r) \in Live \cap r.kept

\* Whoever arms or disarms it, the idle timer follows the registry: it is armed only
\* while the agent is shown as idle, so that no turn is parked in its middle, and a
\* resting agent has one exactly while the manager owns it.  It owns the agent it
\* adopted when the first run was over and, unless release() came while a reviver
\* was looked for, no other: the registration of the revived session unregisters the
\* parked entry and the "removed" event ends the adoption.  So an agent that was
\* revived is never parked again, although agent-lifecycle.ts:249 says that its
\* return to "idle" re-arms the timer, agent-lifecycle.ts:184-186 that it rejoins
\* the idle-parked lifecycle and executor.ts:2055-2057 that it stays adopted.
TimerFollowsStatus ==
  /\ r.adopted.timer => Status(r) = "idle"
  /\ Resting => (r.adopted.timer <=> Adopted)
  /\ Resting /\ ~released => (Adopted <=> Session(r) = 1)

\* The registry tells the truth about sessions: a parked agent whose coroutines
\* have all run has none left, and, unless the agent was hard-removed, a live
\* session can be reached through the registry, so that nobody runs on unseen.
RegistryTruthful ==
  /\ Status(r) = "parked" /\ tasks = {} => Session(r) = None /\ Live = {}
  /\ ~released => \A g \in Live : Session(r) = g

\* Whoever waits for a revive gets an answer.
CallersAnswered == \A c \in Callers : caller[c].state = "waiting" ~> caller[c].state # "waiting"
=============================================================================
