------------------------- MODULE AgentLifecycleProofs -------------------------
(***************************************************************************)
(* An agent id never has two undisposed sessions, the idle timer follows   *)
(* the status of the agent, and the registry tells the truth about         *)
(* sessions, for any number of callers and of registrations.               *)
(*                                                                         *)
(* OneWriter is not inductive: the step that brings a second session to    *)
(* life (Reattached) consults nothing.  It is safe because a revive begins *)
(* only where the registry shows no session (ensureLive), because the      *)
(* registry shows a session until its disposal has begun and ended         *)
(* (LastActive), because nothing but the revive registers the id again     *)
(* (RevivedAlone), and because no park or isolated end that would detach   *)
(* a later session is still under way then (OneDetaches).                  *)
(*                                                                         *)
(* The other two rest on Seen, inductive once IInv is known: before a      *)
(* release one coroutine at most is under way, and it knows what the       *)
(* disposal it waits for has done to the registration (OneTask), an agent  *)
(* is forgotten only with all its sessions (Reachable), and one that was   *)
(* revived is adopted by nobody (FirstOwned).                              *)
(***************************************************************************)
EXTENDS AgentLifecycle, FiniteSetTheorems, TLAPS

\* The values the variables range over.
Statuses == {"none", "running", "idle", "parked", "aborted"}
Detaching == {"park", "isolated"}
Agent ==
  [cur     : 0..MaxRegs,
   last    : 0..MaxRegs,
   ref     : [Regs -> [status : Statuses, session : 0..MaxRegs]],
   adopted : [by : {"nobody", "executor", "cold"}, revive : BOOLEAN, timer : BOOLEAN],
   sess    : [Regs -> {"none", "live", "disposing", "disposed"}],
   kept    : SUBSET Regs]
Task == [op : Detaching \cup {"aborted", "oneshot", "release", "release_orphan", "revive"},
         of : Regs, at : {"dispose", "after"}]
Revival == [ref : 0..MaxRegs, cold : BOOLEAN,
            stage : {"none", "factory", "opening", "creating", "attached", "failing"}]

\* The sessions of the agent that are not disposed.
Active(t) == {g \in Regs : t.sess[g] \in {"live", "disposing"}}

\* The types of the variables.
Typed == r \in Agent /\ tasks \subseteq Task /\ revival \in Revival

\* Only the newest registration is in the map, with its own session or none, and
\* later ones do not exist yet.
Registered == /\ r.cur \in {None, r.last} /\ Session(r) \in {None, r.cur}
              /\ Session(r) # None => r.sess[r.cur] # "none"
              /\ \A g \in Regs : g > r.last => r.sess[g] = "none"

\* Only the newest session can be undisposed, and a registered agent shows it.
LastActive == /\ Active(r) \subseteq {r.last}
              /\ Active(r) # {} /\ r.cur # None => Session(r) = r.last

\* A revive that has no session yet is alone: no session is undisposed, none is
\* shown, and nothing under way will detach one.
RevivedAlone ==
  /\ revival.stage \in {"factory", "opening"} => r.last < MaxRegs
  /\ revival.stage \in {"factory", "opening", "creating"} =>
       /\ r.last # None /\ Active(r) = {} /\ Session(r) = None
       /\ \A t \in tasks : t.op \notin Detaching
  /\ revival.stage = "creating" => r.last > 1 /\ r.sess[r.last] = "none"
  /\ revival.stage = "attached" => r.last > 1 /\ r.sess[r.last] # "none"

\* A coroutine waits for the disposal of a session that has begun to end.
TasksDispose ==
  \A t \in tasks :
    /\ t.of <= r.last
    /\ r.sess[t.of] \in (IF t.at = "after" THEN {"disposed"} ELSE {"disposing", "disposed"})

\* At most one coroutine will detach a session, and that is the newest.
OneDetaches ==
  /\ \A t, u \in tasks : t.op \in Detaching /\ u.op \in Detaching => t = u
  /\ \A t \in tasks : t.op \in Detaching =>
       t.of = r.last /\ (r.cur = None \/ Session(r) = r.last)
  /\ \A t \in tasks : t.op = "isolated" => r.adopted = NotAdopted

\* Before the first session is opened, and while its run lasts, nobody has
\* adopted the agent and nobody revives it.
Unopened ==
  /\ r.last = None => r.cur = None /\ r.adopted = NotAdopted /\ revival = NoRevival
  /\ r.last = 1 /\ r.sess[1] = "none" =>
       revival = NoRevival /\ r.adopted = NotAdopted /\ Session(r) = None /\ Status(r) # "parked"
  /\ r.last = 1 /\ r.sess[1] = "live" /\ 1 \notin r.kept => r.adopted = NotAdopted

\* The inductive invariant.
IInv == /\ Typed /\ Registered /\ LastActive /\ RevivedAlone
        /\ TasksDispose /\ OneDetaches /\ Unopened

-----------------------------------------------------------------------------
\* setStatus changes the status, and at most the timer of the adoption.
LEMMA SetStatusEffect ==
  ASSUME NEW t \in Agent, NEW st \in Statuses
  PROVE  /\ SetStatus(t, st) \in Agent
         /\ SetStatus(t, st).cur = t.cur /\ SetStatus(t, st).last = t.last
         /\ SetStatus(t, st).sess = t.sess /\ SetStatus(t, st).kept = t.kept
         /\ t.cur # None => Session(SetStatus(t, st)) = Session(t)
         /\ t.cur = None => SetStatus(t, st) = t
         /\ t.adopted = NotAdopted => SetStatus(t, st).adopted = NotAdopted
         /\ t.cur # None => Status(SetStatus(t, st)) = st
<1> DEFINE u == [t EXCEPT !.ref[t.cur].status = st]
<1>1. CASE t.cur = None \/ Status(t) = st
  BY <1>1 DEF SetStatus, Status
<1>2. CASE ~(t.cur = None \/ Status(t) = st)
  <2>1. t.cur \in Regs
    BY <1>2, MaxRegsAssumption DEF Agent, Regs, None
  <2>2. u \in Agent /\ u.cur = t.cur /\ u.last = t.last /\ u.sess = t.sess /\ u.kept = t.kept
        /\ u.adopted = t.adopted /\ u.ref[t.cur].status = st /\ u.ref[t.cur].session = t.ref[t.cur].session
    BY <2>1, ZenonT(60) DEF Agent
  <2>3. SetStatus(t, st) = OnStatus(u, st)
    BY <1>2 DEF SetStatus
  <2> HIDE DEF u
  <2>4. /\ OnStatus(u, st) \in Agent
        /\ OnStatus(u, st).cur = u.cur /\ OnStatus(u, st).last = u.last /\ OnStatus(u, st).sess = u.sess
        /\ OnStatus(u, st).kept = u.kept /\ OnStatus(u, st).ref = u.ref
        /\ u.adopted = NotAdopted => OnStatus(u, st).adopted = NotAdopted
    BY <2>2 DEF OnStatus, Agent
  <2> QED
    BY <1>2, <2>1, <2>2, <2>3, <2>4 DEF Session, Status
<1> QED
  BY <1>1, <1>2

\* attachSession shows the session, if the id is registered.
LEMMA AttachEffect ==
  ASSUME NEW t \in Agent, NEW s \in Regs
  PROVE  /\ AttachSession(t, s) \in Agent
         /\ AttachSession(t, s).cur = t.cur /\ AttachSession(t, s).last = t.last
         /\ AttachSession(t, s).sess = t.sess /\ AttachSession(t, s).kept = t.kept
         /\ AttachSession(t, s).adopted = t.adopted
         /\ Session(AttachSession(t, s)) = IF t.cur = None THEN None ELSE s
         /\ Status(AttachSession(t, s)) = Status(t)
<1>1. CASE t.cur = None
  BY <1>1 DEF AttachSession, Session
<1>2. CASE t.cur # None
  <2>1. t.cur \in Regs
    BY <1>2, MaxRegsAssumption DEF Agent, Regs, None
  <2>2. s \in 0..MaxRegs
    BY MaxRegsAssumption DEF Regs
  <2> QED
    BY <1>2, <2>1, <2>2, ZenonT(60) DEF AttachSession, Session, Status, Agent
<1> QED
  BY <1>1, <1>2

\* detachSession shows none, and changes nothing else.
LEMMA DetachEffect ==
  ASSUME NEW t \in Agent
  PROVE  /\ DetachSession(t) \in Agent
         /\ DetachSession(t).cur = t.cur /\ DetachSession(t).last = t.last
         /\ DetachSession(t).sess = t.sess /\ DetachSession(t).kept = t.kept
         /\ DetachSession(t).adopted = t.adopted
         /\ Session(DetachSession(t)) = None
         /\ Status(DetachSession(t)) = Status(t)
<1>1. CASE t.cur = None
  BY <1>1 DEF DetachSession, Session
<1>2. CASE t.cur # None
  <2>1. t.cur \in Regs
    BY <1>2, MaxRegsAssumption DEF Agent, Regs, None
  <2>2. None \in 0..MaxRegs
    BY MaxRegsAssumption DEF None
  <2> QED
    BY <1>2, <2>1, <2>2, ZenonT(60) DEF DetachSession, Session, Status, Agent
<1> QED
  BY <1>1, <1>2

\* unregister ends the registration and the adoption.
LEMMA UnregisterEffect ==
  ASSUME NEW t \in Agent
  PROVE  /\ Unregister(t) \in Agent
         /\ Unregister(t).cur = None /\ Unregister(t).last = t.last
         /\ Unregister(t).sess = t.sess /\ Unregister(t).kept = t.kept
         /\ Unregister(t).adopted \in {t.adopted, NotAdopted}
         /\ Session(Unregister(t)) = None /\ Status(Unregister(t)) = "none"
<1>1. NotAdopted \in [by : {"nobody", "executor", "cold"}, revive : BOOLEAN, timer : BOOLEAN]
  BY DEF NotAdopted
<1>2. None \in 0..MaxRegs
  BY MaxRegsAssumption DEF None
<1> QED
  BY <1>1, <1>2 DEF Unregister, Agent, Session, Status

\* The dispose wrapper unregisters or does nothing.
LEMMA UnlessParkedEffect ==
  ASSUME NEW t \in Agent
  PROVE  UnregisterUnlessParked(t) \in {t, Unregister(t)}
BY DEF UnregisterUnlessParked

\* register starts a registration that shows no session.
LEMMA RegisterEffect ==
  ASSUME NEW t \in Agent, NEW st \in Statuses, t.last < MaxRegs
  PROVE  /\ Register(t, st) \in Agent
         /\ Register(t, st).cur = t.last + 1 /\ Register(t, st).last = t.last + 1
         /\ Register(t, st).sess = t.sess /\ Register(t, st).kept = t.kept
         /\ Register(t, st).adopted \in {t.adopted, NotAdopted}
         /\ Session(Register(t, st)) = None
         /\ Status(Register(t, st)) = st
<1>1. PICK v : v = Unregister(t)
  OBVIOUS
<1>2. v \in Agent /\ v.sess = t.sess /\ v.kept = t.kept /\ v.adopted \in {t.adopted, NotAdopted}
  BY <1>1, UnregisterEffect
<1>3. t.last + 1 \in Regs /\ t.last + 1 \in 0..MaxRegs /\ t.last + 1 # None /\ None \in 0..MaxRegs
  BY MaxRegsAssumption DEF Agent, Regs, None
<1>4. PICK u : u = [v EXCEPT !.cur = t.last + 1, !.last = t.last + 1,
                             !.ref[t.last + 1] = [status |-> st, session |-> None]]
  OBVIOUS
<1>5. /\ u \in Agent /\ u.cur = t.last + 1 /\ u.last = t.last + 1 /\ u.sess = v.sess
      /\ u.kept = v.kept /\ u.adopted = v.adopted
      /\ u.ref[t.last + 1] = [status |-> st, session |-> None]
  BY <1>2, <1>3, <1>4 DEF Agent
<1>6. Register(t, st) = u
  BY <1>1, <1>4 DEF Register
<1> QED
  BY <1>2, <1>3, <1>5, <1>6 DEF Session, Status

\* The begin of a disposal concerns that session only.
LEMMA BeginDisposeEffect ==
  ASSUME NEW t \in Agent, NEW s \in Regs
  PROVE  /\ BeginDispose(t, s) \in Agent
         /\ BeginDispose(t, s).cur = t.cur /\ BeginDispose(t, s).last = t.last
         /\ BeginDispose(t, s).kept = t.kept
         /\ BeginDispose(t, s).adopted = t.adopted
         /\ Session(BeginDispose(t, s)) = Session(t) /\ Status(BeginDispose(t, s)) = Status(t)
         /\ BeginDispose(t, s).sess[s] = (IF t.sess[s] = "disposed" THEN "disposed" ELSE "disposing")
         /\ \A g \in Regs \ {s} : BeginDispose(t, s).sess[g] = t.sess[g]
BY DEF BeginDispose, Agent, Session, Status

\* A failed cold revive gives up the adoption at most.
LEMMA DropColdEffect ==
  ASSUME NEW t \in Agent
  PROVE  /\ DropCold(t) \in Agent
         /\ DropCold(t).cur = t.cur /\ DropCold(t).last = t.last
         /\ DropCold(t).sess = t.sess /\ DropCold(t).kept = t.kept
         /\ DropCold(t).adopted \in {t.adopted, NotAdopted}
         /\ Session(DropCold(t)) = Session(t) /\ Status(DropCold(t)) = Status(t)
<1>1. NotAdopted \in [by : {"nobody", "executor", "cold"}, revive : BOOLEAN, timer : BOOLEAN]
  BY DEF NotAdopted
<1> QED
  BY <1>1 DEF DropCold, Agent, Session, Status

\* adopt concerns the adoption only.
LEMMA AdoptEffect ==
  ASSUME NEW t \in Agent, NEW b \in BOOLEAN
  PROVE  /\ Adopt(t, b) \in Agent
         /\ Adopt(t, b).cur = t.cur /\ Adopt(t, b).last = t.last
         /\ Adopt(t, b).sess = t.sess /\ Adopt(t, b).kept = t.kept
         /\ Session(Adopt(t, b)) = Session(t) /\ Status(Adopt(t, b)) = Status(t)
BY DEF Adopt, Agent, Session, Status

-----------------------------------------------------------------------------
\* Steps that leave the sessions as they are keep the invariant if they register
\* and adopt nothing new, and attach and detach only by ending the registration.
LEMMA FrameStep ==
  ASSUME IInv, r' \in Agent, r'.last = r.last, r'.sess = r.sess,
         \/ r'.cur = r.cur /\ Session(r') = Session(r)
         \/ r'.cur = None /\ Session(r') = None,
         r.kept \subseteq r'.kept,
         r'.adopted = NotAdopted \/ r.adopted # NotAdopted,
         r.last = 1 /\ r.sess[1] = "none" => Status(r') # "parked",
         tasks' \subseteq tasks, revival' \in {revival, NoRevival}
  PROVE  IInv'
<1>1. Typed'
  <2>1. NoRevival \in Revival
    BY MaxRegsAssumption DEF NoRevival, Revival, None
  <2> QED
    BY <2>1 DEF IInv, Typed
<1>2. Registered'
  BY DEF IInv, Registered, None
<1>3. LastActive'
  BY DEF IInv, LastActive, Active
<1>4. RevivedAlone'
  BY DEF IInv, RevivedAlone, Active, NoRevival
<1>5. TasksDispose'
  BY DEF IInv, TasksDispose
<1>6. OneDetaches'
  BY DEF IInv, OneDetaches
<1>7. Unopened'
  BY DEF IInv, Unopened
<1> QED
  BY <1>1, <1>2, <1>3, <1>4, <1>5, <1>6, <1>7 DEF IInv

\* A coroutine begins to dispose of the latest session.
LEMMA DisposeStep ==
  ASSUME IInv, NEW s \in Regs, s = r.last, r.sess[s] # "none",
         NEW op \in Detaching \cup {"aborted", "oneshot", "release", "release_orphan", "revive"},
         r' \in Agent, r'.cur = r.cur, r'.last = r.last, r'.kept = r.kept,
         Session(r') = Session(r),
         r'.sess[s] = (IF r.sess[s] = "disposed" THEN "disposed" ELSE "disposing"),
         \A g \in Regs \ {s} : r'.sess[g] = r.sess[g],
         r'.adopted = NotAdopted \/ r.adopted # NotAdopted,
         tasks' = tasks \cup {Waiting(op, s)},
         \/ revival' = revival
         \/ revival.stage = "attached" /\ revival' = [revival EXCEPT !.stage = "failing"],
         op \in Detaching =>
           /\ \A t \in tasks : t.op \notin Detaching
           /\ r.cur = None \/ Session(r) = s
           /\ revival.stage \notin {"factory", "opening", "creating"},
         op = "isolated" => r'.adopted = NotAdopted
  PROVE  IInv'
<1> DEFINE w == Waiting(op, s)
<1>0. w \in Task /\ w.op = op /\ w.of = s /\ w.at = "dispose"
  BY DEF Waiting, Task
<1> HIDE DEF w
<1>1. Typed'
  BY <1>0 DEF IInv, Typed, Revival, w
<1>2. Registered'
  BY DEF IInv, Registered, None, Agent, Typed
<1>3. LastActive'
  BY DEF IInv, LastActive, Active, Typed, Agent
<1>4. RevivedAlone'
  <2>1. revival.stage \in {"factory", "opening"} => Active(r) = {} /\ r.sess[s] = "disposed"
    BY DEF IInv, RevivedAlone, Active, Typed, Agent
  <2>2. revival.stage # "creating"
    BY DEF IInv, RevivedAlone
  <2>3. revival'.stage \in {"failing", revival.stage}
    BY DEF IInv, Typed, Revival
  <2> QED
    BY <1>0, <2>1, <2>2, <2>3 DEF IInv, RevivedAlone, Active, w
<1>5. TasksDispose'
  BY <1>0 DEF IInv, TasksDispose, w, Typed, Task, Agent
<1>6. OneDetaches'
  BY <1>0 DEF IInv, OneDetaches, w
<1>7. Unopened'
  BY DEF IInv, Unopened, NoRevival, Regs, None
<1> QED
  BY <1>1, <1>2, <1>3, <1>4, <1>5, <1>6, <1>7 DEF IInv

\* A session has been disposed of.
LEMMA DisposedStep == IInv /\ (\E t \in tasks : Disposed(t)) => IInv'
<1> SUFFICES ASSUME IInv, NEW t \in tasks, Disposed(t) PROVE IInv'
  OBVIOUS
<1>1. PICK n : n = [r EXCEPT !.sess[t.of] = "disposed"]
  OBVIOUS
<1>2. /\ t \in Task /\ t.of \in Regs /\ t.of <= r.last /\ r.sess[t.of] # "none"
      /\ r \in Agent
  BY DEF IInv, Typed, Task, TasksDispose
<1>3. /\ n \in Agent /\ n.cur = r.cur /\ n.last = r.last /\ n.kept = r.kept
      /\ n.adopted = r.adopted /\ Session(n) = Session(r) /\ Status(n) = Status(r)
      /\ n.sess[t.of] = "disposed" /\ \A g \in Regs \ {t.of} : n.sess[g] = r.sess[g]
  BY <1>1, <1>2 DEF Agent, Session, Status
<1>4. /\ r' \in Agent /\ r'.last = r.last /\ r'.kept = r.kept /\ r'.sess = n.sess
      /\ r'.adopted \in {r.adopted, NotAdopted}
      /\ \/ r'.cur = r.cur /\ Session(r') = Session(r) /\ Status(r') = Status(r)
         \/ r'.cur = None /\ Session(r') = None
  <2>1. r' = UnregisterUnlessParked(n)
    BY <1>1 DEF Disposed
  <2>2. r' \in {n, Unregister(n)}
    BY <1>3, <2>1, UnlessParkedEffect
  <2> QED
    BY <1>3, <2>2, UnregisterEffect
<1>5. PICK u : u = [t EXCEPT !.at = "after"]
  OBVIOUS
<1>6. u \in Task /\ u.op = t.op /\ u.of = t.of /\ u.at = "after"
      /\ tasks' = (tasks \ {t}) \cup {u} /\ revival' = revival
  BY <1>2, <1>5 DEF Task, Disposed
<1>7. Typed'
  BY <1>4, <1>6 DEF IInv, Typed
<1>8. Registered'
  <2>1. \A g \in Regs : r'.sess[g] = r.sess[g] \/ g = t.of
    BY <1>3, <1>4
  <2>2. r.cur # None => r.cur \in Regs
    BY <1>2, MaxRegsAssumption DEF Agent, Regs, None
  <2>3. Session(r') # None => r'.cur = r.cur /\ Session(r) # None /\ r.cur \in Regs
    BY <1>4, <2>2 DEF Session
  <2>4. Session(r') # None => r'.sess[r'.cur] # "none"
    BY <1>3, <1>4, <2>1, <2>3 DEF IInv, Registered
  <2>5. \A g \in Regs : g > r'.last => r'.sess[g] = "none"
    BY <1>2, <1>4, <2>1 DEF IInv, Registered, Agent, Regs
  <2> QED
    BY <1>4, <2>4, <2>5 DEF IInv, Registered
<1>9. LastActive'
  BY <1>3, <1>4 DEF IInv, LastActive, Active
<1>10. RevivedAlone'
  <2>1. Active(r') \subseteq Active(r)
    BY <1>3, <1>4 DEF Active
  <2>2. \A v \in tasks' : \E w \in tasks : v.op = w.op
    BY <1>6
  <2>3. r.last > 1 => r.last \in Regs
    BY <1>2 DEF Agent, Regs
  <2>4. r.last > 1 => r'.sess[r.last] \in {r.sess[r.last], "disposed"}
                      /\ (r.sess[r.last] = "none" => r'.sess[r.last] = "none")
    BY <1>2, <1>3, <1>4, <2>3
  <2> QED
    BY <1>4, <1>6, <2>1, <2>2, <2>4 DEF IInv, RevivedAlone
<1>11. TasksDispose'
  BY <1>2, <1>3, <1>4, <1>6 DEF IInv, TasksDispose, Typed, Task
<1>12. OneDetaches'
  BY <1>3, <1>4, <1>6 DEF IInv, OneDetaches
<1>13. Unopened'
  <2>1. r.last # None
    BY <1>2, MaxRegsAssumption DEF Regs, None, Agent
  <2>2. t.of = 1 \/ r'.sess[1] = r.sess[1]
    BY <1>3, <1>4, MaxRegsAssumption DEF Regs
  <2>3. r'.last = 1 /\ r'.sess[1] = "none" => r.sess[1] = "none" /\ t.of # 1
    BY <1>3, <1>4, <2>2
  <2>4. r.last = 1 => t.of = 1
    BY <1>2 DEF Regs
  <2> QED
    BY <1>3, <1>4, <1>6, <2>1, <2>3, <2>4 DEF IInv, Unopened
<1> QED
  BY <1>7, <1>8, <1>9, <1>10, <1>11, <1>12, <1>13 DEF IInv

\* The end of a park, or of the disposal of an isolated run.
LEMMA DetachStep ==
  ASSUME IInv, NEW t \in tasks, t.op \in Detaching, t.at = "after",
         r' \in Agent, r'.cur = r.cur, r'.last = r.last, r'.kept = r.kept, r'.sess = r.sess,
         Session(r') = None, r'.adopted = NotAdopted \/ r.adopted # NotAdopted,
         tasks' = tasks \ {t}, revival' = revival
  PROVE  IInv'
<1>1. t.of \in Regs /\ t.of = r.last /\ r.sess[r.last] = "disposed" /\ r.last # None
      /\ revival.stage \notin {"factory", "opening", "creating"}
  BY DEF IInv, Typed, Task, TasksDispose, OneDetaches, RevivedAlone, Regs, None
<1>2. Active(r) = {} /\ Active(r') = {}
  BY <1>1 DEF IInv, LastActive, Active
<1>3. \A u \in tasks' : u.op \notin Detaching
  BY DEF IInv, OneDetaches
<1>4. Typed' /\ Registered' /\ LastActive' /\ TasksDispose'
  BY <1>2 DEF IInv, Typed, Registered, LastActive, TasksDispose
<1>5. RevivedAlone'
  BY <1>1, <1>2, <1>3 DEF IInv, RevivedAlone
<1>6. OneDetaches'
  BY <1>3 DEF OneDetaches, Detaching
<1>7. Unopened'
  BY <1>1 DEF Unopened
<1> QED
  BY <1>4, <1>5, <1>6, <1>7 DEF IInv

-----------------------------------------------------------------------------
\* The invariant holds before the id is first used.
LEMMA InitInv == Init => IInv
<1> SUFFICES ASSUME Init PROVE IInv
  OBVIOUS
<1>1. /\ r = NoAgent /\ tasks = {} /\ revival = NoRevival
      /\ NoAgent \in Agent /\ NoRevival \in Revival
  BY MaxRegsAssumption
  DEF Init, NoAgent, NoRevival, Agent, Revival, NotAdopted, Statuses, Regs, None
<1> QED
  BY <1>1 DEF IInv, Typed, Registered, LastActive, Active, RevivedAlone, TasksDispose, OneDetaches,
              Unopened, NoAgent, NoRevival, Session, None, Regs

\* The first registration, by a spawn or of a transcript found on disk.
LEMMA FirstStep ==
  ASSUME IInv, Spawn \/ FoundOnDisk PROVE IInv'
<1>1. /\ r.last = 0 /\ r.cur = 0 /\ r \in Agent /\ r.adopted = NotAdopted /\ revival = NoRevival
      /\ \A g \in Regs : r.sess[g] = "none"
      /\ 1 \in Regs /\ r.last < MaxRegs
  BY MaxRegsAssumption DEF IInv, Typed, Unopened, Registered, Regs, None, Spawn, FoundOnDisk
<1>2. tasks = {} /\ tasks' = tasks /\ revival' = revival
  BY <1>1 DEF IInv, TasksDispose, Spawn, FoundOnDisk, Typed, Task, Regs
<1>3. PICK st \in {"running", "parked"} :
        LET n == Register(r, st)
        IN  r' = IF st = "running" THEN n ELSE [n EXCEPT !.sess[1] = "disposed"]
  BY DEF Spawn, FoundOnDisk
<1>4. PICK n : n = Register(r, st)
  OBVIOUS
<1>5. /\ n \in Agent /\ n.cur = 1 /\ n.last = 1 /\ n.sess = r.sess /\ n.adopted = NotAdopted
      /\ Session(n) = None /\ Status(n) = st
  BY <1>1, <1>4, RegisterEffect DEF Statuses
<1>6. /\ r' \in Agent /\ r'.cur = 1 /\ r'.last = 1 /\ r'.adopted = NotAdopted
      /\ Session(r') = None /\ Status(r') = st
      /\ r'.sess[1] = (IF st = "running" THEN "none" ELSE "disposed")
      /\ \A g \in Regs \ {1} : r'.sess[g] = "none"
  <2>1. CASE st = "running"
    BY <1>1, <1>3, <1>4, <1>5, <2>1
  <2>2. CASE st = "parked"
    <3>1. PICK u : u = [n EXCEPT !.sess[1] = "disposed"]
      OBVIOUS
    <3>2. r' = u
      BY <1>3, <1>4, <2>2, <3>1
    <3>3. u \in Agent /\ u.cur = n.cur /\ u.last = n.last /\ u.adopted = n.adopted /\ u.ref = n.ref
          /\ u.sess[1] = "disposed" /\ \A g \in Regs \ {1} : u.sess[g] = n.sess[g]
      BY <1>1, <1>5, <3>1, ZenonT(60) DEF Agent
    <3> QED
      BY <1>1, <1>5, <2>2, <3>2, <3>3 DEF Session, Status
  <2> QED
    BY <2>1, <2>2
<1>7. Active(r') = {}
  BY <1>6 DEF Active
<1> QED
  BY <1>1, <1>2, <1>6, <1>7 DEF IInv, Typed, Registered, LastActive, RevivedAlone, TasksDispose,
              OneDetaches, Unopened, NoRevival, None, Regs

\* The first session is opened, or could not be.
LEMMA OpenedStep ==
  ASSUME IInv, Opened PROVE IInv'
<1>1. /\ r \in Agent /\ r.last = 1 /\ r.sess[1] = "none" /\ 1 \in Regs
      /\ revival = NoRevival /\ r.adopted = NotAdopted /\ Session(r) = None /\ Status(r) # "parked"
      /\ r.cur \in {None, 1}
  BY MaxRegsAssumption DEF IInv, Typed, Unopened, Opened, Registered, Regs
<1>2. tasks = {} /\ tasks' = tasks /\ revival' = revival
  BY <1>1 DEF IInv, TasksDispose, Opened, Typed, Task, Regs
<1>3. \A g \in Regs : r.sess[g] = "none"
  BY <1>1 DEF IInv, Registered, Regs
<1>4. CASE r' = AttachSession([r EXCEPT !.sess[1] = "live"], 1)
  <2>1. PICK n : n = [r EXCEPT !.sess[1] = "live"]
    OBVIOUS
  <2>2. /\ n \in Agent /\ n.cur = r.cur /\ n.last = 1 /\ n.adopted = NotAdopted
        /\ n.sess[1] = "live" /\ \A g \in Regs \ {1} : n.sess[g] = "none"
    BY <1>1, <1>3, <2>1 DEF Agent
  <2>3. /\ r' \in Agent /\ r'.cur = r.cur /\ r'.last = 1 /\ r'.adopted = NotAdopted
        /\ r'.sess = n.sess /\ Session(r') = IF r.cur = None THEN None ELSE 1
    BY <1>1, <1>4, <2>1, <2>2, AttachEffect, ZenonT(60)
  <2> QED
    BY <1>1, <1>2, <2>2, <2>3 DEF IInv, Typed, Registered, LastActive, Active, RevivedAlone,
       TasksDispose, OneDetaches, Unopened, NoRevival, None, Regs
<1>5. CASE r' = UnregisterUnlessParked([r EXCEPT !.sess[1] = "disposed"])
  <2>1. PICK n : n = [r EXCEPT !.sess[1] = "disposed"]
    OBVIOUS
  <2>2. /\ n \in Agent /\ n.cur = r.cur /\ n.last = 1 /\ n.adopted = NotAdopted
        /\ n.sess[1] = "disposed" /\ Session(n) = None
        /\ \A g \in Regs \ {1} : n.sess[g] = "none"
    BY <1>1, <1>3, <2>1 DEF Agent, Session
  <2>3. r' \in {n, Unregister(n)}
    BY <1>5, <2>1, <2>2, UnlessParkedEffect
  <2>4. /\ r' \in Agent /\ r'.cur \in {None, 1} /\ r'.last = 1 /\ r'.adopted = NotAdopted
        /\ r'.sess = n.sess /\ Session(r') = None
    BY <1>1, <2>2, <2>3, UnregisterEffect
  <2> QED
    BY <1>1, <1>2, <2>2, <2>4 DEF IInv, Typed, Registered, LastActive, Active, RevivedAlone,
       TasksDispose, OneDetaches, Unopened, NoRevival, None, Regs
<1> QED
  BY <1>4, <1>5 DEF Opened

\* The end of a run that is kept alive.
LEMMA FinishKeepAliveStep ==
  ASSUME IInv, NEW b \in BOOLEAN, FinishKeepAlive(b) PROVE IInv'
<1>1. /\ r \in Agent /\ r.sess[1] = "live" /\ 1 \notin r.kept /\ 1 \in Regs /\ r.last = 1
      /\ tasks' = tasks /\ revival' = revival
  BY MaxRegsAssumption DEF IInv, Typed, LastActive, Active, FinishKeepAlive, Regs
<1>2. PICK n : n = [r EXCEPT !.kept = @ \cup {1}]
  OBVIOUS
<1>3. /\ n \in Agent /\ n.cur = r.cur /\ n.last = r.last /\ n.sess = r.sess
      /\ n.kept = r.kept \cup {1} /\ Session(n) = Session(r)
  BY <1>1, <1>2 DEF Agent, Session
<1>4. PICK u : u = SetStatus(n, "idle")
  OBVIOUS
<1>5. /\ u \in Agent /\ u.cur = r.cur /\ u.last = r.last /\ u.sess = r.sess
      /\ u.kept = n.kept /\ Session(u) = Session(r)
  BY <1>3, <1>4, SetStatusEffect DEF Statuses
<1>6. r' = Adopt(u, b)
  BY <1>2, <1>4 DEF FinishKeepAlive
<1>7. /\ r' \in Agent /\ r'.cur = r.cur /\ r'.last = r.last /\ r'.sess = r.sess
      /\ r'.kept = r.kept \cup {1} /\ Session(r') = Session(r)
  BY <1>3, <1>5, <1>6, AdoptEffect
<1>8. Typed' /\ Registered' /\ LastActive' /\ RevivedAlone' /\ TasksDispose'
  BY <1>1, <1>7 DEF IInv, Typed, Registered, LastActive, RevivedAlone, TasksDispose, Active
<1>9. OneDetaches'
  <2>1. \A t \in tasks : t.op \notin Detaching
    BY <1>1 DEF IInv, OneDetaches, TasksDispose
  <2> QED
    BY <1>1, <2>1 DEF OneDetaches, Detaching
<1>10. Unopened'
  BY <1>1, <1>7 DEF Unopened, None
<1> QED
  BY <1>8, <1>9, <1>10 DEF IInv

\* The end of a run that is not.
LEMMA FinishAndDisposeStep ==
  ASSUME IInv, NEW op \in {"aborted", "oneshot", "isolated"}, FinishAndDispose(op) PROVE IInv'
<1>1. /\ r \in Agent /\ r.sess[1] = "live" /\ 1 \notin r.kept /\ 1 \in Regs /\ r.last = 1
      /\ r.adopted = NotAdopted
      /\ tasks' = tasks \cup {Waiting(op, 1)} /\ revival' = revival
  BY MaxRegsAssumption DEF IInv, Typed, LastActive, Active, FinishAndDispose, Unopened, Regs
<1>2. Active(r) # {} /\ (r.cur = None \/ Session(r) = 1)
  BY <1>1 DEF IInv, LastActive, Active
<1>3. PICK u : u = CASE op = "aborted"  -> SetStatus(r, "aborted")
                     [] op = "oneshot"  -> r
                     [] op = "isolated" -> SetStatus(r, "parked")
  OBVIOUS
<1>4. u = SetStatus(r, "aborted") \/ u = r \/ u = SetStatus(r, "parked")
  BY <1>3
<1>5. /\ u \in Agent /\ u.cur = r.cur /\ u.last = r.last /\ u.sess = r.sess
      /\ u.kept = r.kept /\ Session(u) = Session(r) /\ u.adopted = NotAdopted
  BY <1>1, <1>4, SetStatusEffect DEF Statuses
<1>6. r' = BeginDispose(u, 1)
  BY <1>3 DEF FinishAndDispose
<1>7. /\ r' \in Agent /\ r'.cur = r.cur /\ r'.last = r.last /\ r'.kept = r.kept
      /\ Session(r') = Session(r) /\ r'.adopted = NotAdopted
      /\ r'.sess[1] = (IF r.sess[1] = "disposed" THEN "disposed" ELSE "disposing")
      /\ \A g \in Regs \ {1} : r'.sess[g] = r.sess[g]
  BY <1>1, <1>5, <1>6, BeginDisposeEffect
<1>8. \A t \in tasks : t.op \notin Detaching
  BY <1>1 DEF IInv, OneDetaches, TasksDispose
<1>9. revival.stage \notin {"factory", "opening", "creating"}
  BY <1>2 DEF IInv, RevivedAlone
<1> QED
  BY <1>1, <1>2, <1>7, <1>8, <1>9, DisposeStep DEF Detaching

\* A turn begins or ends.
LEMMA TurnStep ==
  ASSUME IInv, NEW s \in Regs, NEW status \in {"running", "idle"}, Turn(s, status) PROVE IInv'
<1>1. r \in Agent /\ status \in Statuses /\ r' = SetStatus(r, status) /\ tasks' = tasks /\ revival' = revival
  BY DEF IInv, Typed, Turn, Statuses
<1>2. /\ r' \in Agent /\ r'.cur = r.cur /\ r'.last = r.last /\ r'.sess = r.sess /\ r'.kept = r.kept
      /\ Session(r') = Session(r) /\ (r.adopted = NotAdopted => r'.adopted = NotAdopted)
  BY <1>1, SetStatusEffect
<1>3. r.last = 1 /\ r.sess[1] = "none" => s # 1 /\ r.sess[s] = "none"
  BY DEF IInv, Registered, Turn, Regs
<1>4. ~(r.last = 1 /\ r.sess[1] = "none")
  BY <1>3 DEF Turn
<1> QED
  BY <1>1, <1>2, <1>4, FrameStep

\* The idle timer fires.
LEMMA TimerStep ==
  ASSUME IInv, TimerFires PROVE IInv'
<1>1. r \in Agent /\ r.adopted.timer /\ revival' = revival /\ r.cur \in {None, r.last}
      /\ r.adopted # NotAdopted
  BY DEF IInv, Typed, Registered, TimerFires, NotAdopted
<1>2. PICK n : n = [r EXCEPT !.adopted.timer = FALSE]
  OBVIOUS
<1>3. /\ n \in Agent /\ n.cur = r.cur /\ n.last = r.last /\ n.sess = r.sess /\ n.kept = r.kept
      /\ Session(n) = Session(r) /\ Status(n) = Status(r)
  BY <1>1, <1>2 DEF Agent, Session, Status
<1>4. CASE Session(r) = None
  <2>1. r' = n /\ tasks' = tasks
    BY <1>2, <1>4 DEF TimerFires
  <2> QED
    BY <1>1, <1>3, <2>1, FrameStep DEF IInv, Unopened
<1>5. CASE Session(r) # None
  <2>1. Session(r) = r.last /\ r.last \in Regs /\ r.sess[r.last] # "none"
    BY <1>1, <1>5, MaxRegsAssumption DEF IInv, Registered, Agent, Regs, None
  <2>2. r' = BeginDispose(n, r.last) /\ tasks' = tasks \cup {Waiting("park", r.last)}
    BY <1>2, <1>5, <2>1 DEF TimerFires, BeginPark
  <2>3. /\ r' \in Agent /\ r'.cur = r.cur /\ r'.last = r.last /\ r'.kept = r.kept
        /\ Session(r') = Session(r)
        /\ r'.sess[r.last] = (IF r.sess[r.last] = "disposed" THEN "disposed" ELSE "disposing")
        /\ \A g \in Regs \ {r.last} : r'.sess[g] = r.sess[g]
    BY <1>3, <2>1, <2>2, BeginDisposeEffect
  <2>4. \A t \in tasks : t.op \notin Detaching
    BY <1>1 DEF IInv, OneDetaches, Detaching, TimerFires
  <2>5. revival.stage \notin {"factory", "opening", "creating"}
    BY <1>5 DEF IInv, RevivedAlone
  <2>6. Session(r) = r.last /\ "park" \in Detaching
    BY <2>1 DEF Detaching
  <2> QED
    BY <1>1, <2>1, <2>2, <2>3, <2>4, <2>5, <2>6, DisposeStep
<1> QED
  BY <1>4, <1>5
\* What follows a disposal.
LEMMA ResumeStep ==
  ASSUME IInv, NEW t \in tasks, Resume(t) PROVE IInv'
<1>1. r \in Agent /\ tasks' = tasks \ {t} /\ revival' = revival /\ t.at = "after" /\ t.of <= r.last
      /\ t.op \in {"park", "isolated", "oneshot", "release", "release_orphan", "aborted"}
  BY DEF IInv, Typed, TasksDispose, Task, Detaching, Resume
<1>2. t.of \in Regs /\ r.sess[t.of] = "disposed"
  BY <1>1 DEF IInv, Typed, TasksDispose, Task
<1>3. ~(r.last = 1 /\ r.sess[1] = "none")
  BY <1>1, <1>2 DEF Regs
<1>4. PICK d : d = DetachSession(r)
  OBVIOUS
<1>5. /\ d \in Agent /\ d.cur = r.cur /\ d.last = r.last /\ d.sess = r.sess /\ d.kept = r.kept
      /\ d.adopted = r.adopted /\ Session(d) = None
  BY <1>1, <1>4, DetachEffect
<1>6. CASE t.op = "park"
  <2>1. r' = SetStatus(d, "parked")
    BY <1>4, <1>6 DEF Resume, MarkParked
  <2>2. /\ r' \in Agent /\ r'.cur = r.cur /\ r'.last = r.last /\ r'.sess = r.sess
        /\ r'.kept = r.kept /\ (r.adopted = NotAdopted => r'.adopted = NotAdopted)
        /\ Session(r') = None
    BY <1>5, <2>1, SetStatusEffect DEF Statuses, Session
  <2> QED
    BY <1>1, <1>6, <2>2, DetachStep DEF Detaching
<1>7. CASE t.op = "isolated"
  <2>1. r' = d
    BY <1>4, <1>7 DEF Resume
  <2> QED
    BY <1>1, <1>5, <1>7, <2>1, DetachStep DEF Detaching
<1>8. CASE t.op \in {"oneshot", "release", "release_orphan"}
  <2>1. r' = Unregister(r) \/ r' = Unregister(d)
    BY <1>4, <1>8 DEF Resume
  <2>2. /\ r' \in Agent /\ r'.cur = None /\ r'.last = r.last /\ r'.sess = r.sess /\ r'.kept = r.kept
        /\ r'.adopted \in {r.adopted, NotAdopted} /\ Session(r') = None
    BY <1>1, <1>5, <2>1, UnregisterEffect
  <2> QED
    BY <1>1, <1>3, <2>2, FrameStep
<1>9. CASE t.op = "aborted"
  <2>1. r' = r
    BY <1>9 DEF Resume
  <2>2. r'.cur = r.cur /\ Session(r') = Session(r)
    BY <2>1
  <2> QED
    BY <1>1, <1>3, <2>1, <2>2, FrameStep
<1> QED
  BY <1>1, <1>6, <1>7, <1>8, <1>9

\* release(id), with and without a session.
LEMMA ReleaseStep ==
  ASSUME IInv, Release PROVE IInv'
<1>1. r \in Agent /\ revival' = revival /\ r.last # None /\ r.cur \in {None, r.last}
  BY DEF IInv, Typed, Registered, Release
<1>2. PICK n : n = [r EXCEPT !.adopted = NotAdopted]
  OBVIOUS
<1>3. NotAdopted \in [by : {"nobody", "executor", "cold"}, revive : BOOLEAN, timer : BOOLEAN]
  BY DEF NotAdopted
<1>4. /\ n \in Agent /\ n.cur = r.cur /\ n.last = r.last /\ n.sess = r.sess /\ n.kept = r.kept
      /\ n.adopted = NotAdopted /\ Session(n) = Session(r)
  BY <1>1, <1>2, <1>3 DEF Agent, Session
<1>5. CASE Session(r) = None
  <2>1. r' = Unregister(n) /\ tasks' = tasks
    BY <1>2, <1>5 DEF Release
  <2>2. /\ r' \in Agent /\ r'.cur = None /\ r'.last = r.last /\ r'.sess = r.sess /\ r'.kept = r.kept
        /\ r'.adopted = NotAdopted /\ Session(r') = None /\ Status(r') = "none"
    BY <1>4, <2>1, UnregisterEffect
  <2> QED
    BY <1>1, <2>1, <2>2, FrameStep
<1>6. CASE Session(r) # None
  <2>1. Session(r) = r.last /\ r.last \in Regs /\ r.sess[r.last] # "none"
    BY <1>1, <1>6, MaxRegsAssumption DEF IInv, Registered, Agent, Regs, None
  <2>2. PICK op \in {"release", "release_orphan"} :
          r' = BeginDispose(n, r.last) /\ tasks' = tasks \cup {Waiting(op, r.last)}
    BY <1>2, <1>6, <2>1 DEF Release
  <2>3. /\ r' \in Agent /\ r'.cur = r.cur /\ r'.last = r.last /\ r'.kept = r.kept
        /\ Session(r') = Session(r) /\ r'.adopted = NotAdopted
        /\ r'.sess[r.last] = (IF r.sess[r.last] = "disposed" THEN "disposed" ELSE "disposing")
        /\ \A g \in Regs \ {r.last} : r'.sess[g] = r.sess[g]
    BY <1>4, <2>1, <2>2, BeginDisposeEffect
  <2>4. op \notin Detaching
    BY <2>2 DEF Detaching
  <2> QED
    BY <1>1, <2>1, <2>2, <2>3, <2>4, DisposeStep
<1> QED
  BY <1>5, <1>6

\* A revive is begun only when the registry shows no session.
LEMMA EnsureLiveStep ==
  ASSUME IInv, NEW c \in Callers, EnsureLive(c) PROVE IInv'
<1>1. r' = r /\ tasks' = tasks /\ r \in Agent
  BY DEF IInv, Typed, EnsureLive
<1>2. CASE revival' = revival
  BY <1>1, <1>2 DEF IInv, Typed, Registered, LastActive, Active, RevivedAlone, TasksDispose,
                   OneDetaches, Unopened, Session, Status
<1>3. CASE revival' # revival
  <2>1. PICK stage \in {"factory", "opening"} :
          revival' = [ref |-> r.cur, stage |-> stage, cold |-> FALSE]
    BY <1>3 DEF EnsureLive
  <2>2. r.cur # None /\ Session(r) = None /\ revival = NoRevival /\ r.last < MaxRegs
        /\ Status(r) = "parked" /\ r.last = r.cur
    BY <1>3 DEF EnsureLive, Revivable, Status, IInv, Registered
  <2>3. revival' \in Revival /\ revival'.stage \in {"factory", "opening"}
    BY <1>1, <2>1 DEF Revival, Agent
  <2>4. Active(r) = {}
    BY <2>2 DEF IInv, LastActive
  <2>5. \A t \in tasks : t.op \notin Detaching
    BY <2>2 DEF IInv, OneDetaches
  <2>6. ~(r.last = 1 /\ r.sess[1] = "none")
    BY <2>2 DEF IInv, Unopened
  <2>7. Typed' /\ Registered' /\ LastActive' /\ TasksDispose' /\ OneDetaches'
    BY <1>1, <2>3 DEF IInv, Typed, Registered, LastActive, Active, TasksDispose, OneDetaches, Session
  <2>8. RevivedAlone'
    BY <1>1, <2>2, <2>3, <2>4, <2>5 DEF RevivedAlone, Active, Session
  <2>9. Unopened'
    BY <1>1, <2>2, <2>6 DEF IInv, Unopened
  <2> QED
    BY <2>7, <2>8, <2>9 DEF IInv
<1> QED
  BY <1>2, <1>3

\* The factory has found a transcript, or none.
LEMMA FactoryAnswersStep ==
  ASSUME IInv, NEW found \in BOOLEAN, FactoryAnswers(found) PROVE IInv'
<1>1. /\ r \in Agent /\ revival \in Revival /\ revival.stage = "factory" /\ tasks' = tasks
      /\ r.last < MaxRegs /\ r.last # None /\ Active(r) = {} /\ Session(r) = None
      /\ \A t \in tasks : t.op \notin Detaching
  BY DEF IInv, Typed, RevivedAlone, FactoryAnswers
<1>2. /\ r' \in Agent /\ r'.cur = r.cur /\ r'.last = r.last /\ r'.sess = r.sess /\ r'.kept = r.kept
      /\ Session(r') = None
  <2>1. PICK n : n = [r EXCEPT !.adopted = [by |-> "cold", revive |-> TRUE, timer |-> FALSE]]
    OBVIOUS
  <2>2. /\ n \in Agent /\ n.cur = r.cur /\ n.last = r.last /\ n.sess = r.sess /\ n.kept = r.kept
        /\ n.ref = r.ref
    BY <1>1, <2>1 DEF Agent
  <2>3. r' = n \/ r' = r
    BY <2>1 DEF FactoryAnswers
  <2> QED
    BY <1>1, <2>2, <2>3 DEF Session
<1>3. revival' \in Revival /\ revival'.stage \in {"opening", "none"}
  <2>1. NoRevival \in Revival /\ NoRevival.stage = "none"
    BY MaxRegsAssumption DEF NoRevival, Revival, None
  <2>2. [revival EXCEPT !.stage = "opening", !.cold = TRUE] \in Revival
        /\ [revival EXCEPT !.stage = "opening", !.cold = TRUE].stage = "opening"
    BY <1>1 DEF Revival
  <2> QED
    BY <2>1, <2>2 DEF FactoryAnswers
<1>4. ~(r.last = 1 /\ r.sess[1] = "none") /\ ~(r.last = 1 /\ r.sess[1] = "live")
  BY <1>1, MaxRegsAssumption DEF IInv, Unopened, NoRevival, Active, Regs
<1>5. Active(r') = {} /\ Active(r) = {}
  BY <1>1, <1>2 DEF Active
<1>6. Typed' /\ Registered' /\ LastActive' /\ TasksDispose'
  BY <1>1, <1>2, <1>3, <1>5 DEF IInv, Typed, Registered, LastActive, TasksDispose
<1>7. RevivedAlone'
  BY <1>1, <1>2, <1>3, <1>5 DEF RevivedAlone
<1>8. OneDetaches'
  BY <1>1 DEF OneDetaches, Detaching
<1>9. Unopened'
  BY <1>1, <1>2, <1>4 DEF Unopened
<1> QED
  BY <1>6, <1>7, <1>8, <1>9 DEF IInv

\* The revive registers the id again.
LEMMA ReregisterStep ==
  ASSUME IInv, Reregister PROVE IInv'
<1>1. /\ r \in Agent /\ revival \in Revival /\ revival.stage = "opening" /\ tasks' = tasks
      /\ r.last < MaxRegs /\ r.last # None /\ Active(r) = {}
      /\ \A t \in tasks : t.op \notin Detaching
  BY DEF IInv, Typed, RevivedAlone, Reregister
<1>2. r' = Register(r, "running") /\ revival' = [revival EXCEPT !.stage = "creating"]
  BY DEF Reregister
<1>3. /\ r' \in Agent /\ r'.cur = r.last + 1 /\ r'.last = r.last + 1 /\ r'.sess = r.sess
      /\ Session(r') = None
  BY <1>1, <1>2, RegisterEffect DEF Statuses
<1>4. revival' \in Revival /\ revival'.stage = "creating"
  BY <1>1, <1>2 DEF Revival
<1>5. r.last \in Nat /\ r'.last \in Regs /\ r'.last > 1 /\ r.sess[r'.last] = "none"
  <2>1. r.last \in 0..MaxRegs /\ MaxRegs \in Nat
    BY <1>1, MaxRegsAssumption DEF Agent
  <2>2. PICK l \in Nat : l = r.last /\ l < MaxRegs /\ l # 0
    BY <1>1, <2>1 DEF None
  <2>3. r'.last = l + 1 /\ l + 1 \in Regs /\ l + 1 > 1 /\ l + 1 > l
    BY <1>3, <2>1, <2>2 DEF Regs
  <2>4. r.sess[l + 1] = "none"
    BY <2>2, <2>3 DEF IInv, Registered
  <2> QED
    BY <2>2, <2>3, <2>4
<1>6. Active(r') = {}
  BY <1>1, <1>3 DEF Active
<1>7. Typed' /\ LastActive'
  BY <1>1, <1>3, <1>4, <1>6 DEF IInv, Typed, LastActive
<1>8. Registered'
  BY <1>3, <1>5 DEF IInv, Registered, Regs
<1>9. RevivedAlone'
  BY <1>1, <1>3, <1>4, <1>5, <1>6 DEF RevivedAlone, None
<1>10. TasksDispose'
  BY <1>1, <1>3, <1>5 DEF IInv, TasksDispose, Typed, Task, Regs
<1>11. OneDetaches'
  BY <1>1 DEF OneDetaches, Detaching
<1>12. Unopened'
  BY <1>5 DEF Unopened, None
<1> QED
  BY <1>7, <1>8, <1>9, <1>10, <1>11, <1>12 DEF IInv

\* The only step that makes a second session live finds no other active.
LEMMA ReattachedStep ==
  ASSUME IInv, Reattached PROVE IInv'
<1>1. /\ r \in Agent /\ revival \in Revival /\ revival.stage = "creating" /\ tasks' = tasks
      /\ r.last > 1 /\ r.last \in Regs /\ Active(r) = {} /\ r.cur \in {None, r.last}
      /\ r.sess[r.last] = "none" /\ \A t \in tasks : t.op \notin Detaching
  BY DEF IInv, Typed, RevivedAlone, Registered, Reattached, Agent, Regs
<1>2. PICK n : n = [r EXCEPT !.sess[r.last] = "live"]
  OBVIOUS
<1>3. /\ n \in Agent /\ n.cur = r.cur /\ n.last = r.last
      /\ n.sess[r.last] = "live" /\ \A g \in Regs \ {r.last} : n.sess[g] = r.sess[g]
  BY <1>1, <1>2 DEF Agent
<1>4. r' = AttachSession(n, r.last) /\ revival' = [revival EXCEPT !.stage = "attached"]
  BY <1>2 DEF Reattached
<1>5. /\ r' \in Agent /\ r'.cur = r.cur /\ r'.last = r.last /\ r'.sess = n.sess
      /\ Session(r') = IF r.cur = None THEN None ELSE r.last
  BY <1>1, <1>3, <1>4, AttachEffect
<1>6. revival' \in Revival /\ revival'.stage = "attached"
  BY <1>1, <1>4 DEF Revival
<1>7. Active(r') = {r.last}
  BY <1>1, <1>3, <1>5 DEF Active
<1>8. Typed' /\ LastActive'
  BY <1>1, <1>5, <1>6, <1>7 DEF IInv, Typed, LastActive
<1>9. Registered'
  BY <1>1, <1>3, <1>5 DEF IInv, Registered, Regs
<1>10. RevivedAlone'
  BY <1>1, <1>3, <1>5, <1>6 DEF RevivedAlone
<1>11. TasksDispose'
  <2>1. \A t \in tasks : t.of # r.last
    BY <1>1 DEF IInv, TasksDispose
  <2> QED
    BY <1>1, <1>3, <1>5, <2>1 DEF IInv, TasksDispose, Typed, Task
<1>12. OneDetaches'
  BY <1>1 DEF OneDetaches, Detaching
<1>13. Unopened'
  BY <1>1, <1>5 DEF Unopened, None
<1> QED
  BY <1>8, <1>9, <1>10, <1>11, <1>12, <1>13 DEF IInv
\* The revive ends well.
LEMMA RevivedStep ==
  ASSUME IInv, Revived PROVE IInv'
<1>1. /\ r \in Agent /\ revival.stage = "attached" /\ tasks' = tasks /\ revival' = NoRevival
      /\ r.last > 1 /\ r.last \in Regs /\ r.sess[r.last] # "none" /\ r.cur \in {None, r.last}
  BY DEF IInv, Typed, RevivedAlone, Registered, Revived, Agent, Regs
<1>2. PICK n : n = [r EXCEPT !.kept = @ \cup {r.last}]
  OBVIOUS
<1>3. /\ n \in Agent /\ n.cur = r.cur /\ n.last = r.last /\ n.sess = r.sess /\ n.adopted = r.adopted
  BY <1>1, <1>2 DEF Agent
<1>4. PICK u : u = AttachSession(n, r.last)
  OBVIOUS
<1>5. /\ u \in Agent /\ u.cur = r.cur /\ u.last = r.last /\ u.sess = r.sess /\ u.adopted = r.adopted
      /\ Session(u) = IF r.cur = None THEN None ELSE r.last
  BY <1>1, <1>3, <1>4, AttachEffect
<1>6. r' = SetStatus(u, "idle")
  BY <1>2, <1>4 DEF Revived
<1>7. /\ r' \in Agent /\ r'.cur = r.cur /\ r'.last = r.last /\ r'.sess = r.sess
      /\ Session(r') = (IF r.cur = None THEN None ELSE r.last)
      /\ (r.adopted = NotAdopted => r'.adopted = NotAdopted)
  BY <1>5, <1>6, SetStatusEffect DEF Statuses, Session
<1>8. NoRevival \in Revival /\ NoRevival.stage = "none"
  BY MaxRegsAssumption DEF NoRevival, Revival, None
<1>9. Typed' /\ Registered' /\ LastActive' /\ TasksDispose'
  BY <1>1, <1>7, <1>8 DEF IInv, Typed, Registered, LastActive, Active, TasksDispose
<1>10. RevivedAlone'
  BY <1>1, <1>8 DEF RevivedAlone
<1>11. OneDetaches'
  BY <1>1, <1>7 DEF IInv, OneDetaches
<1>12. Unopened'
  BY <1>1, <1>7 DEF Unopened, None
<1> QED
  BY <1>9, <1>10, <1>11, <1>12 DEF IInv

\* The revive fails with nothing to dispose of.
LEMMA ReviveFailsStep ==
  ASSUME IInv, ReviveFails PROVE IInv'
<1>1. r \in Agent /\ tasks' = tasks /\ revival' = NoRevival /\ revival # NoRevival
  BY DEF IInv, Typed, ReviveFails, Failed, NoRevival
<1>2. PICK n \in {r, Unregister(r)} : r' = DropCold(n)
  BY <1>1, UnlessParkedEffect DEF ReviveFails
<1>3. /\ n \in Agent /\ n.last = r.last /\ n.sess = r.sess /\ n.kept = r.kept
      /\ n.adopted \in {r.adopted, NotAdopted}
      /\ \/ n.cur = r.cur /\ Session(n) = Session(r)
         \/ n.cur = None /\ Session(n) = None
  BY <1>1, <1>2, UnregisterEffect
<1>4. /\ r' \in Agent /\ r'.last = r.last /\ r'.sess = r.sess /\ r'.kept = r.kept
      /\ r'.adopted \in {r.adopted, NotAdopted}
      /\ \/ r'.cur = r.cur /\ Session(r') = Session(r)
         \/ r'.cur = None /\ Session(r') = None
  BY <1>2, <1>3, DropColdEffect
<1>5. ~(r.last = 1 /\ r.sess[1] = "none")
  BY <1>1 DEF IInv, Unopened
<1> QED
  BY <1>1, <1>4, <1>5, FrameStep

\* The revive fails after the attach and begins to dispose of the session.
LEMMA SetupFailsStep ==
  ASSUME IInv, SetupFails PROVE IInv'
<1>1. /\ r \in Agent /\ revival.stage = "attached" /\ r.last \in Regs /\ r.sess[r.last] # "none"
      /\ tasks' = tasks \cup {Waiting("revive", r.last)}
      /\ revival' = [revival EXCEPT !.stage = "failing"]
  BY DEF IInv, Typed, RevivedAlone, SetupFails, Agent, Regs
<1>2. r' = BeginDispose(r, r.last)
  BY DEF SetupFails
<1>3. /\ r' \in Agent /\ r'.cur = r.cur /\ r'.last = r.last /\ r'.kept = r.kept
      /\ r'.adopted = r.adopted /\ Session(r') = Session(r)
      /\ r'.sess[r.last] = (IF r.sess[r.last] = "disposed" THEN "disposed" ELSE "disposing")
      /\ \A g \in Regs \ {r.last} : r'.sess[g] = r.sess[g]
  BY <1>1, <1>2, BeginDisposeEffect
<1>4. "revive" \notin Detaching /\ "revive" # "isolated"
  BY DEF Detaching
<1> QED
  BY <1>1, <1>3, <1>4, DisposeStep

\* The failed revive ends once its session is disposed of.
LEMMA SetupFailedStep ==
  ASSUME IInv, NEW t \in tasks, SetupFailed(t) PROVE IInv'
<1>1. r \in Agent /\ tasks' = tasks \ {t} /\ revival' = NoRevival /\ r' = DropCold(r)
      /\ t.of \in Regs /\ t.of <= r.last /\ r.sess[t.of] = "disposed"
  BY DEF IInv, Typed, TasksDispose, Task, SetupFailed, Failed
<1>2. /\ r' \in Agent /\ r'.cur = r.cur /\ r'.last = r.last /\ r'.sess = r.sess /\ r'.kept = r.kept
      /\ r'.adopted \in {r.adopted, NotAdopted} /\ Session(r') = Session(r)
  BY <1>1, DropColdEffect
<1>3. ~(r.last = 1 /\ r.sess[1] = "none")
  BY <1>1 DEF Regs
<1> QED
  BY <1>1, <1>2, <1>3, FrameStep

\* Steps of the callers alone change nothing here.
LEMMA StutterStep ==
  ASSUME IInv, r' = r, tasks' = tasks, revival' = revival PROVE IInv'
BY DEF IInv, Typed, Registered, LastActive, Active, RevivedAlone, TasksDispose,
       OneDetaches, Unopened, Session, Status

-----------------------------------------------------------------------------
\* Every step of the agent, of its coroutines and of its callers keeps the
\* inductive invariant.
LEMMA NextStep == IInv /\ [Next]_vars => IInv'
<1> SUFFICES ASSUME IInv, [Next]_vars PROVE IInv'
  OBVIOUS
<1>1. CASE Spawn \/ FoundOnDisk
  BY <1>1, FirstStep
<1>2. CASE Opened
  BY <1>2, OpenedStep
<1>3. CASE \E revivable \in BOOLEAN : FinishKeepAlive(revivable)
  BY <1>3, FinishKeepAliveStep
<1>4. CASE \E op \in {"aborted", "oneshot", "isolated"} : FinishAndDispose(op)
  BY <1>4, FinishAndDisposeStep
<1>5. CASE \E s \in Regs, status \in {"running", "idle"} : Turn(s, status)
  BY <1>5, TurnStep
<1>6. CASE TimerFires
  BY <1>6, TimerStep
<1>7. CASE \E t \in tasks : Disposed(t) \/ Resume(t) \/ SetupFailed(t)
  BY <1>7, DisposedStep, ResumeStep, SetupFailedStep
<1>8. CASE Release
  BY <1>8, ReleaseStep
<1>9. CASE \E c \in Callers : EnsureLive(c) \/ CallerDone(c)
  <2>1. ASSUME NEW c \in Callers, EnsureLive(c) PROVE IInv'
    BY <2>1, EnsureLiveStep
  <2>2. ASSUME NEW c \in Callers, CallerDone(c) PROVE IInv'
    BY <2>2, StutterStep DEF CallerDone
  <2> QED
    BY <1>9, <2>1, <2>2
<1>10. CASE \E found \in BOOLEAN : FactoryAnswers(found)
  BY <1>10, FactoryAnswersStep
<1>11. CASE Reregister \/ Reattached \/ Revived \/ ReviveFails \/ SetupFails
  BY <1>11, ReregisterStep, ReattachedStep, RevivedStep, ReviveFailsStep, SetupFailsStep
<1>12. CASE UNCHANGED vars
  BY <1>12, StutterStep DEF vars
<1> QED
  BY <1>1, <1>2, <1>3, <1>4, <1>5, <1>6, <1>7, <1>8, <1>9, <1>10, <1>11, <1>12 DEF Next

\* The inductive invariant holds for any number of callers and registrations.
THEOREM LifecycleInvariant == Spec => []IInv
BY InitInv, NextStep, PTL DEF Spec

\* The transcript of one agent id has at most one undisposed session as its
\* writer, for any number of callers that revive it (agent-lifecycle.ts
\* ensureLive) while it is parked, disposed or released.
THEOREM OneWriterAlways == Spec => []OneWriter
<1>1. IInv => OneWriter
  <2> SUFFICES ASSUME IInv PROVE Cardinality(Active(r)) <= 1
    BY DEF OneWriter, Active
  <2>1. IsFiniteSet({r.last}) /\ Cardinality({r.last}) = 1
    BY FS_Singleton
  <2>2. Active(r) \subseteq {r.last}
    BY DEF IInv, LastActive
  <2> QED
    BY <2>1, <2>2, FS_Subset
<1> QED
  BY <1>1, LifecycleInvariant, PTL
-----------------------------------------------------------------------------
\* A session that the registry knows to be kept exists; while a revive creates or
\* disposes of one, no timer is armed, nothing detaches and the new session is not
\* yet kept; and only a failing revive has a coroutine, one.
ReviveQuiet ==
  /\ \A g \in r.kept : r.sess[g] # "none"
  /\ revival.stage \in {"creating", "attached", "failing"} =>
       /\ ~r.adopted.timer /\ r.last \notin r.kept
       /\ \A t \in tasks : t.op \notin Detaching
  /\ revival.stage \in {"creating", "attached"} => Status(r) # "parked"
  /\ revival.stage = "failing" => r.sess[r.last] \in {"disposing", "disposed"}
  /\ \A t \in tasks : t.op = "revive" => revival.stage = "failing"
  /\ \A t, u \in tasks : t.op = "revive" /\ u.op = "revive" => t = u

\* The timer is armed only for an idle agent, and not while a park is under way.
TimerArmed == /\ r.adopted.timer => Status(r) = "idle"
              /\ \A t \in tasks : t.op = "park" => ~r.adopted.timer

\* An agent marked parked that still shows a session is about to lose it.
ParkedDetached == Status(r) = "parked" /\ Session(r) # None => \E t \in tasks : t.op = "isolated"

\* Before a release one coroutine at most is under way, of the newest session; one
\* that leaves the agent unregistered finds it so once the session is disposed of.
OneTask == ~released =>
  /\ \A t, u \in tasks : t = u
  /\ \A t \in tasks :
       /\ t.of = r.last /\ t.op \notin {"release", "release_orphan"}
       /\ t.op \in {"aborted", "oneshot"} =>
            r.adopted = NotAdopted /\ (t.at = "dispose" => r.sess[r.last] = "disposing")
       /\ t.op \in {"aborted", "oneshot", "revive"} =>
            IF t.at = "after" THEN r.cur = None ELSE Status(r) # "parked"
  /\ parking => \E t \in tasks : t.op = "park"

\* Before a release an agent is forgotten only with all its sessions, while none is
\* being revived, and one with a live session is running or idle.
Reachable == ~released =>
  /\ r.cur = None => Active(r) = {} /\ revival.stage \in {"none", "failing"}
  /\ revival.stage = "attached" => r.sess[r.last] = "live"
  /\ revival.stage = "creating" => Status(r) = "running"
  /\ r.last = 1 /\ r.sess[1] = "none" => Status(r) = "running"
  /\ \A g \in Live : Status(r) \in {"running", "idle"}
  /\ r.sess[1] = "live" /\ 1 \in r.kept => r.adopted.by # "nobody"

\* A resting agent that is adopted has its timer; the agent is not idle before the
\* revive that brought it back is over, and whoever has adopted it by then arms it.
TimerRests == /\ Resting /\ Adopted => r.adopted.timer
              /\ revival.stage \in {"creating", "attached"} => Status(r) # "idle"

\* Before a release, an agent that was revived is not adopted, and so never parked
\* and never revived again.
FirstOwned == ~released /\ r.last > 1 =>
  /\ r.adopted = NotAdopted /\ Status(r) # "parked"
  /\ \A t \in tasks : t.op # "park"
  /\ revival.stage \notin {"factory", "opening"}

\* What is inductive relative to IInv.
Seen == /\ ReviveQuiet /\ TimerArmed /\ ParkedDetached /\ OneTask /\ Reachable
        /\ TimerRests /\ FirstOwned

-----------------------------------------------------------------------------
\* setStatus and the timer of the adoption.
LEMMA SetStatusTimer ==
  ASSUME NEW t \in Agent, NEW st \in Statuses
  PROVE  /\ SetStatus(t, st).adopted.by = t.adopted.by
         /\ ~t.adopted.timer /\ st # "idle" => ~SetStatus(t, st).adopted.timer
         /\ st = "running" /\ (t.adopted.timer => Status(t) = "idle") => ~SetStatus(t, st).adopted.timer
         /\ st = "idle" /\ t.cur # None /\ t.adopted # NotAdopted /\ Status(t) # st
              => SetStatus(t, st).adopted.timer
<1> DEFINE u == [t EXCEPT !.ref[t.cur].status = st]
<1>1. CASE t.cur = None \/ Status(t) = st
  BY <1>1 DEF SetStatus, Status
<1>2. CASE ~(t.cur = None \/ Status(t) = st)
  <2>1. u.adopted = t.adopted /\ u \in [cur : 0..MaxRegs, last : 0..MaxRegs, 
          ref : {u.ref}, adopted : {t.adopted}, sess : {t.sess}, kept : {t.kept}]
    BY DEF Agent
  <2>2. SetStatus(t, st) = OnStatus(u, st)
    BY <1>2 DEF SetStatus
  <2> HIDE DEF u
  <2>3. CASE t.adopted = NotAdopted
    BY <2>1, <2>2, <2>3 DEF OnStatus, NotAdopted
  <2>4. CASE t.adopted # NotAdopted
    <3>1. PICK v : v = [u EXCEPT !.adopted.timer = (st = "idle") \/ (@ /\ st # "running")]
      OBVIOUS
    <3>2. v.adopted.timer = ((st = "idle") \/ (t.adopted.timer /\ st # "running"))
          /\ v.adopted.by = t.adopted.by
      BY <2>1, <3>1 DEF Agent
    <3>3. SetStatus(t, st) = v
      BY <2>1, <2>2, <2>4, <3>1 DEF OnStatus
    <3> QED
      BY <3>2, <3>3
  <2> QED
    BY <2>3, <2>4
<1> QED
  BY <1>1, <1>2

\* unregister, of an agent that is registered whenever its timer is armed.
LEMMA UnregisterTimer ==
  ASSUME NEW t \in Agent, t.adopted.timer => Status(t) = "idle"
  PROVE  ~Unregister(t).adopted.timer /\ (t.cur = None => Unregister(t) = t)
BY DEF Unregister, Agent, NotAdopted, Status

\* register arms no timer either.
LEMMA RegisterTimer ==
  ASSUME NEW t \in Agent, NEW st \in Statuses, t.adopted.timer => Status(t) = "idle"
  PROVE  /\ ~Register(t, st).adopted.timer
         /\ t.cur # None => Register(t, st).adopted = NotAdopted
<1>1. PICK v : v = Unregister(t)
  OBVIOUS
<1>2. ~v.adopted.timer /\ v \in Agent /\ (t.cur # None => v.adopted = NotAdopted)
  BY <1>1, UnregisterTimer, UnregisterEffect DEF Unregister, Agent
<1> QED
  BY <1>1, <1>2 DEF Register, Agent

\* While a session is live no coroutine is under way before a release, and
\* nothing detaches or revives.
LEMMA LiveAlone ==
  ASSUME IInv, Seen, NEW g \in Regs, r.sess[g] = "live"
  PROVE  /\ g = r.last /\ Active(r) = {g} /\ revival.stage \in {"none", "attached"}
         /\ \A t \in tasks : t.op \notin Detaching /\ t.op # "revive"
         /\ ~released => tasks = {} /\ ~parking /\ r.cur = r.last /\ Session(r) = g
<1>1. g = r.last /\ Active(r) = {g} /\ Active(r) # {}
  BY DEF IInv, LastActive, Active
<1>2. revival.stage \in {"none", "attached"}
  BY <1>1 DEF IInv, Typed, Revival, RevivedAlone, Seen, ReviveQuiet
<1>3. \A t \in tasks : t.of # g
  BY DEF IInv, TasksDispose
<1>4. \A t \in tasks : t.op \notin Detaching /\ t.op # "revive"
  BY <1>1, <1>2, <1>3 DEF IInv, OneDetaches, Seen, ReviveQuiet
<1>5. ~released => tasks = {} /\ ~parking
  BY <1>1, <1>3 DEF Seen, OneTask
<1>6. ~released => r.cur = r.last /\ Session(r) = g
  BY <1>1 DEF Seen, Reachable, IInv, LastActive, Registered
<1> QED
  BY <1>1, <1>2, <1>4, <1>5, <1>6

\* While a revive has no session no coroutine is under way before a release.
LEMMA ReviveAlone ==
  ASSUME IInv, Seen, revival.stage \in {"factory", "opening", "creating"}
  PROVE  /\ \A t \in tasks : t.op \notin Detaching /\ t.op # "revive"
         /\ ~released => tasks = {} /\ ~parking /\ r.cur = r.last /\ r.cur # None
<1>1. \A t \in tasks : t.op \notin Detaching /\ t.op # "revive"
  BY DEF IInv, RevivedAlone, Seen, ReviveQuiet
<1>2. ASSUME ~released PROVE r.cur = r.last /\ r.cur # None
  BY <1>2 DEF Seen, Reachable, IInv, Registered
<1>3. ASSUME ~released, NEW t \in tasks PROVE FALSE
  <2>1. t \in Task /\ t.op \in {"aborted", "oneshot"}
    BY <1>1, <1>3 DEF Seen, OneTask, IInv, Typed, Task
  <2>2. t.of \in Regs /\ t.of = r.last
    BY <1>3, <2>1 DEF Seen, OneTask, Task
  <2>3. r.sess[r.last] # "disposing"
    BY <2>2 DEF IInv, RevivedAlone, Active
  <2>4. t.at = "after"
    BY <1>3, <2>1, <2>3 DEF Seen, OneTask, Task
  <2> QED
    BY <1>2, <1>3, <2>1, <2>4 DEF Seen, OneTask
<1>4. ~released => ~parking
  BY <1>3 DEF Seen, OneTask
<1> QED
  BY <1>1, <1>2, <1>3, <1>4

-----------------------------------------------------------------------------
\* Seen holds before the id is first used.
LEMMA InitSeen == Init => Seen
<1> SUFFICES ASSUME Init PROVE Seen
  OBVIOUS
<1>1. /\ r = NoAgent /\ tasks = {} /\ revival = NoRevival /\ parking = FALSE
      /\ NoAgent.kept = {} /\ NoAgent.cur = None /\ NoAgent.last = None /\ NoAgent.adopted.timer = FALSE
      /\ \A g \in Regs : NoAgent.sess[g] = "none"
      /\ NoRevival.stage = "none" /\ 1 \in Regs
  BY MaxRegsAssumption DEF Init, NoAgent, NoRevival, NotAdopted, Regs
<1>2. Status(r) = "none" /\ Session(r) = None /\ Active(r) = {} /\ Live = {}
  BY <1>1 DEF Status, Session, Active, Live
<1> QED
  BY <1>1, <1>2 DEF Seen, ReviveQuiet, TimerArmed, ParkedDetached, OneTask, Reachable, TimerRests,
                    FirstOwned, Resting, None

\* The first registration is running, or parked without a session.
LEMMA FirstSeen ==
  ASSUME IInv, Seen, Spawn \/ FoundOnDisk PROVE Seen'
<1>1. /\ r.last = 0 /\ r.cur = 0 /\ r \in Agent /\ r.adopted = NotAdopted /\ revival = NoRevival
      /\ \A g \in Regs : r.sess[g] = "none"
      /\ 1 \in Regs /\ r.last < MaxRegs
  BY MaxRegsAssumption DEF IInv, Typed, Unopened, Registered, Regs, None, Spawn, FoundOnDisk
<1>2. tasks = {} /\ tasks' = tasks /\ revival' = revival /\ parking' = parking /\ released' = released
  BY <1>1 DEF IInv, TasksDispose, Spawn, FoundOnDisk, Typed, Task, Regs
<1>3. PICK st \in {"running", "parked"} :
        LET n == Register(r, st)
        IN  r' = IF st = "running" THEN n ELSE [n EXCEPT !.sess[1] = "disposed"]
  BY DEF Spawn, FoundOnDisk
<1>4. PICK n : n = Register(r, st)
  OBVIOUS
<1>5. n \in Agent /\ n.cur = 1 /\ n.sess = r.sess /\ Session(n) = None /\ Status(n) = st
      /\ n.adopted = NotAdopted /\ n.kept = r.kept /\ n.last = 1
  BY <1>1, <1>4, RegisterEffect DEF Statuses
<1>6. /\ r'.cur = 1 /\ r'.last = 1 /\ ~r'.adopted.timer /\ r'.kept = r.kept
      /\ Session(r') = None /\ Status(r') = st
      /\ r'.sess[1] = (IF st = "running" THEN "none" ELSE "disposed")
      /\ \A g \in Regs \ {1} : r'.sess[g] = "none"
  <2>1. CASE st = "running"
    BY <1>1, <1>3, <1>4, <1>5, <2>1 DEF NotAdopted
  <2>2. CASE st = "parked"
    <3>1. PICK u : u = [n EXCEPT !.sess[1] = "disposed"]
      OBVIOUS
    <3>2. r' = u
      BY <1>3, <1>4, <2>2, <3>1
    <3>3. u.cur = n.cur /\ u.last = n.last /\ u.adopted = n.adopted /\ u.ref = n.ref /\ u.kept = n.kept
          /\ u.sess[1] = "disposed" /\ \A g \in Regs \ {1} : u.sess[g] = n.sess[g]
      BY <1>1, <1>5, <3>1 DEF Agent
    <3> QED
      BY <1>1, <1>5, <2>2, <3>2, <3>3 DEF Session, Status, NotAdopted
  <2> QED
    BY <2>1, <2>2
<1>7. r.kept = {} /\ (~released => ~parking)
  BY <1>1, <1>2 DEF Seen, ReviveQuiet, OneTask, Agent
<1>8. revival'.stage = "none" /\ Live' = {} /\ r'.cur # None
  BY <1>1, <1>2, <1>6 DEF NoRevival, Live, None
<1>9. TimerRests' /\ FirstOwned'
  BY <1>6, <1>8 DEF TimerRests, FirstOwned, Resting
<1> QED
  BY <1>2, <1>6, <1>7, <1>8, <1>9 DEF Seen, ReviveQuiet, TimerArmed, ParkedDetached, OneTask, Reachable

\* The session opened first is shown by a running agent; if it is not, the agent is forgotten.
LEMMA OpenedSeen ==
  ASSUME IInv, Seen, Opened PROVE Seen'
<1>1. /\ r \in Agent /\ r.last = 1 /\ r.sess[1] = "none" /\ 1 \in Regs
      /\ revival = NoRevival /\ r.adopted = NotAdopted /\ Session(r) = None /\ Status(r) # "parked"
      /\ r.cur \in {None, 1} /\ ~r.adopted.timer
  BY MaxRegsAssumption DEF IInv, Typed, Unopened, Opened, Registered, Regs, NotAdopted
<1>2. tasks = {} /\ tasks' = tasks /\ revival' = revival /\ parking' = parking /\ released' = released
  BY <1>1 DEF IInv, TasksDispose, Opened, Typed, Task, Regs
<1>3. \A g \in Regs \ {1} : r.sess[g] = "none"
  BY <1>1 DEF IInv, Registered, Regs
<1>4. /\ r.kept = {}
      /\ ~released => ~parking /\ Status(r) = "running" /\ r.cur = 1
  BY <1>1, <1>2, <1>3 DEF Seen, ReviveQuiet, OneTask, Reachable, Agent, Status
<1>5. revival'.stage = "none"
  BY <1>1, <1>2 DEF NoRevival
<1>6. CASE r' = AttachSession([r EXCEPT !.sess[1] = "live"], 1)
  <2>1. PICK n : n = [r EXCEPT !.sess[1] = "live"]
    OBVIOUS
  <2>2. /\ n \in Agent /\ n.cur = r.cur /\ n.last = 1 /\ n.adopted = r.adopted /\ n.kept = r.kept
        /\ n.sess[1] = "live" /\ Status(n) = Status(r)
    BY <1>1, <2>1 DEF Agent, Status
  <2>3. /\ r'.cur = r.cur /\ r'.last = 1 /\ r'.adopted = r.adopted /\ r'.kept = r.kept
        /\ r'.sess = n.sess /\ Status(r') = Status(r)
    BY <1>1, <1>6, <2>1, <2>2, AttachEffect
  <2>4. TimerRests' /\ FirstOwned'
    BY <1>4, <1>5, <2>3 DEF TimerRests, FirstOwned, Resting
  <2> QED
    BY <1>1, <1>2, <1>4, <1>5, <2>2, <2>3, <2>4 DEF Seen, ReviveQuiet, TimerArmed, ParkedDetached, OneTask,
       Reachable, None
<1>7. CASE r' = UnregisterUnlessParked([r EXCEPT !.sess[1] = "disposed"])
  <2>1. PICK n : n = [r EXCEPT !.sess[1] = "disposed"]
    OBVIOUS
  <2>2. /\ n \in Agent /\ n.cur = r.cur /\ n.last = 1 /\ n.adopted = r.adopted /\ n.kept = r.kept
        /\ n.sess[1] = "disposed" /\ Session(n) = None /\ Status(n) = Status(r)
        /\ \A g \in Regs \ {1} : n.sess[g] = "none"
    BY <1>1, <1>3, <2>1 DEF Agent, Session, Status
  <2>3. r' \in {n, Unregister(n)}
    BY <1>7, <2>1, <2>2, UnlessParkedEffect
  <2>4. /\ r'.last = 1 /\ ~r'.adopted.timer /\ r'.kept = r.kept
        /\ r'.sess = n.sess /\ Session(r') = None /\ Status(r') \in {Status(r), "none"}
    BY <1>1, <2>2, <2>3, UnregisterEffect DEF NotAdopted
  <2>5. Active(r') = {} /\ Live' = {} /\ r'.sess[1] = "disposed"
    BY <2>2, <2>4 DEF Active, Live
  <2>6. TimerRests' /\ FirstOwned'
    BY <1>5, <2>4, <2>5 DEF TimerRests, FirstOwned, Resting
  <2> QED
    BY <1>1, <1>2, <1>4, <1>5, <2>4, <2>5, <2>6 DEF Seen, ReviveQuiet, TimerArmed, ParkedDetached, OneTask,
       Reachable
<1> QED
  BY <1>6, <1>7 DEF Opened

\* The end of a kept-alive run makes the agent idle and arms its timer.
LEMMA FinishKeepAliveSeen ==
  ASSUME IInv, Seen, NEW b \in BOOLEAN, FinishKeepAlive(b) PROVE Seen'
<1>1. /\ r \in Agent /\ r.sess[1] = "live" /\ 1 \notin r.kept /\ 1 \in Regs
      /\ tasks' = tasks /\ revival' = revival /\ parking' = parking /\ released' = released
  BY MaxRegsAssumption DEF IInv, Typed, FinishKeepAlive, Regs
<1>2. /\ 1 = r.last /\ revival.stage \in {"none", "attached"}
      /\ \A t \in tasks : t.op \notin Detaching /\ t.op # "revive"
      /\ ~released => tasks = {} /\ ~parking /\ r.cur = 1
  BY <1>1, LiveAlone
<1>3. revival.stage = "none" /\ r.adopted = NotAdopted
  BY <1>1, <1>2 DEF IInv, RevivedAlone, Unopened
<1>4. PICK n : n = [r EXCEPT !.kept = @ \cup {1}]
  OBVIOUS
<1>5. /\ n \in Agent /\ n.cur = r.cur /\ n.last = r.last /\ n.sess = r.sess /\ n.adopted = r.adopted
      /\ n.kept = r.kept \cup {1} /\ Session(n) = Session(r)
  BY <1>1, <1>4 DEF Agent, Session
<1>6. PICK u : u = SetStatus(n, "idle")
  OBVIOUS
<1>7. /\ u \in Agent /\ u.cur = r.cur /\ u.last = r.last /\ u.sess = r.sess
      /\ u.kept = n.kept /\ u.adopted = NotAdopted
      /\ Status(u) = IF r.cur = None THEN "none" ELSE "idle"
  BY <1>3, <1>5, <1>6, SetStatusEffect DEF Statuses, Status
<1>8. r' = Adopt(u, b)
  BY <1>4, <1>6 DEF FinishKeepAlive
<1>9. /\ r'.cur = r.cur /\ r'.last = r.last /\ r'.sess = r.sess
      /\ r'.kept = r.kept \cup {1} /\ Status(r') = Status(u)
  BY <1>5, <1>7, <1>8, AdoptEffect
<1>10. IF r.cur = None THEN ~r'.adopted.timer ELSE r'.adopted.timer /\ r'.adopted.by = "executor"
  BY <1>7, <1>8 DEF Adopt, Agent, NotAdopted
<1>11. TimerRests' /\ FirstOwned'
  BY <1>1, <1>2, <1>3, <1>7, <1>9, <1>10 DEF TimerRests, FirstOwned, Resting
<1> QED
  BY <1>1, <1>2, <1>3, <1>7, <1>9, <1>10, <1>11 DEF Seen, ReviveQuiet, TimerArmed, ParkedDetached, OneTask,
     Reachable, Detaching, None

\* The end of any other run starts the one coroutine there is.
LEMMA FinishAndDisposeSeen ==
  ASSUME IInv, Seen, NEW op \in {"aborted", "oneshot", "isolated"}, FinishAndDispose(op) PROVE Seen'
<1>1. /\ r \in Agent /\ r.sess[1] = "live" /\ 1 \notin r.kept /\ 1 \in Regs
      /\ tasks' = tasks \cup {Waiting(op, 1)} /\ revival' = revival
      /\ parking' = parking /\ released' = released
  BY MaxRegsAssumption DEF IInv, Typed, FinishAndDispose, Regs
<1>2. /\ 1 = r.last /\ Active(r) = {1} /\ revival.stage \in {"none", "attached"}
      /\ \A t \in tasks : t.op \notin Detaching /\ t.op # "revive"
      /\ ~released => tasks = {} /\ ~parking /\ r.cur = 1
  BY <1>1, LiveAlone
<1>3. revival.stage = "none" /\ r.adopted = NotAdopted
  BY <1>1, <1>2 DEF IInv, RevivedAlone, Unopened
<1>4. PICK w : w = Waiting(op, 1)
  OBVIOUS
<1>5. w.op = op /\ w.of = 1 /\ w.at = "dispose"
  BY <1>4 DEF Waiting
<1>6. PICK u : u = CASE op = "aborted"  -> SetStatus(r, "aborted")
                     [] op = "oneshot"  -> r
                     [] op = "isolated" -> SetStatus(r, "parked")
  OBVIOUS
<1>7. /\ u \in Agent /\ u.cur = r.cur /\ u.last = r.last /\ u.sess = r.sess
      /\ u.kept = r.kept /\ u.adopted = NotAdopted
  <2>1. u = SetStatus(r, "aborted") \/ u = r \/ u = SetStatus(r, "parked")
    BY <1>6
  <2> QED
    BY <1>1, <1>3, <2>1, SetStatusEffect DEF Statuses
<1>8. Status(u) = "parked" => op = "isolated" \/ (Status(r) = "parked" /\ Session(u) = Session(r))
  BY <1>1, <1>6, SetStatusEffect DEF Statuses, Status
<1>9. r' = BeginDispose(u, 1)
  BY <1>6 DEF FinishAndDispose
<1>10. /\ r'.cur = r.cur /\ r'.last = r.last /\ r'.kept = r.kept /\ r'.adopted = NotAdopted
       /\ Status(r') = Status(u) /\ Session(r') = Session(u)
       /\ r'.sess[1] = "disposing" /\ \A g \in Regs \ {1} : r'.sess[g] = r.sess[g]
  BY <1>1, <1>7, <1>9, BeginDisposeEffect
<1>11. Live' = {}
  BY <1>1, <1>2, <1>10 DEF Active, Live
<1>12. ~r'.adopted.timer
  BY <1>10 DEF NotAdopted
<1>13. ReviveQuiet' /\ TimerArmed' /\ ParkedDetached'
  <2>1. ReviveQuiet'
    BY <1>1, <1>2, <1>3, <1>4, <1>5, <1>10 DEF Seen, ReviveQuiet, Agent
  <2>2. ParkedDetached'
    BY <1>1, <1>4, <1>5, <1>8, <1>10 DEF Seen, ParkedDetached
  <2> QED
    BY <1>12, <2>1, <2>2 DEF TimerArmed
<1>14. OneTask' /\ Reachable'
  <2>1. ~released => Status(r) \in {"running", "idle"}
    BY <1>1 DEF Seen, Reachable, Live
  <2>2. ~released => tasks' = {w} /\ (op # "isolated" => Status(r') # "parked")
    BY <1>1, <1>2, <1>4, <1>8, <1>10, <2>1
  <2>3. OneTask'
    BY <1>1, <1>2, <1>5, <1>10, <2>2 DEF OneTask
  <2> QED
    BY <1>1, <1>2, <1>3, <1>10, <1>11, <2>3 DEF Reachable, None
<1>15. TimerRests' /\ FirstOwned'
  BY <1>1, <1>2, <1>3, <1>10, <1>11 DEF TimerRests, FirstOwned, Resting
<1> QED
  BY <1>13, <1>14, <1>15 DEF Seen

\* A turn of the live session: its start disarms the timer, its end arms it.
LEMMA TurnSeen ==
  ASSUME IInv, Seen, NEW s \in Regs, NEW status \in {"running", "idle"}, Turn(s, status) PROVE Seen'
<1>1. /\ r \in Agent /\ status \in Statuses /\ r' = SetStatus(r, status) /\ Status(r) # status
      /\ s \in r.kept \cup {1} /\ r.sess[s] = "live"
      /\ tasks' = tasks /\ revival' = revival /\ parking' = parking /\ released' = released
  BY DEF IInv, Typed, Turn, Statuses
<1>2. /\ s = r.last /\ revival.stage \in {"none", "attached"}
      /\ \A t \in tasks : t.op \notin Detaching /\ t.op # "revive"
      /\ ~released => tasks = {} /\ ~parking /\ r.cur = r.last
  BY <1>1, LiveAlone
<1>3. revival.stage = "none"
  BY <1>1, <1>2 DEF IInv, RevivedAlone, Seen, ReviveQuiet
<1>4. /\ r'.cur = r.cur /\ r'.last = r.last /\ r'.sess = r.sess /\ r'.kept = r.kept
      /\ Status(r') = (IF r.cur = None THEN "none" ELSE status)
  BY <1>1, SetStatusEffect DEF Status
<1>5. /\ r'.adopted.by = r.adopted.by
      /\ status = "running" => ~r'.adopted.timer
      /\ status = "idle" /\ r.cur # None /\ r.adopted # NotAdopted => r'.adopted.timer
      /\ r.adopted = NotAdopted => r'.adopted = NotAdopted
  BY <1>1, SetStatusTimer, SetStatusEffect DEF Seen, TimerArmed
<1>6. r'.adopted.timer => Status(r') = "idle"
  <2>1. r.cur = None => r' = r
    BY <1>1, SetStatusEffect
  <2> QED
    BY <1>4, <1>5, <2>1 DEF Seen, TimerArmed
<1>7. ~released => r.cur # None
  BY <1>2 DEF None, Regs
<1>8. ReviveQuiet' /\ TimerArmed' /\ ParkedDetached'
  BY <1>1, <1>2, <1>3, <1>4, <1>6 DEF Seen, ReviveQuiet, TimerArmed, ParkedDetached, Detaching
<1>9. OneTask' /\ Reachable'
  BY <1>1, <1>2, <1>3, <1>4, <1>5, <1>7 DEF Seen, OneTask, Reachable
<1>10. TimerRests' /\ FirstOwned'
  BY <1>1, <1>2, <1>3, <1>4, <1>5 DEF Seen, TimerRests, FirstOwned, Resting, Adopted
<1> QED
  BY <1>8, <1>9, <1>10 DEF Seen

\* The timer finds no coroutine under way: those of a run that is not kept alive
\* have no adoption, those of a failing revive no timer.
LEMMA TimerSeen ==
  ASSUME IInv, Seen, TimerFires PROVE Seen'
<1>1. /\ r \in Agent /\ r.adopted.timer /\ r.adopted # NotAdopted /\ Status(r) = "idle"
      /\ revival' = revival /\ released' = released
      /\ r.cur \in {None, r.last} /\ r.cur # None
      /\ revival.stage \notin {"creating", "attached", "failing"}
  BY DEF IInv, Typed, Registered, TimerFires, NotAdopted, Seen, TimerArmed, ReviveQuiet, Status
<1>2. PICK n : n = [r EXCEPT !.adopted.timer = FALSE]
  OBVIOUS
<1>3. /\ n \in Agent /\ n.cur = r.cur /\ n.last = r.last /\ n.sess = r.sess /\ n.kept = r.kept
      /\ Session(n) = Session(r) /\ Status(n) = Status(r)
      /\ ~n.adopted.timer /\ n.adopted.by = r.adopted.by
  BY <1>1, <1>2 DEF Agent, Session, Status
<1>4. CASE Session(r) = None
  <2>1. r' = n /\ tasks' = tasks /\ parking' = parking
    BY <1>2, <1>4 DEF TimerFires
  <2>2. released \/ \A t \in tasks : t.op \notin {"aborted", "oneshot"}
    BY <1>1 DEF Seen, OneTask
  <2>3. Active(r') = Active(r) /\ Live' = Live
    BY <1>3, <2>1 DEF Active, Live
  <2>4. ReviveQuiet' /\ TimerArmed' /\ ParkedDetached'
    BY <1>1, <1>3, <1>4, <2>1 DEF Seen, ReviveQuiet, TimerArmed, ParkedDetached
  <2>5. OneTask' /\ Reachable'
    BY <1>1, <1>3, <1>4, <2>1, <2>2, <2>3 DEF Seen, OneTask, Reachable, None
  <2>6. TimerRests' /\ FirstOwned'
    BY <1>1, <1>3, <1>4, <2>1 DEF Seen, TimerRests, FirstOwned, Resting, Live, Regs, None
  <2> QED
    BY <2>4, <2>5, <2>6 DEF Seen
<1>5. CASE Session(r) # None
  <2>1. Session(r) = r.last /\ r.last \in Regs /\ r.sess[r.last] # "none"
    BY <1>1, <1>5, MaxRegsAssumption DEF IInv, Registered, Agent, Regs, None
  <2>2. r' = BeginDispose(n, r.last) /\ tasks' = tasks \cup {Waiting("park", r.last)} /\ parking'
    BY <1>2, <1>5, <2>1 DEF TimerFires, BeginPark
  <2>3. /\ r'.cur = r.cur /\ r'.last = r.last /\ r'.kept = r.kept /\ r'.adopted = n.adopted
        /\ Session(r') = Session(r) /\ Status(r') = Status(r)
        /\ r'.sess[r.last] \in {"disposing", "disposed"}
        /\ \A g \in Regs \ {r.last} : r'.sess[g] = r.sess[g]
    BY <1>3, <2>1, <2>2, BeginDisposeEffect
  <2>4. PICK w : w = Waiting("park", r.last)
    OBVIOUS
  <2>5. w.op = "park" /\ w.of = r.last /\ w.at = "dispose"
    BY <2>4 DEF Waiting
  <2>6. \A t \in tasks : t.op \notin {"park", "isolated", "revive"}
    BY <1>1 DEF IInv, OneDetaches, TimerFires, Seen, ReviveQuiet
  <2>7. revival.stage = "none"
    BY <1>1, <1>5 DEF IInv, RevivedAlone, Typed, Revival
  <2>8. ReviveQuiet' /\ TimerArmed' /\ ParkedDetached'
    BY <1>1, <1>3, <2>2, <2>3, <2>4, <2>5, <2>6, <2>7 DEF Seen, ReviveQuiet, TimerArmed, ParkedDetached, Agent
  <2>9. Live' = {} /\ r'.sess[1] # "live"
    BY <2>1, <2>3, MaxRegsAssumption DEF IInv, LastActive, Active, Live, Regs
  <2>10. ~released => tasks = {}
    BY <1>1, <2>6 DEF Seen, OneTask, IInv, Typed, Task, Detaching
  <2>11. OneTask'
    BY <1>1, <2>2, <2>3, <2>4, <2>5, <2>10 DEF OneTask
  <2>12. Reachable'
    BY <1>1, <2>1, <2>3, <2>7, <2>9 DEF Reachable
  <2>13. TimerRests' /\ FirstOwned'
    BY <1>1, <2>3, <2>7, <2>9 DEF Seen, TimerRests, FirstOwned, Resting
  <2> QED
    BY <2>8, <2>11, <2>12, <2>13 DEF Seen
<1> QED
  BY <1>4, <1>5

\* The end of a disposal: the agent is forgotten unless it is parked or parking.
LEMMA DisposedSeen ==
  ASSUME IInv, Seen, NEW t \in tasks, Disposed(t) PROVE Seen'
<1>1. PICK n : n = [r EXCEPT !.sess[t.of] = "disposed"]
  OBVIOUS
<1>2. /\ t \in Task /\ t.of \in Regs /\ t.of <= r.last /\ r.sess[t.of] \in {"disposing", "disposed"}
      /\ t.at = "dispose" /\ r \in Agent
      /\ revival' = revival /\ parking' = parking /\ released' = released
  BY DEF IInv, Typed, Task, TasksDispose, Disposed
<1>3. /\ n \in Agent /\ n.cur = r.cur /\ n.last = r.last /\ n.kept = r.kept
      /\ n.adopted = r.adopted /\ Session(n) = Session(r) /\ Status(n) = Status(r)
      /\ n.sess[t.of] = "disposed" /\ \A g \in Regs \ {t.of} : n.sess[g] = r.sess[g]
  BY <1>1, <1>2 DEF Agent, Session, Status
<1>4. r' = IF Status(r) = "parked" \/ parking THEN n ELSE Unregister(n)
  BY <1>1, <1>3 DEF Disposed, UnregisterUnlessParked
<1>5. /\ r'.last = r.last /\ r'.kept = r.kept /\ r'.sess = n.sess
      /\ r'.adopted \in {r.adopted, NotAdopted}
      /\ r'.adopted.timer => r.adopted.timer /\ Status(r') = "idle"
      /\ \/ r'.cur = r.cur /\ Session(r') = Session(r) /\ Status(r') = Status(r)
         \/ r'.cur = None /\ Session(r') = None /\ Status(r') = "none"
      /\ ~(Status(r) = "parked" \/ parking) => r'.cur = None
  BY <1>3, <1>4, UnregisterEffect, UnregisterTimer DEF Seen, TimerArmed
<1>6. PICK u : u = [t EXCEPT !.at = "after"]
  OBVIOUS
<1>7. u.op = t.op /\ u.of = t.of /\ u.at = "after" /\ tasks' = (tasks \ {t}) \cup {u}
  BY <1>2, <1>6 DEF Task, Disposed
<1>8. ReviveQuiet'
  <2>1. \A g \in r'.kept : r'.sess[g] # "none"
    BY <1>2, <1>3, <1>5 DEF Seen, ReviveQuiet, Agent
  <2>2. revival.stage = "failing" => r'.sess[r'.last] \in {"disposing", "disposed"}
    <3>1. revival.stage = "failing" => r.last \in Regs
      BY <1>2, MaxRegsAssumption DEF Agent, Regs
    <3> QED
      BY <1>2, <1>3, <1>5, <3>1 DEF Seen, ReviveQuiet
  <2> QED
    BY <1>2, <1>5, <1>7, <2>1, <2>2 DEF Seen, ReviveQuiet
<1>9. TimerArmed' /\ ParkedDetached'
  BY <1>5, <1>7 DEF Seen, TimerArmed, ParkedDetached
<1>10. ASSUME ~released
       PROVE  /\ tasks' = {u} /\ tasks = {t} /\ t.of = r.last /\ r'.sess[r.last] = "disposed"
              /\ Active(r') = {} /\ Live' = {} /\ r'.sess[1] # "live"
              /\ revival.stage \in {"none", "failing"}
  <2>1. tasks = {t} /\ tasks' = {u} /\ t.of = r.last
    BY <1>7, <1>10 DEF Seen, OneTask
  <2>2. Active(r') = {} /\ Live' = {} /\ r'.sess[1] # "live"
    BY <1>2, <1>3, <1>5, <2>1, MaxRegsAssumption DEF IInv, LastActive, Active, Live, Regs
  <2>3. r'.sess[r.last] = "disposed"
    BY <1>3, <1>5, <2>1
  <2>4. revival.stage # "attached"
    BY <1>2, <1>10, <2>1 DEF Seen, Reachable
  <2>5. revival.stage \notin {"factory", "opening", "creating"}
    BY <1>10, ReviveAlone
  <2> QED
    BY <2>1, <2>2, <2>3, <2>4, <2>5 DEF IInv, Typed, Revival
<1>11. OneTask'
  <2>1. ASSUME ~released, t.op \in {"aborted", "oneshot", "revive"} PROVE r'.cur = None
    BY <1>2, <1>5, <1>10, <2>1 DEF Seen, OneTask
  <2>2. ASSUME ~released PROVE t.op \notin {"release", "release_orphan"} /\ (parking => t.op = "park")
                               /\ (t.op \in {"aborted", "oneshot"} => r'.adopted = NotAdopted)
    BY <1>5, <1>10, <2>2 DEF Seen, OneTask
  <2> QED
    BY <1>2, <1>5, <1>7, <1>10, <2>1, <2>2 DEF OneTask
<1>12. Reachable'
  BY <1>2, <1>5, <1>10 DEF Reachable
<1>13. Live' \subseteq Live
  BY <1>2, <1>3, <1>5 DEF Live
<1>14. TimerRests'
  BY <1>2, <1>5, <1>13 DEF Seen, TimerRests, Resting, Adopted, Live, Regs, None
<1>15. FirstOwned'
  BY <1>2, <1>5, <1>7 DEF Seen, FirstOwned
<1> QED
  BY <1>8, <1>9, <1>11, <1>12, <1>14, <1>15 DEF Seen

\* What follows the disposal leaves no coroutine before a release.
LEMMA ResumeSeen ==
  ASSUME IInv, Seen, NEW t \in tasks, Resume(t) PROVE Seen'
<1>1. /\ r \in Agent /\ tasks' = tasks \ {t} /\ revival' = revival /\ released' = released
      /\ parking' = (parking /\ t.op # "park") /\ t.at = "after" /\ t.of \in Regs
      /\ t.op \in {"park", "isolated", "oneshot", "release", "release_orphan", "aborted"}
      /\ r.sess[t.of] = "disposed" /\ r.last \in Nat
  BY DEF IInv, Typed, TasksDispose, Task, Detaching, Resume, ParkingAfter, Agent
<1>2. PICK d : d = DetachSession(r)
  OBVIOUS
<1>3. /\ d \in Agent /\ d.cur = r.cur /\ d.last = r.last /\ d.sess = r.sess /\ d.kept = r.kept
      /\ d.adopted = r.adopted /\ Session(d) = None /\ Status(d) = Status(r)
  BY <1>1, <1>2, DetachEffect
<1>4. /\ r'.last = r.last /\ r'.sess = r.sess /\ r'.kept = r.kept
      /\ r'.adopted.timer => Status(r') = "idle"
      /\ ~r.adopted.timer => ~r'.adopted.timer
      /\ Session(r') \in {Session(r), None} /\ (t.op \in Detaching => Session(r') = None)
      /\ Session(r') # None => r' = r
      /\ r.adopted = NotAdopted => r'.adopted = NotAdopted
      /\ \/ Status(r') = Status(r) /\ (r'.cur = None <=> r.cur = None)
         \/ Status(r') = "parked" /\ t.op = "park" /\ (r'.cur = None <=> r.cur = None)
         \/ Status(r') = "none" /\ t.op \notin Detaching
  <2>1. CASE t.op = "park"
    <3>1. r' = SetStatus(d, "parked") /\ ~d.adopted.timer
      BY <1>2, <1>3, <2>1 DEF Resume, MarkParked, Seen, TimerArmed
    <3>2. /\ r'.last = r.last /\ r'.sess = r.sess /\ r'.kept = r.kept /\ r'.cur = r.cur
          /\ r.cur = None => r' = d
          /\ r.cur # None => Session(r') = Session(d) /\ Status(r') = "parked"
      BY <1>3, <3>1, SetStatusEffect DEF Statuses
    <3>3. ~r'.adopted.timer
      BY <1>3, <3>1, SetStatusTimer DEF Statuses
    <3>4. Session(r') = None /\ Status(r') \in {Status(r), "parked"}
      BY <1>3, <3>2
    <3>5. r.adopted = NotAdopted => r'.adopted = NotAdopted
      BY <1>3, <3>1, SetStatusEffect DEF Statuses
    <3> QED
      BY <2>1, <3>2, <3>3, <3>4, <3>5 DEF Detaching
  <2>2. CASE t.op = "isolated"
    <3>1. r' = d
      BY <1>2, <2>2 DEF Resume
    <3> QED
      BY <1>3, <2>2, <3>1 DEF Seen, TimerArmed, Detaching
  <2>3. CASE t.op \in {"oneshot", "release", "release_orphan"}
    <3>1. r' = Unregister(r) \/ r' = Unregister(d)
      BY <1>2, <2>3 DEF Resume
    <3>2. ~r'.adopted.timer /\ r'.last = r.last /\ r'.sess = r.sess /\ r'.kept = r.kept
          /\ Session(r') = None /\ Status(r') = "none" /\ r'.adopted \in {r.adopted, NotAdopted}
      BY <1>1, <1>3, <3>1, UnregisterEffect, UnregisterTimer DEF Seen, TimerArmed
    <3> QED
      BY <2>3, <3>2 DEF Detaching
  <2>4. CASE t.op = "aborted"
    <3>1. r' = r
      BY <2>4 DEF Resume
    <3> QED
      BY <2>4, <3>1 DEF Seen, TimerArmed, Detaching
  <2> QED
    BY <1>1, <2>1, <2>2, <2>3, <2>4
<1>5. ReviveQuiet'
  <2>1. t.op = "park" => revival.stage \notin {"creating", "attached", "failing"}
    BY DEF Seen, ReviveQuiet, Detaching
  <2> QED
    BY <1>1, <1>4, <2>1 DEF Seen, ReviveQuiet
<1>6. TimerArmed' /\ ParkedDetached'
  BY <1>1, <1>4 DEF Seen, TimerArmed, ParkedDetached, Detaching
<1>7. ASSUME ~released
      PROVE  /\ tasks = {t} /\ tasks' = {} /\ ~parking' /\ t.of = r.last
             /\ Active(r') = {} /\ Live' = {} /\ r'.sess[1] # "live"
             /\ revival.stage \in {"none", "failing"}
  <2>1. tasks = {t} /\ tasks' = {} /\ t.of = r.last /\ (parking => t.op = "park")
    BY <1>1, <1>7 DEF Seen, OneTask
  <2>2. Active(r') = {} /\ Live' = {} /\ r'.sess[1] # "live"
    BY <1>1, <1>4, <2>1, MaxRegsAssumption DEF IInv, LastActive, Active, Live, Regs
  <2>3. revival.stage # "attached"
    BY <1>1, <1>7, <2>1 DEF Seen, Reachable
  <2>4. revival.stage \notin {"factory", "opening", "creating"}
    BY <1>7, ReviveAlone
  <2> QED
    BY <1>1, <2>1, <2>2, <2>3, <2>4 DEF IInv, Typed, Revival
<1>8. OneTask' /\ Reachable'
  BY <1>1, <1>4, <1>7 DEF OneTask, Reachable
<1>9. TimerRests'
  BY <1>1, <1>4 DEF Seen, TimerRests, Resting, Adopted, Live, Regs, None
<1>10. FirstOwned'
  BY <1>1, <1>4 DEF Seen, FirstOwned
<1> QED
  BY <1>5, <1>6, <1>8, <1>9, <1>10 DEF Seen

\* release drops the adoption, and with it the timer.
LEMMA ReleaseSeen ==
  ASSUME IInv, Seen, Release PROVE Seen'
<1>1. r \in Agent /\ revival' = revival /\ released' /\ r.last # None /\ r.cur \in {None, r.last}
  BY DEF IInv, Typed, Registered, Release
<1>2. PICK n : n = [r EXCEPT !.adopted = NotAdopted]
  OBVIOUS
<1>3. NotAdopted \in [by : {"nobody", "executor", "cold"}, revive : BOOLEAN, timer : BOOLEAN]
      /\ ~NotAdopted.timer
  BY DEF NotAdopted
<1>4. /\ n \in Agent /\ n.cur = r.cur /\ n.last = r.last /\ n.sess = r.sess /\ n.kept = r.kept
      /\ n.adopted = NotAdopted /\ Session(n) = Session(r) /\ Status(n) = Status(r)
  BY <1>1, <1>2, <1>3 DEF Agent, Session, Status
<1>5. OneTask' /\ Reachable' /\ FirstOwned'
  BY <1>1 DEF OneTask, Reachable, FirstOwned
<1>6. CASE Session(r) = None
  <2>1. r' = Unregister(n) /\ tasks' = tasks
    BY <1>2, <1>6 DEF Release
  <2>2. /\ r'.last = r.last /\ r'.sess = r.sess /\ r'.kept = r.kept
        /\ ~r'.adopted.timer /\ Session(r') = None /\ Status(r') = "none"
    BY <1>3, <1>4, <2>1, UnregisterEffect
  <2>3. TimerRests'
    BY <2>2 DEF TimerRests, Resting
  <2> QED
    BY <1>1, <1>5, <2>1, <2>2, <2>3 DEF Seen, ReviveQuiet, TimerArmed, ParkedDetached
<1>7. CASE Session(r) # None
  <2>1. Session(r) = r.last /\ r.last \in Regs /\ r.sess[r.last] # "none"
    BY <1>1, <1>7, MaxRegsAssumption DEF IInv, Registered, Agent, Regs, None
  <2>2. PICK op \in {"release", "release_orphan"} :
          r' = BeginDispose(n, r.last) /\ tasks' = tasks \cup {Waiting(op, r.last)}
    BY <1>2, <1>7, <2>1 DEF Release
  <2>3. /\ r'.last = r.last /\ r'.kept = r.kept /\ r'.adopted = NotAdopted
        /\ Session(r') = Session(r) /\ Status(r') = Status(r)
        /\ r'.sess[r.last] \in {"disposing", "disposed"}
        /\ \A g \in Regs \ {r.last} : r'.sess[g] = r.sess[g]
    BY <1>4, <2>1, <2>2, BeginDisposeEffect
  <2>4. PICK w : w = Waiting(op, r.last)
    OBVIOUS
  <2>5. w.op = op /\ op \notin Detaching /\ op # "revive" /\ tasks' = tasks \cup {w}
    BY <2>2, <2>4 DEF Waiting, Detaching
  <2>6. TimerRests'
    BY <1>1, <2>3 DEF Seen, TimerRests, Adopted
  <2> QED
    BY <1>1, <1>3, <1>5, <2>3, <2>5, <2>6 DEF Seen, ReviveQuiet, TimerArmed, ParkedDetached, Agent
<1> QED
  BY <1>6, <1>7

\* ensureLive starts a revive only of a registered agent.
LEMMA EnsureLiveSeen ==
  ASSUME IInv, Seen, NEW c \in Callers, EnsureLive(c) PROVE Seen'
<1>1. r' = r /\ tasks' = tasks /\ parking' = parking /\ released' = released
  BY DEF EnsureLive
<1>2. Status(r') = Status(r) /\ Session(r') = Session(r) /\ Active(r') = Active(r) /\ Live' = Live
  BY <1>1 DEF Live
<1>3. \/ revival' = revival
      \/ revival.stage = "none" /\ revival'.stage \in {"factory", "opening"} /\ r.cur # None
         /\ Status(r) = "parked"
  BY DEF EnsureLive, NoRevival, Revivable, Status
<1>4. ReviveQuiet' /\ TimerArmed' /\ ParkedDetached'
  BY <1>1, <1>2, <1>3 DEF Seen, ReviveQuiet, TimerArmed, ParkedDetached
<1>5. OneTask' /\ Reachable'
  BY <1>1, <1>2, <1>3 DEF Seen, OneTask, Reachable
<1>6. TimerRests' /\ FirstOwned'
  BY <1>1, <1>2, <1>3 DEF Seen, TimerRests, FirstOwned, Resting, Adopted
<1> QED
  BY <1>4, <1>5, <1>6 DEF Seen

\* A cold adoption arms no timer.
LEMMA FactoryAnswersSeen ==
  ASSUME IInv, Seen, NEW found \in BOOLEAN, FactoryAnswers(found) PROVE Seen'
<1>1. /\ r \in Agent /\ revival \in Revival /\ revival.stage = "factory"
      /\ tasks' = tasks /\ parking' = parking /\ released' = released
      /\ Active(r) = {} /\ Session(r) = None /\ r.last # None
      /\ ~(r.last = 1 /\ r.sess[1] = "none")
  BY DEF IInv, Typed, RevivedAlone, Unopened, NoRevival, FactoryAnswers
<1>2. PICK n : n = [r EXCEPT !.adopted = [by |-> "cold", revive |-> TRUE, timer |-> FALSE]]
  OBVIOUS
<1>3. /\ n.cur = r.cur /\ n.last = r.last /\ n.sess = r.sess /\ n.kept = r.kept /\ n.ref = r.ref
      /\ ~n.adopted.timer
  BY <1>1, <1>2 DEF Agent
<1>4. r' = n \/ r' = r
  BY <1>2 DEF FactoryAnswers
<1>5. /\ r'.cur = r.cur /\ r'.last = r.last /\ r'.sess = r.sess /\ r'.kept = r.kept
      /\ Session(r') = None /\ Status(r') = Status(r) /\ (r'.adopted.timer => r.adopted.timer)
  BY <1>1, <1>3, <1>4 DEF Session, Status
<1>6. revival'.stage \in {"opening", "none"}
  <2>1. [revival EXCEPT !.stage = "opening", !.cold = TRUE].stage = "opening"
    BY <1>1 DEF Revival
  <2>2. NoRevival.stage = "none"
    BY DEF NoRevival
  <2> QED
    BY <2>1, <2>2 DEF FactoryAnswers
<1>7. /\ \A t \in tasks : t.op \notin Detaching /\ t.op # "revive"
      /\ ~released => tasks = {} /\ ~parking /\ r.cur # None
  BY <1>1, ReviveAlone
<1>8. Live' = {} /\ r'.sess[1] # "live"
  BY <1>1, <1>5, MaxRegsAssumption DEF Active, Live, Regs
<1>9. ReviveQuiet' /\ TimerArmed' /\ ParkedDetached'
  BY <1>1, <1>5, <1>6, <1>7 DEF Seen, ReviveQuiet, TimerArmed, ParkedDetached
<1>10. OneTask' /\ Reachable'
  BY <1>1, <1>5, <1>6, <1>7, <1>8 DEF OneTask, Reachable
<1>11. TimerRests' /\ FirstOwned'
  BY <1>1, <1>5, <1>6, <1>8 DEF Seen, TimerRests, FirstOwned, Resting
<1> QED
  BY <1>9, <1>10, <1>11 DEF Seen

\* The new registration is running, without the timer of the old.
LEMMA ReregisterSeen ==
  ASSUME IInv, Seen, Reregister PROVE Seen'
<1>1. /\ r \in Agent /\ revival \in Revival /\ revival.stage = "opening"
      /\ r.last < MaxRegs /\ r.last # None /\ Active(r) = {}
      /\ tasks' = tasks /\ parking' = parking /\ released' = released
      /\ (r.adopted.timer => Status(r) = "idle")
  BY DEF IInv, Typed, RevivedAlone, Reregister, Seen, TimerArmed
<1>2. r' = Register(r, "running") /\ revival'.stage = "creating"
  BY <1>1 DEF Reregister, Revival
<1>3. /\ r'.cur = r.last + 1 /\ r'.last = r.last + 1 /\ r'.sess = r.sess /\ r'.kept = r.kept
      /\ Session(r') = None /\ Status(r') = "running" /\ ~r'.adopted.timer
      /\ r.cur # None => r'.adopted = NotAdopted
  BY <1>1, <1>2, RegisterEffect, RegisterTimer DEF Statuses
<1>4. r.last \in Nat /\ r.last + 1 \in Regs /\ r.last + 1 > 1 /\ r.sess[r.last + 1] = "none"
  BY <1>1, MaxRegsAssumption DEF Agent, Regs, None, IInv, Registered
<1>5. /\ \A t \in tasks : t.op \notin Detaching /\ t.op # "revive"
      /\ ~released => tasks = {} /\ ~parking /\ r.cur # None
  BY <1>1, ReviveAlone
<1>6. Live' = {} /\ r'.sess[1] # "live" /\ Active(r') = {}
  BY <1>1, <1>3, MaxRegsAssumption DEF Active, Live, Regs
<1>7. ReviveQuiet' /\ TimerArmed' /\ ParkedDetached'
  BY <1>1, <1>2, <1>3, <1>4, <1>5 DEF Seen, ReviveQuiet, TimerArmed, ParkedDetached
<1>8. OneTask' /\ Reachable'
  BY <1>1, <1>2, <1>3, <1>4, <1>5, <1>6 DEF OneTask, Reachable, None
<1>9. TimerRests' /\ FirstOwned'
  BY <1>1, <1>2, <1>3, <1>5, <1>6 DEF TimerRests, FirstOwned, Resting
<1> QED
  BY <1>7, <1>8, <1>9 DEF Seen

\* The new session is shown.
LEMMA ReattachedSeen ==
  ASSUME IInv, Seen, Reattached PROVE Seen'
<1>1. /\ r \in Agent /\ revival \in Revival /\ revival.stage = "creating"
      /\ tasks' = tasks /\ parking' = parking /\ released' = released
      /\ r.last > 1 /\ r.last \in Regs /\ Active(r) = {}
  BY DEF IInv, Typed, RevivedAlone, Reattached, Agent, Regs
<1>2. PICK n : n = [r EXCEPT !.sess[r.last] = "live"]
  OBVIOUS
<1>3. /\ n \in Agent /\ n.cur = r.cur /\ n.last = r.last /\ n.kept = r.kept /\ n.adopted = r.adopted
      /\ Status(n) = Status(r)
      /\ n.sess[r.last] = "live" /\ \A g \in Regs \ {r.last} : n.sess[g] = r.sess[g]
  BY <1>1, <1>2 DEF Agent, Status
<1>4. r' = AttachSession(n, r.last) /\ revival'.stage = "attached"
  BY <1>1, <1>2 DEF Reattached, Revival
<1>5. /\ r'.cur = r.cur /\ r'.last = r.last /\ r'.sess = n.sess /\ r'.kept = r.kept
      /\ r'.adopted = r.adopted /\ Status(r') = Status(r)
      /\ Session(r') = IF r.cur = None THEN None ELSE r.last
  BY <1>1, <1>3, <1>4, AttachEffect
<1>6. /\ \A t \in tasks : t.op \notin Detaching /\ t.op # "revive"
      /\ ~released => tasks = {} /\ ~parking /\ r.cur # None
  BY <1>1, ReviveAlone
<1>7. r'.sess[1] # "live" /\ r'.sess[r.last] = "live"
  BY <1>1, <1>3, <1>5, MaxRegsAssumption DEF Active, Regs
<1>8. ReviveQuiet' /\ TimerArmed' /\ ParkedDetached'
  BY <1>1, <1>3, <1>4, <1>5, <1>6 DEF Seen, ReviveQuiet, TimerArmed, ParkedDetached, Agent
<1>9. OneTask' /\ Reachable'
  BY <1>1, <1>4, <1>5, <1>6, <1>7 DEF Seen, OneTask, Reachable
<1>10. TimerRests' /\ FirstOwned'
  <2>1. ~Resting'
    BY <1>1, <1>5 DEF Seen, ReviveQuiet, Resting, Live, Regs, None
  <2> QED
    BY <1>1, <1>4, <1>5, <2>1 DEF Seen, TimerRests, FirstOwned
<1> QED
  BY <1>8, <1>9, <1>10 DEF Seen

\* The revived agent is idle, and its session kept.
LEMMA RevivedSeen ==
  ASSUME IInv, Seen, Revived PROVE Seen'
<1>1. /\ r \in Agent /\ revival.stage = "attached" /\ revival'.stage = "none"
      /\ tasks' = tasks /\ parking' = parking /\ released' = released
      /\ r.last > 1 /\ r.last \in Regs /\ r.sess[r.last] # "none" /\ r.cur \in {None, r.last}
      /\ ~r.adopted.timer
  BY DEF IInv, Typed, RevivedAlone, Registered, Revived, Agent, Regs, NoRevival, Seen, ReviveQuiet
<1>2. PICK n : n = [r EXCEPT !.kept = @ \cup {r.last}]
  OBVIOUS
<1>3. /\ n \in Agent /\ n.cur = r.cur /\ n.last = r.last /\ n.sess = r.sess /\ n.adopted = r.adopted
      /\ n.kept = r.kept \cup {r.last}
  BY <1>1, <1>2 DEF Agent
<1>4. PICK u : u = AttachSession(n, r.last)
  OBVIOUS
<1>5. /\ u \in Agent /\ u.cur = r.cur /\ u.last = r.last /\ u.sess = r.sess /\ u.adopted = r.adopted
      /\ u.kept = n.kept /\ Session(u) = (IF r.cur = None THEN None ELSE r.last)
      /\ Status(u) = Status(n)
  BY <1>1, <1>3, <1>4, AttachEffect
<1>6. r' = SetStatus(u, "idle")
  BY <1>2, <1>4 DEF Revived
<1>7. /\ r'.cur = r.cur /\ r'.last = r.last /\ r'.sess = r.sess /\ r'.kept = r.kept \cup {r.last}
      /\ Session(r') = (IF r.cur = None THEN None ELSE r.last)
      /\ Status(r') = (IF r.cur = None THEN "none" ELSE "idle")
      /\ r.cur = None => r'.adopted = r.adopted
  BY <1>3, <1>5, <1>6, SetStatusEffect DEF Statuses, Session, Status
<1>8. \A t \in tasks : t.op \notin Detaching /\ t.op # "revive"
  BY <1>1 DEF Seen, ReviveQuiet
<1>9. ASSUME ~released PROVE tasks = {} /\ ~parking /\ r.cur # None /\ r.sess[1] # "live"
  <2>1. r.sess[r.last] = "live"
    BY <1>1, <1>9 DEF Seen, Reachable
  <2>2. tasks = {} /\ ~parking /\ r.cur = r.last
    BY <1>1, <1>9, <2>1, LiveAlone
  <2> QED
    BY <1>1, <2>1, <2>2, MaxRegsAssumption DEF IInv, LastActive, Active, None, Regs
<1>10. ReviveQuiet' /\ TimerArmed' /\ ParkedDetached'
  BY <1>1, <1>7, <1>8 DEF Seen, ReviveQuiet, TimerArmed, ParkedDetached, Detaching
<1>11. OneTask' /\ Reachable'
  BY <1>1, <1>7, <1>9 DEF OneTask, Reachable, Live
<1>12. Status(n) = Status(r)
  BY <1>1, <1>2 DEF Status, Agent
<1>13. /\ r.adopted = NotAdopted => r'.adopted = NotAdopted
       /\ r.adopted # NotAdopted /\ r.cur # None => r'.adopted.timer
  <2>1. Status(u) # "idle" /\ u \in Agent /\ u.cur = r.cur /\ u.adopted = r.adopted
    BY <1>1, <1>5, <1>12 DEF Seen, TimerRests
  <2>2. u.adopted = NotAdopted => r'.adopted = NotAdopted
    BY <1>6, <2>1, SetStatusEffect DEF Statuses
  <2>3. u.adopted # NotAdopted /\ u.cur # None => r'.adopted.timer
    BY <1>6, <2>1, SetStatusTimer DEF Statuses
  <2> QED
    BY <2>1, <2>2, <2>3
<1>14. TimerRests' /\ FirstOwned'
  BY <1>1, <1>7, <1>13 DEF Seen, TimerRests, FirstOwned, Resting, Adopted
<1> QED
  BY <1>10, <1>11, <1>14 DEF Seen

\* A revive that fails forgets the agent only while it has no session.
LEMMA ReviveFailsSeen ==
  ASSUME IInv, Seen, ReviveFails PROVE Seen'
<1>1. /\ r \in Agent /\ revival.stage \in {"opening", "creating", "attached"} /\ revival'.stage = "none"
      /\ tasks' = tasks /\ parking' = parking /\ released' = released
      /\ ~(r.last = 1 /\ r.sess[1] = "none")
      /\ revival.stage = "attached" => r.last > 1 /\ r.last \in Regs
  BY DEF IInv, Typed, ReviveFails, Failed, NoRevival, Unopened, RevivedAlone, Agent, Regs
<1>2. PICK n : r' = DropCold(n) /\ (n = r \/ (n = Unregister(r) /\ revival.stage = "creating"))
  BY <1>1, UnlessParkedEffect DEF ReviveFails
<1>3. /\ n \in Agent /\ n.last = r.last /\ n.sess = r.sess /\ n.kept = r.kept
      /\ n.adopted \in {r.adopted, NotAdopted}
      /\ \/ n.cur = r.cur /\ Session(n) = Session(r) /\ Status(n) = Status(r)
         \/ n.cur = None /\ Session(n) = None /\ Status(n) = "none" /\ revival.stage = "creating"
  BY <1>1, <1>2, UnregisterEffect
<1>4. /\ r'.last = r.last /\ r'.sess = r.sess /\ r'.kept = r.kept
      /\ r'.adopted \in {r.adopted, NotAdopted}
      /\ \/ r'.cur = r.cur /\ Session(r') = Session(r) /\ Status(r') = Status(r)
         \/ r'.cur = None /\ Session(r') = None /\ Status(r') = "none" /\ revival.stage = "creating"
  BY <1>2, <1>3, DropColdEffect
<1>5. /\ r'.adopted.timer => r.adopted.timer
      /\ revival.stage = "creating" => ~r'.adopted.timer
  BY <1>1, <1>4 DEF NotAdopted, Seen, ReviveQuiet
<1>6. \A t \in tasks : t.op # "revive"
  BY <1>1 DEF Seen, ReviveQuiet
<1>7. ASSUME ~released PROVE tasks = {} /\ ~parking /\ r.cur # None /\ r.sess[1] # "live"
  <2>1. CASE revival.stage \in {"opening", "creating"}
    <3>1. r.sess[1] # "live"
      BY <2>1, MaxRegsAssumption DEF IInv, RevivedAlone, Active, Regs
    <3> QED
      BY <1>7, <2>1, <3>1, ReviveAlone
  <2>2. CASE revival.stage = "attached"
    <3>1. r.sess[r.last] = "live"
      BY <1>7, <2>2 DEF Seen, Reachable
    <3>2. tasks = {} /\ ~parking /\ r.cur = r.last
      BY <1>1, <1>7, <2>2, <3>1, LiveAlone
    <3> QED
      BY <1>1, <2>2, <3>1, <3>2, MaxRegsAssumption DEF IInv, LastActive, Active, None, Regs
  <2> QED
    BY <1>1, <2>1, <2>2
<1>8. r'.cur = None /\ ~released => Active(r') = {}
  BY <1>1, <1>4, <1>7 DEF IInv, RevivedAlone, Active
<1>9. ReviveQuiet' /\ TimerArmed' /\ ParkedDetached'
  BY <1>1, <1>4, <1>5, <1>6 DEF Seen, ReviveQuiet, TimerArmed, ParkedDetached
<1>10. ~released => \A g \in Live' : Status(r') \in {"running", "idle"}
  <2>1. revival.stage = "creating" => Live' = {}
    BY <1>4 DEF IInv, RevivedAlone, Active, Live
  <2> QED
    BY <1>4, <2>1 DEF Seen, Reachable, Live
<1>11. OneTask' /\ Reachable'
  BY <1>1, <1>4, <1>7, <1>8, <1>10 DEF OneTask, Reachable
<1>12. TimerRests' /\ FirstOwned'
  BY <1>1, <1>4 DEF Seen, TimerRests, FirstOwned, Resting, Adopted, Live
<1> QED
  BY <1>9, <1>11, <1>12 DEF Seen

\* A revive that fails later starts the one coroutine there is.
LEMMA SetupFailsSeen ==
  ASSUME IInv, Seen, SetupFails PROVE Seen'
<1>1. /\ r \in Agent /\ revival.stage = "attached" /\ revival'.stage = "failing"
      /\ r.last > 1 /\ r.last \in Regs /\ r.sess[r.last] # "none"
      /\ tasks' = tasks \cup {Waiting("revive", r.last)}
      /\ parking' = parking /\ released' = released
  BY DEF IInv, Typed, RevivedAlone, SetupFails, Agent, Regs, Revival
<1>2. r' = BeginDispose(r, r.last)
  BY DEF SetupFails
<1>3. /\ r'.cur = r.cur /\ r'.last = r.last /\ r'.kept = r.kept
      /\ r'.adopted = r.adopted /\ Session(r') = Session(r) /\ Status(r') = Status(r)
      /\ r'.sess[r.last] \in {"disposing", "disposed"}
      /\ \A g \in Regs \ {r.last} : r'.sess[g] = r.sess[g]
  BY <1>1, <1>2, BeginDisposeEffect
<1>4. PICK w : w = Waiting("revive", r.last)
  OBVIOUS
<1>5. w.op = "revive" /\ w.of = r.last /\ w.at = "dispose" /\ w.op \notin Detaching
      /\ tasks' = tasks \cup {w}
  BY <1>1, <1>4 DEF Waiting, Detaching
<1>6. ReviveQuiet' /\ TimerArmed' /\ ParkedDetached'
  BY <1>1, <1>3, <1>5 DEF Seen, ReviveQuiet, TimerArmed, ParkedDetached, Agent
<1>7. ASSUME ~released PROVE tasks = {} /\ ~parking /\ r.cur # None /\ Status(r) # "parked"
  <2>1. r.sess[r.last] = "live"
    BY <1>1, <1>7 DEF Seen, Reachable
  <2>2. tasks = {} /\ ~parking /\ r.cur = r.last
    BY <1>1, <1>7, <2>1, LiveAlone
  <2> QED
    BY <1>1, <2>2 DEF None, Seen, ReviveQuiet
<1>8. Live' = {} /\ r'.sess[1] # "live"
  BY <1>1, <1>3, MaxRegsAssumption DEF IInv, LastActive, Active, Live, Regs
<1>9. OneTask'
  BY <1>1, <1>3, <1>5, <1>7 DEF OneTask
<1>10. Reachable'
  BY <1>1, <1>3, <1>7, <1>8 DEF Reachable
<1>11. TimerRests' /\ FirstOwned'
  BY <1>1, <1>3, <1>5, <1>8 DEF Seen, TimerRests, FirstOwned, Resting
<1> QED
  BY <1>6, <1>9, <1>10, <1>11 DEF Seen

\* The end of a failed revive leaves nothing under way.
LEMMA SetupFailedSeen ==
  ASSUME IInv, Seen, NEW t \in tasks, SetupFailed(t) PROVE Seen'
<1>1. /\ r \in Agent /\ tasks' = tasks \ {t} /\ revival'.stage = "none" /\ r' = DropCold(r)
      /\ parking' = parking /\ released' = released
      /\ t.of \in Regs /\ r.sess[t.of] = "disposed" /\ t.op = "revive" /\ t.at = "after"
  BY DEF IInv, Typed, TasksDispose, Task, SetupFailed, Failed, NoRevival
<1>2. /\ r'.cur = r.cur /\ r'.last = r.last /\ r'.sess = r.sess /\ r'.kept = r.kept
      /\ r'.adopted \in {r.adopted, NotAdopted} /\ Session(r') = Session(r) /\ Status(r') = Status(r)
  BY <1>1, DropColdEffect
<1>3. r'.adopted.timer => r.adopted.timer
  BY <1>2 DEF NotAdopted
<1>4. \A u \in tasks' : u.op # "revive"
  BY <1>1 DEF Seen, ReviveQuiet
<1>5. ReviveQuiet' /\ TimerArmed' /\ ParkedDetached'
  BY <1>1, <1>2, <1>3, <1>4 DEF Seen, ReviveQuiet, TimerArmed, ParkedDetached
<1>6. ASSUME ~released PROVE tasks' = {} /\ ~parking /\ t.of = r.last /\ Active(r') = {} /\ Live' = {}
  <2>1. tasks' = {} /\ ~parking /\ t.of = r.last
    BY <1>1, <1>6 DEF Seen, OneTask
  <2> QED
    BY <1>1, <1>2, <2>1 DEF IInv, LastActive, Active, Live
<1>7. ~released => r'.sess[1] # "live"
  BY <1>6, MaxRegsAssumption DEF Active, Regs
<1>8. OneTask' /\ Reachable'
  BY <1>1, <1>2, <1>6, <1>7 DEF OneTask, Reachable
<1>9. TimerRests' /\ FirstOwned'
  BY <1>1, <1>2 DEF Seen, TimerRests, FirstOwned, Resting, Adopted, Live
<1> QED
  BY <1>5, <1>8, <1>9 DEF Seen

\* Steps of the callers alone change nothing here.
LEMMA StutterSeen ==
  ASSUME Seen, r' = r, tasks' = tasks, revival' = revival, parking' = parking, released' = released
  PROVE  Seen'
<1>1. Status(r') = Status(r) /\ Session(r') = Session(r) /\ Active(r') = Active(r) /\ Live' = Live
  BY DEF Live
<1>2. ReviveQuiet' /\ TimerArmed' /\ ParkedDetached'
  BY <1>1 DEF Seen, ReviveQuiet, TimerArmed, ParkedDetached
<1>3. OneTask' /\ Reachable' /\ TimerRests' /\ FirstOwned'
  BY <1>1 DEF Seen, OneTask, Reachable, TimerRests, FirstOwned, Resting, Adopted
<1> QED
  BY <1>2, <1>3 DEF Seen

-----------------------------------------------------------------------------
\* Every step keeps Seen, given the inductive invariant.
LEMMA NextSeen == IInv /\ Seen /\ [Next]_vars => Seen'
<1> SUFFICES ASSUME IInv, Seen, [Next]_vars PROVE Seen'
  OBVIOUS
<1>1. CASE Spawn \/ FoundOnDisk
  BY <1>1, FirstSeen
<1>2. CASE Opened
  BY <1>2, OpenedSeen
<1>3. CASE \E revivable \in BOOLEAN : FinishKeepAlive(revivable)
  BY <1>3, FinishKeepAliveSeen
<1>4. CASE \E op \in {"aborted", "oneshot", "isolated"} : FinishAndDispose(op)
  BY <1>4, FinishAndDisposeSeen
<1>5. CASE \E s \in Regs, status \in {"running", "idle"} : Turn(s, status)
  BY <1>5, TurnSeen
<1>6. CASE TimerFires
  BY <1>6, TimerSeen
<1>7. CASE \E t \in tasks : Disposed(t) \/ Resume(t) \/ SetupFailed(t)
  BY <1>7, DisposedSeen, ResumeSeen, SetupFailedSeen
<1>8. CASE Release
  BY <1>8, ReleaseSeen
<1>9. CASE \E c \in Callers : EnsureLive(c) \/ CallerDone(c)
  <2>1. ASSUME NEW c \in Callers, EnsureLive(c) PROVE Seen'
    BY <2>1, EnsureLiveSeen
  <2>2. ASSUME NEW c \in Callers, CallerDone(c) PROVE Seen'
    BY <2>2, StutterSeen DEF CallerDone
  <2> QED
    BY <1>9, <2>1, <2>2
<1>10. CASE \E found \in BOOLEAN : FactoryAnswers(found)
  BY <1>10, FactoryAnswersSeen
<1>11. CASE Reregister \/ Reattached \/ Revived \/ ReviveFails \/ SetupFails
  BY <1>11, ReregisterSeen, ReattachedSeen, RevivedSeen, ReviveFailsSeen, SetupFailsSeen
<1>12. CASE UNCHANGED vars
  BY <1>12, StutterSeen DEF vars
<1> QED
  BY <1>1, <1>2, <1>3, <1>4, <1>5, <1>6, <1>7, <1>8, <1>9, <1>10, <1>11, <1>12 DEF Next

\* Seen holds throughout.
THEOREM SeenAlways == Spec => []Seen
BY InitSeen, NextSeen, LifecycleInvariant, PTL DEF Spec

\* The idle timer is armed only while the registry shows the agent as idle, and a
\* resting agent has one exactly if it is adopted: #onRegistryEvent and adopt
\* (agent-lifecycle.ts) never miss a change of the status.  Before a release it is
\* adopted exactly while it rests with its first session: what #revive brings back
\* has lost its adoption, and is never parked again.
THEOREM TimerFollowsStatusAlways == Spec => []TimerFollowsStatus
<1>1. IInv /\ Seen => TimerFollowsStatus
  <2> SUFFICES ASSUME IInv, Seen PROVE TimerFollowsStatus
    OBVIOUS
  <2>1. r.adopted.timer => Adopted
    BY DEF Adopted, NotAdopted
  <2>2. ASSUME Resting, ~released PROVE Adopted <=> Session(r) = 1
    <3>1. Session(r) \in Regs /\ r.sess[Session(r)] = "live" /\ Session(r) \in r.kept
      BY <2>2 DEF Resting, Live
    <3>2. Session(r) = r.last /\ r.last \in Regs
      BY <3>1, LiveAlone
    <3>3. CASE Session(r) = 1
      <4>1. r.adopted.by # "nobody"
        BY <2>2, <3>1, <3>3 DEF Seen, Reachable
      <4> QED
        BY <3>3, <4>1 DEF Adopted, NotAdopted
    <3>4. CASE Session(r) # 1
      <4>1. r.last > 1
        BY <3>2, <3>4 DEF Regs
      <4> QED
        BY <2>2, <3>4, <4>1 DEF Adopted, Seen, FirstOwned
    <3> QED
      BY <3>3, <3>4
  <2> QED
    BY <2>1, <2>2 DEF Seen, TimerArmed, TimerRests, TimerFollowsStatus
<1> QED
  BY <1>1, LifecycleInvariant, SeenAlways, PTL

\* A parked agent whose coroutines have all run has no session left, and before a
\* release a live session is the one the registry shows, so that nobody runs on
\* unseen, whoever parks, revives or finishes the agent at the same time.
THEOREM RegistryIsTruthful == Spec => []RegistryTruthful
<1>1. IInv /\ Seen => RegistryTruthful
  <2> SUFFICES ASSUME IInv, Seen PROVE RegistryTruthful
    OBVIOUS
  <2>1. ASSUME Status(r) = "parked", tasks = {} PROVE Session(r) = None /\ Live = {}
    <3>1. Session(r) = None
      BY <2>1 DEF Seen, ParkedDetached
    <3>2. r.cur # None /\ r.last # None
      BY <2>1 DEF Status, IInv, Registered
    <3>3. Active(r) = {}
      BY <3>1, <3>2 DEF IInv, LastActive
    <3> QED
      BY <3>1, <3>3 DEF Active, Live
  <2>2. ASSUME ~released, NEW g \in Live PROVE Session(r) = g
    BY <2>2, LiveAlone DEF Live
  <2> QED
    BY <2>1, <2>2 DEF RegistryTruthful
<1> QED
  BY <1>1, LifecycleInvariant, SeenAlways, PTL
=============================================================================
