------------------------- MODULE CollabSessionProofs -------------------------
(***************************************************************************)
(* Proofs about CollabSession, for every set of guests and writers and     *)
(* every bound: NoGap, DialogsMatch, RefusedWhenCutOff and NothingMissing. *)
(*                                                                         *)
(* The argument follows one guest's stream: the frames in its inbox and,   *)
(* behind them, those in the host's buffer that are for it.  A mark says   *)
(* what a guest has been told: whether it was welcomed, how long a log it  *)
(* was promised, how many entries of the snapshot it has got, and which    *)
(* dialogs it was asked.  A frame fits a mark and leads to the next one.   *)
(* InSync: a guest in the room, unless the host has given it up, agrees    *)
(* with some mark or has failed to load its snapshot, and its stream leads *)
(* from that mark to one that has caught up with the host, or its hello is *)
(* still to be heard.  A host step puts frames at the end of the stream    *)
(* and must lead on to what the host then has; a guest step takes the head *)
(* of it.                                                                  *)
(*                                                                         *)
(* The invariant that makes this inductive is Main: Framework (the values, *)
(* the host's socket, the peer numbers, honest guests, nothing on its way  *)
(* from a connection or a dialog still to come), Introduced (a joined      *)
(* guest is a writer to the host or its hello stands before its prompts),  *)
(* RefusedWhenCutOff itself, and InSync.                                   *)
(***************************************************************************)
EXTENDS CollabSession, FiniteSetTheorems, SequenceTheorems, TLAPS

\* The values the variables range over.
UpFrames ==
  [from : Nat, t : {"hello"}, write : BOOLEAN] \cup [from : Nat, t : {"prompt"}, late : BOOLEAN]
    \cup [from : Nat, t : {"answer"}, id : Nat] \cup [from : Nat, t : {"left"}]
DownFrames ==
  [to : Nat, t : {"welcome"}, count : Nat, by : Connections]
    \cup [to : Nat, t : {"chunk"}, entries : Seq(Nat), final : BOOLEAN]
    \cup [to : Nat, t : {"entry"}, n : Nat] \cup [to : Nat, t : {"ask", "end"}, id : Nat]
    \cup [to : Nat, t : {"error"}]
HostStates ==
  [open : BOOLEAN, stalled : BOOLEAN, pending : Seq(DownFrames), room : Nat, nextPeer : Nat,
   connections : Nat, log : Nat, writers : SUBSET Nat, asks : SUBSET Nat, asked : Nat,
   lost : SUBSET Nat, refused : SUBSET [late : BOOLEAN, gone : BOOLEAN]]
GuestStates ==
  [link : {"out", "joining", "joined"}, peer : Nat, inbox : Seq(DownFrames), welcomed : BOOLEAN,
   snapshot : Snapshots \cup {None}, loading : Snapshots \cup {None}, replica : Seq(Nat),
   source : Connections \cup {None}, failed : BOOLEAN, dialogs : SUBSET Nat,
   buffer : Seq(UpFrames)]

Typed == /\ host \in HostStates /\ up \in Seq(UpFrames) /\ guest \in [Guests -> GuestStates]
         /\ host.nextPeer > 0 /\ IsFiniteSet(host.writers) /\ NoPeer \notin host.writers
         /\ host.asks \subseteq 1 .. host.asked

\* The host's socket: nothing is buffered behind an open and quick socket, never too
\* much, and nobody is in a room that is closed.
Socket == /\ host.open /\ ~host.stalled => host.pending = <<>>
          /\ Len(host.pending) <= MaxBuffered
          /\ ~host.open => up = <<>> /\ \A g \in Guests : ~InRoom(g)

\* Peers have numbers of their own, and are in the room until the relay says they left.
Peers ==
  /\ \A g \in Guests : guest[g].peer < host.nextPeer
  /\ \A g, k \in Guests : InRoom(g) /\ guest[g].peer = guest[k].peer => g = k
  /\ \A i \in 1 .. Len(up) : 
       /\ up[i].from \in 1 .. host.nextPeer - 1
       /\ up[i].t = "left" => \A g \in Guests : guest[g].peer # up[i].from

\* What the queue to the host holds of a peer.
HelloIn(q, p) == \E i \in 1 .. Len(q) : q[i].t = "hello" /\ q[i].from = p
AnswerIn(q, p, id) == \E i \in 1 .. Len(q) : q[i].t = "answer" /\ q[i].from = p /\ q[i].id = id

\* Guests say truthfully whether they may write, and only those who may do.
Honest(g, m) == /\ m.t = "hello" => m.write = (g \in Writers)
                /\ m.t = "prompt" => g \in Writers
                /\ m.t # "left"
Sincere(q, g, p) == \A i \in 1 .. Len(q) : q[i].from = p => Honest(g, q[i])

\* A prompt that was not late comes behind the hello of its connection.
Heralded(q, p) ==
  \A i \in 1 .. Len(q) : q[i].t = "prompt" /\ q[i].from = p /\ ~q[i].late =>
    \E j \in 1 .. i - 1 : q[j].t = "hello" /\ q[j].from = p

\* What waits for a connection is honest, and its prompts are late.
Waiting(q, g) == \A i \in 1 .. Len(q) : Honest(g, q[i]) /\ (q[i].t = "prompt" => q[i].late)

HonestGuests ==
  \A g \in Guests : /\ InRoom(g) => Sincere(up, g, guest[g].peer)
                    /\ Waiting(guest[g].buffer, g)

\* The host knows a guest that may write, or will when its hello has arrived.
Greeted(g) == g \in Writers => guest[g].peer \in host.writers
Introduced ==
  \A g \in Guests : InRoom(g) => \/ Greeted(g)
                                 \/ HelloIn(up, guest[g].peer) /\ Heralded(up, guest[g].peer)

\* No frame is of a connection or a dialog still to come.
Past(h, by) == by[1] < h.room \/ (by[1] = h.room /\ by[2] < h.nextPeer)
PastFrame(h, f) == /\ f.t = "welcome" => Past(h, f.by)
                   /\ f.t = "ask" => f.id \in 1 .. h.asked
PastFrames(h, q) == \A i \in 1 .. Len(q) : PastFrame(h, q[i])
PastGuest(h, s) == /\ PastFrames(h, s.inbox)
                   /\ s.snapshot # None => Past(h, s.snapshot.by)
                   /\ s.loading # None => Past(h, s.loading.by)
                   /\ s.source # None => Past(h, s.source)
NoFuture == PastFrames(host, host.pending) /\ \A g \in Guests : PastGuest(host, guest[g])

-----------------------------------------------------------------------------
\* The frames that have been sent to a guest and not been applied, in order.
Stream(g) == guest[g].inbox \o ForPeer(host.pending, guest[g].peer)

Upto(n) == [k \in 1 .. n |-> k]

\* What a guest on a connection knows at a point of its stream: once a snapshot has
\* begun, the length of the log and the dialogs the host was asking at that point, and
\* how much of the snapshot is behind it.
Marks == [known : BOOLEAN, log : Nat, open : BOOLEAN, got : Nat, asks : SUBSET Nat]
Unaware == [known |-> FALSE, log |-> 0, open |-> FALSE, got |-> 0, asks |-> {}]

After(e, f, conn) ==
  CASE f.t = "welcome" /\ f.by = conn ->
         [known |-> TRUE, log |-> f.count, open |-> TRUE, got |-> 0, asks |-> {}]
    [] ~(f.t = "welcome" /\ f.by = conn) /\ ~e.known -> e
    [] e.known /\ f.t = "chunk" -> [e EXCEPT !.got = @ + Len(f.entries), !.open = ~f.final]
    [] e.known /\ f.t = "entry" -> [e EXCEPT !.log = @ + 1]
    [] e.known /\ f.t = "ask"   -> [e EXCEPT !.asks = @ \cup {f.id}]
    [] e.known /\ f.t = "end"   -> [e EXCEPT !.asks = @ \ {f.id}]
    [] OTHER -> e

\* The frame continues the stream: parts of a snapshot follow each other, and entries
\* follow a complete snapshot.
Fits(e, f, conn) ==
  e.known =>
    /\ f.t = "welcome" => f.by = conn /\ f.count = e.log
    /\ f.t = "entry" => f.n = e.log + 1
    /\ f.t = "chunk" =>
         /\ e.got + Len(f.entries) <= e.log
         /\ f.entries = [k \in 1 .. Len(f.entries) |-> e.got + k]
         /\ f.final = (e.got + Len(f.entries) = e.log)
    /\ e.open <=> f.t = "chunk"

Path(q, tr, conn) ==
  /\ tr \in [0 .. Len(q) -> Marks]
  /\ \A i \in 1 .. Len(q) : Fits(tr[i - 1], q[i], conn) /\ tr[i] = After(tr[i - 1], q[i], conn)
Leads(q, a, b, conn) == \E tr : Path(q, tr, conn) /\ tr[0] = a /\ tr[Len(q)] = b

\* The guest's state matches the mark it has reached.
Collecting(e) == e.open /\ e.log > 0
Matches(s, e, conn) ==
  IF ~e.known
  THEN /\ s.source # conn /\ (s.snapshot # None => s.snapshot.by # conn)
       /\ s.loading # None => s.loading.by # conn
  ELSE /\ Collecting(e) => /\ s.snapshot = [entries |-> Upto(e.got), count |-> e.log, by |-> conn]
                           /\ s.loading = None /\ e.got < e.log
       /\ ~Collecting(e) => 
            /\ s.snapshot = None
            /\ s.loading \in {None, [entries |-> Upto(e.log), count |-> e.log, by |-> conn]}
            /\ s.loading = None => s.source = conn /\ s.welcomed
       /\ s.source = conn /\ s.welcomed => s.replica = Upto(e.log)
       /\ e.open \/ s.loading # None => e.asks = {}
       /\ ~Collecting(e) /\ s.loading = None => s.dialogs \subseteq e.asks

\* What a guest does not show, though it was asked, is settled or answered.
Attentive(s, q, h, e) ==
  e.known /\ ~Collecting(e) /\ s.loading = None =>
    \A id \in (e.asks \cap h.asks) \ s.dialogs : AnswerIn(q, s.peer, id)

\* Nothing is said of a guest that could not load its snapshot.
Agrees(s, e, conn) == s.failed \/ Matches(s, e, conn)
Attends(s, q, h, e) == s.failed \/ Attentive(s, q, h, e)

\* At the end of its stream a guest knows what the host has, once its hello is handled.
Caught(g, p, q, h, e) ==
  IF e.known THEN /\ ~e.open /\ e.log = h.log
                  /\ g \in Writers => p \in h.writers /\ e.asks = h.asks
             ELSE HelloIn(q, p)

SyncedBy(g, s, stream, q, h, a, b) ==
  /\ Leads(stream, a, b, <<h.room, s.peer>>)
  /\ Agrees(s, a, <<h.room, s.peer>>) /\ a.asks \subseteq 1 .. h.asked
  /\ g \in Writers => Attends(s, q, h, a)
  /\ Caught(g, s.peer, q, h, b)
InSync ==
  \A g \in Guests : InRoom(g) /\ guest[g].peer \notin host.lost =>
    \E a, b : SyncedBy(g, guest[g], Stream(g), up, host, a, b)

Framework == Typed /\ Socket /\ Peers /\ HonestGuests /\ NoFuture

\* A set of natural numbers has a least member.
LEMMA Smallest ==
  ASSUME NEW T \in SUBSET Nat, T # {}
  PROVE  \E n \in T : \A m \in T : n <= m
<1> DEFINE Below == {1..n : n \in T}
<1>1. Below \subseteq FiniteSubsetsOf(Nat) /\ Below # {}
  <2>1. ASSUME NEW n \in T PROVE 1..n \in SUBSET Nat /\ IsFiniteSet(1..n)
    BY FS_Interval
  <2> QED
    BY <2>1 DEF FiniteSubsetsOf
<1>2. PICK B \in Below : \A C \in Below : <<C, B>> \notin StrictSubsetOrdering(Nat)
  <2> HIDE DEF Below
  <2> QED
    BY <1>1, FS_StrictSubsetOrderingWellFounded, WFMin
<1>3. PICK n \in T : B = 1..n
  OBVIOUS
<1>4. ASSUME NEW m \in T, m < n PROVE FALSE
  <2>1. 1..m \in Below /\ 1..m \subseteq Nat /\ 1..n \subseteq Nat
    OBVIOUS
  <2>2. 1..m \subseteq 1..n /\ n \in 1..n /\ n \notin 1..m
    BY <1>4
  <2>3. <<1..m, 1..n>> \in StrictSubsetOrdering(Nat)
    BY <2>1, <2>2 DEF StrictSubsetOrdering
  <2> QED
    BY <1>2, <1>3, <2>1, <2>3
<1> QED
  BY <1>4

\* A set that holds 0 and is closed under successors up to n holds all of 0..n.
LEMMA Climb ==
  ASSUME NEW n \in Nat, NEW G, 0 \in G, \A i \in 1 .. n : i - 1 \in G => i \in G
  PROVE  \A i \in 0 .. n : i \in G
<1> SUFFICES ASSUME (0 .. n) \ G # {} PROVE FALSE
  OBVIOUS
<1>1. PICK b \in (0 .. n) \ G : \A m \in (0 .. n) \ G : b <= m
  <2>1. (0 .. n) \ G \in SUBSET Nat
    OBVIOUS
  <2> QED
    BY <2>1, Smallest
<1>2. b \in 1 .. n /\ b - 1 \in 0 .. n /\ ~(b <= b - 1)
  BY <1>1
<1>3. b - 1 \in G
  BY <1>1, <1>2
<1> QED
  BY <1>1, <1>2, <1>3

\* The recursion of Only has a solution, and its values are sequences.
Keeps(q, K, f, n) ==
  f = [i \in 0 .. n |-> IF i = 0 THEN <<>>
                        ELSE IF i \in K THEN Append(f[i - 1], q[i]) ELSE f[i - 1]]

\* The recursive function behind Only exists.
LEMMA KeepsExists ==
  ASSUME NEW q, NEW K, NEW n \in Nat
  PROVE  \E f : Keeps(q, K, f, n)
<1> DEFINE G == {i \in 0 .. n : \E f : Keeps(q, K, f, i)}
<1>1. 0 \in G
  <2>1. Keeps(q, K, [i \in 0 .. 0 |-> <<>>], 0)
    BY DEF Keeps
  <2> QED
    BY <2>1
<1>2. ASSUME NEW b \in 1 .. n, b - 1 \in G PROVE b \in G
  <2>1. PICK f : Keeps(q, K, f, b - 1)
    BY <1>2
  <2>2. PICK x : x = IF b \in K THEN Append(f[b - 1], q[b]) ELSE f[b - 1]
    OBVIOUS
  <2>3. PICK h : h = [i \in 0 .. b |-> IF i = b THEN x ELSE f[i]]
    OBVIOUS
  <2>4. ASSUME NEW i \in 0 .. b
        PROVE  h[i] = IF i = 0 THEN <<>> ELSE IF i \in K THEN Append(h[i - 1], q[i]) ELSE h[i - 1]
    <3>1. CASE i = b
      <4>1. h[i] = x /\ h[i - 1] = f[i - 1] /\ i # 0
        BY <2>3, <3>1
      <4> QED
        BY <2>2, <3>1, <4>1
    <3>2. CASE i # b
      <4>1. i \in 0 .. (b - 1) /\ h[i] = f[i] /\ (i # 0 => h[i - 1] = f[i - 1])
        BY <2>3, <3>2
      <4>2. f[i] = IF i = 0 THEN <<>> ELSE IF i \in K THEN Append(f[i - 1], q[i]) ELSE f[i - 1]
        BY <2>1, <4>1 DEF Keeps
      <4> QED
        BY <4>1, <4>2
    <3> QED
      BY <3>1, <3>2
  <2>5. h = [i \in 0 .. b |-> h[i]]
    BY <2>3
  <2>6. Keeps(q, K, h, b)
    BY <2>4, <2>5 DEF Keeps
  <2> QED
    BY <2>6
<1> HIDE DEF G
<1>3. n \in G
  BY <1>1, <1>2, Climb
<1> QED
  BY <1>3 DEF G

\* A set of sequences that holds the empty one and is closed under Append has them all.
LEMMA Grow ==
  ASSUME NEW T, NEW G, <<>> \in G,
         \A q \in Seq(T) : \A x \in T : q \in G => Append(q, x) \in G
  PROVE  \A q \in Seq(T) : q \in G
<1> DEFINE H(m) == {n \in 0 .. m : \A q \in Seq(T) : Len(q) = n => q \in G}
<1>1. ASSUME NEW m \in Nat PROVE 0 \in H(m)
  <2>1. ASSUME NEW q \in Seq(T), Len(q) = 0 PROVE q \in G
    <3>1. q = <<>>
      BY <2>1, EmptySeq
    <3> QED
      BY <3>1
  <2> QED
    BY <2>1
<1>2. ASSUME NEW m \in Nat, NEW n \in 1 .. m, n - 1 \in H(m) PROVE n \in H(m)
  <2>1. ASSUME NEW q \in Seq(T), Len(q) = n PROVE q \in G
    <3>1. PICK r : r = SubSeq(q, 1, n - 1)
      OBVIOUS
    <3>0. n \in Nat /\ n >= 1
      OBVIOUS
    <3>2. PICK x \in T : x = q[n]
      BY <2>1, <3>0
    <3>3. r \in Seq(T) /\ Len(r) = n - 1 /\ \A i \in 1 .. n - 1 : r[i] = q[i]
      BY <2>1, <3>1
    <3>4. PICK s \in Seq(T) : s = Append(r, x)
      BY <3>3, AppendProperties
    <3>5. Len(s) = Len(q) /\ \A i \in 1 .. Len(s) : s[i] = q[i]
      BY <2>1, <3>2, <3>3, <3>4
    <3>6. s = q
      BY <3>5, SeqEqual
    <3> QED
      BY <1>2, <3>3, <3>4, <3>6
  <2> QED
    BY <2>1
<1> HIDE DEF H
<1>3. ASSUME NEW q \in Seq(T) PROVE q \in G
  <2>1. PICK m \in Nat : m = Len(q)
    OBVIOUS
  <2>2. PICK I : I = H(m)
    OBVIOUS
  <2>3. 0 \in I /\ \A i \in 1 .. m : i - 1 \in I => i \in I
    BY <1>1, <1>2, <2>2
  <2>4. \A i \in 0 .. m : i \in I
    BY <2>3, Climb
  <2>5. m \in H(m)
    BY <2>2, <2>4
  <2> QED
    BY <2>1, <2>5 DEF H
<1> QED
  BY <1>3

\* Only, one entry at a time.
LEMMA OnlyNil ==
  ASSUME NEW K
  PROVE  Only(<<>>, K) = <<>>
<1>1. Len(<<>>) = 0
  OBVIOUS
<1>2. PICK f : f = CHOOSE g : Keeps(<<>>, K, g, 0)
  OBVIOUS
<1>3. Keeps(<<>>, K, f, 0)
  BY <1>2, KeepsExists
<1>4. Only(<<>>, K) = f[0]
  BY <1>1, <1>2 DEF Only, Keeps
<1> QED
  BY <1>3, <1>4 DEF Keeps

SameStart(q, r, n) == \A i \in 1 .. n : q[i] = r[i]

\* The solution of the recursion does not depend on what comes after.
LEMMA KeepsSame ==
  ASSUME NEW T, NEW q \in Seq(T), NEW r \in Seq(T), NEW K, NEW f, NEW g, NEW n \in Nat, NEW m \in Nat,
         n <= m, Keeps(q, K, f, n), Keeps(r, K, g, m), SameStart(q, r, n)
  PROVE  f[n] = g[n]
<1> DEFINE G == {i \in 0 .. n : f[i] = g[i]}
<1>1. ASSUME NEW i \in 0 .. n
      PROVE  f[i] = IF i = 0 THEN <<>> ELSE IF i \in K THEN Append(f[i - 1], q[i]) ELSE f[i - 1]
  BY DEF Keeps
<1>2. ASSUME NEW i \in 0 .. m
      PROVE  g[i] = IF i = 0 THEN <<>> ELSE IF i \in K THEN Append(g[i - 1], r[i]) ELSE g[i - 1]
  BY DEF Keeps
<1>3. 0 \in G
  BY <1>1, <1>2
<1>4. ASSUME NEW i \in 1 .. n, i - 1 \in G PROVE i \in G
  <2>1. i \in 0 .. n /\ i \in 0 .. m /\ i # 0 /\ q[i] = r[i] /\ f[i - 1] = g[i - 1]
    BY <1>4 DEF SameStart
  <2>2. f[i] = g[i]
    BY <1>1, <1>2, <2>1, Zenon
  <2> QED
    BY <2>1, <2>2
<1> HIDE DEF G
<1>5. \A i \in 0 .. n : i \in G
  BY <1>3, <1>4, Climb
<1>6. n \in G
  BY <1>5
<1> QED
  BY <1>6 DEF G

\* Only, one element further.
LEMMA OnlyAppend ==
  ASSUME NEW T, NEW q \in Seq(T), NEW x \in T, NEW K
  PROVE  Only(Append(q, x), K) = IF Len(q) + 1 \in K THEN Append(Only(q, K), x) ELSE Only(q, K)
<1>1. PICK n \in Nat : n = Len(q)
  OBVIOUS
<1>2. PICK s : s = Append(q, x)
  OBVIOUS
<1>3. s \in Seq(T) /\ Len(s) = n + 1 /\ s[n + 1] = x /\ \A i \in 1 .. n : s[i] = q[i]
  BY <1>1, <1>2, AppendProperties
<1>4. PICK f : f = CHOOSE g : Keeps(q, K, g, n)
  OBVIOUS
<1>5. Keeps(q, K, f, n) /\ Only(q, K) = f[n]
  <2>1. Keeps(q, K, f, n)
    BY <1>4, KeepsExists
  <2>2. Only(q, K) = f[n]
    BY <1>1, <1>4 DEF Only, Keeps
  <2> QED
    BY <2>1, <2>2
<1>6. PICK f2 : f2 = CHOOSE g : Keeps(s, K, g, n + 1)
  OBVIOUS
<1>7. Keeps(s, K, f2, n + 1)
  BY <1>6, KeepsExists
<1>8. Only(s, K) = f2[n + 1]
  BY <1>3, <1>6 DEF Only, Keeps
<1>9. f[n] = f2[n]
  <2>1. n + 1 \in Nat /\ n <= n + 1 /\ SameStart(q, s, n)
    BY <1>3 DEF SameStart
  <2>2. PICK m \in Nat : m = n + 1
    BY <2>1
  <2>3. Keeps(s, K, f2, m) /\ s \in Seq(T) /\ n <= m
    BY <1>3, <1>7, <2>1, <2>2
  <2> QED
    BY <1>5, <2>1, <2>3, KeepsSame
<1>10. f2[n + 1] = IF n + 1 \in K THEN Append(f2[n], s[n + 1]) ELSE f2[n]
  <2>1. n + 1 \in 0 .. n + 1 /\ n + 1 # 0 /\ n + 1 - 1 = n
    OBVIOUS
  <2>2. PICK m : m = n + 1
    OBVIOUS
  <2>3. m \in 0 .. m /\ m # 0 /\ m - 1 = n
    BY <2>1, <2>2
  <2>4. f2[m] = IF m \in K THEN Append(f2[m - 1], s[m]) ELSE f2[m - 1]
    BY <1>7, <2>2, <2>3, Zenon DEF Keeps
  <2> QED
    BY <2>2, <2>3, <2>4
<1> QED
  BY <1>1, <1>2, <1>3, <1>5, <1>8, <1>9, <1>10

\* What Only leaves is a sequence of the same kind, and no longer.
LEMMA OnlyType ==
  ASSUME NEW T, NEW K
  PROVE  \A q \in Seq(T) : Only(q, K) \in Seq(T) /\ Len(Only(q, K)) <= Len(q)
<1> DEFINE G == {q \in Seq(T) : Only(q, K) \in Seq(T) /\ Len(Only(q, K)) <= Len(q)}
<1>1. <<>> \in G
  <2>1. <<>> \in Seq(T) /\ Len(<<>>) <= Len(<<>>)
    OBVIOUS
  <2> QED
    BY <2>1, OnlyNil
<1>2. ASSUME NEW q \in Seq(T), NEW x \in T, q \in G PROVE Append(q, x) \in G
  <2>1. PICK o \in Seq(T) : o = Only(q, K) /\ Len(o) <= Len(q)
    BY <1>2
  <2>2. PICK o2 : o2 = Only(Append(q, x), K)
    OBVIOUS
  <2>3. o2 = Append(o, x) \/ o2 = o
    BY <2>1, <2>2, OnlyAppend
  <2>4. o2 \in Seq(T) /\ Len(o2) <= Len(Append(q, x)) /\ Append(q, x) \in Seq(T)
    BY <2>1, <2>3
  <2> QED
    BY <2>2, <2>4
<1> HIDE DEF G
<1>3. \A q \in Seq(T) : q \in G
  BY <1>1, <1>2, Grow
<1> QED
  BY <1>3 DEF G

\* Only looks at the positions of the queue.
LEMMA OnlySame ==
  ASSUME NEW T, NEW K, NEW K1
  PROVE  \A q \in Seq(T) : (\A i \in 1 .. Len(q) : i \in K <=> i \in K1) => Only(q, K) = Only(q, K1)
<1> DEFINE G == {q \in Seq(T) : (\A i \in 1 .. Len(q) : i \in K <=> i \in K1) => Only(q, K) = Only(q, K1)}
<1>1. <<>> \in G
  BY OnlyNil
<1>2. ASSUME NEW q \in Seq(T), NEW x \in T, q \in G PROVE Append(q, x) \in G
  <2>1. PICK s \in Seq(T) : s = Append(q, x)
    BY AppendProperties
  <2>2. Len(s) = Len(q) + 1 /\ Len(q) \in Nat
    BY <2>1
  <2>3. ASSUME \A i \in 1 .. Len(s) : i \in K <=> i \in K1 PROVE Only(s, K) = Only(s, K1)
    <3>1. /\ \A i \in 1 .. Len(q) : i \in K <=> i \in K1
          /\ Len(q) + 1 \in K <=> Len(q) + 1 \in K1
      BY <2>2, <2>3
    <3>2. Only(q, K) = Only(q, K1)
      BY <1>2, <3>1
    <3>3. Only(Append(q, x), K) = IF Len(q) + 1 \in K THEN Append(Only(q, K), x) ELSE Only(q, K)
      BY OnlyAppend
    <3>4. Only(Append(q, x), K1) = IF Len(q) + 1 \in K1 THEN Append(Only(q, K1), x) ELSE Only(q, K1)
      BY OnlyAppend
    <3> QED
      BY <2>1, <3>1, <3>2, <3>3, <3>4
  <2> QED
    BY <2>1, <2>3
<1> HIDE DEF G
<1>3. \A q \in Seq(T) : q \in G
  BY <1>1, <1>2, Grow
<1> QED
  BY <1>3 DEF G

\* Concatenation is associative.
LEMMA Associates ==
  ASSUME NEW T, NEW q \in Seq(T), NEW r \in Seq(T)
  PROVE  \A s \in Seq(T) : (q \o r) \o s = q \o (r \o s)
BY ConcatAssociative

\* Appending to the second of two queues.
LEMMA AppendConcat ==
  ASSUME NEW T, NEW q \in Seq(T), NEW r \in Seq(T), NEW x \in T
  PROVE  q \o Append(r, x) = Append(q \o r, x)
<1>1. PICK l : l = q \o Append(r, x)
  OBVIOUS
<1>2. PICK m \in Seq(T) : m = q \o r
  BY ConcatProperties
<1>3. Append(r, x) = r \o <<x>> /\ Append(m, x) = m \o <<x>> /\ <<x>> \in Seq(T)
  BY AppendIsConcat
<1>4. (q \o r) \o <<x>> = q \o (r \o <<x>>)
  <2>1. PICK e \in Seq(T) : e = <<x>>
    BY <1>3
  <2>2. (q \o r) \o e = q \o (r \o e)
    BY ConcatAssociative
  <2> QED
    BY <2>1, <2>2
<1> QED
  BY <1>2, <1>3, <1>4

\* K2 says of what comes behind n entries what K says of all.
Shifted(n, K, K2) == \A i \in Nat : i > 0 => (n + i \in K <=> i \in K2)

\* Only distributes over the two parts of a queue.
LEMMA OnlyConcat ==
  ASSUME NEW T, NEW q \in Seq(T), NEW K, NEW K2,
         Shifted(Len(q), K, K2)
  PROVE  \A r \in Seq(T) : Only(q \o r, K) = Only(q, K) \o Only(r, K2)
<1> DEFINE G == {r \in Seq(T) : Only(q \o r, K) = Only(q, K) \o Only(r, K2)}
<1>1. PICK o \in Seq(T) : o = Only(q, K)
  BY OnlyType
<1>2. <<>> \in G
  <2>1. q \o <<>> = q /\ o \o <<>> = o
    BY ConcatEmptySeq
  <2> QED
    BY <1>1, <2>1, OnlyNil
<1>3. ASSUME NEW r \in Seq(T), NEW x \in T, r \in G PROVE Append(r, x) \in G
  <2>1. PICK s \in Seq(T) : s = q \o r
    BY ConcatProperties
  <2>2. Len(s) = Len(q) + Len(r) /\ Len(q) \in Nat /\ Len(r) \in Nat
    BY <2>1
  <2>3. q \o Append(r, x) = Append(s, x)
    BY <2>1, AppendConcat
  <2>4. PICK o2 \in Seq(T) : o2 = Only(r, K2)
    BY OnlyType
  <2>5. Only(s, K) = o \o o2
    BY <1>1, <1>3, <2>1, <2>4
  <2>6. Only(Append(s, x), K) = IF Len(s) + 1 \in K THEN Append(Only(s, K), x) ELSE Only(s, K)
    BY OnlyAppend
  <2>7. Only(Append(r, x), K2) = IF Len(r) + 1 \in K2 THEN Append(o2, x) ELSE o2
    <3>1. Only(Append(r, x), K2) = IF Len(r) + 1 \in K2 THEN Append(Only(r, K2), x) ELSE Only(r, K2)
      BY OnlyAppend
    <3> QED
      BY <2>4, <3>1
  <2>8. Len(s) + 1 \in K <=> Len(r) + 1 \in K2
    <3>1. Len(s) + 1 = Len(q) + (Len(r) + 1) /\ Len(r) + 1 \in Nat /\ Len(r) + 1 > 0
      BY <2>2
    <3> QED
      BY <3>1 DEF Shifted
  <2>9. o \o Append(o2, x) = Append(o \o o2, x)
    BY AppendConcat
  <2>10. Only(Append(s, x), K) = o \o Only(Append(r, x), K2)
    BY <2>5, <2>6, <2>7, <2>8, <2>9
  <2>11. Append(r, x) \in Seq(T)
    BY AppendProperties
  <2> QED
    BY <1>1, <2>3, <2>10, <2>11
<1> HIDE DEF G
<1>4. \A r \in Seq(T) : r \in G
  BY <1>2, <1>3, Grow
<1> QED
  BY <1>4 DEF G

\* What is left keeps its order, and everything at a position in K is left.
Embeds(o, q, K, h) ==
  /\ h \in [1 .. Len(o) -> 1 .. Len(q)]
  /\ \A i, j \in 1 .. Len(o) : i < j => h[i] < h[j]
  /\ \A i \in 1 .. Len(o) : o[i] = q[h[i]] /\ h[i] \in K
  /\ \A k \in 1 .. Len(q) : k \in K => \E i \in 1 .. Len(o) : h[i] = k

\* What Only leaves stands in the original in the same order.
LEMMA OnlyEmbeds ==
  ASSUME NEW T, NEW K
  PROVE  \A q \in Seq(T) : \E h : Embeds(Only(q, K), q, K, h)
<1> DEFINE G == {q \in Seq(T) : \E h : Embeds(Only(q, K), q, K, h)}
<1>1. <<>> \in G
  <2>1. Embeds(<<>>, <<>>, K, <<>>)
    BY DEF Embeds
  <2> QED
    BY <2>1, OnlyNil
<1>2. ASSUME NEW q \in Seq(T), NEW x \in T, q \in G PROVE Append(q, x) \in G
  <2>1. PICK a \in Seq(T) : a = Only(q, K)
    BY OnlyType
  <2>2. PICK h : Embeds(a, q, K, h)
    BY <1>2, <2>1
  <2>3. PICK s \in Seq(T) : s = Append(q, x)
    BY AppendProperties
  <2>4. PICK n : n = Len(q) + 1
    OBVIOUS
  <2>5. /\ n \in Nat /\ Len(q) = n - 1 /\ Len(s) = n /\ s[n] = x
        /\ \A i \in 1 .. n - 1 : s[i] = q[i]
        /\ Len(a) \in Nat
    BY <2>3, <2>4
  <2>6. /\ h \in [1 .. Len(a) -> 1 .. n - 1]
        /\ \A i, j \in 1 .. Len(a) : i < j => h[i] < h[j]
        /\ \A i \in 1 .. Len(a) : a[i] = s[h[i]] /\ h[i] \in K
        /\ \A k \in 1 .. n - 1 : k \in K => \E i \in 1 .. Len(a) : h[i] = k
    <3>1. \A i \in 1 .. Len(a) : h[i] \in 1 .. n - 1 /\ a[i] = q[h[i]]
      BY <2>2, <2>5 DEF Embeds
    <3> QED
      BY <2>2, <2>5, <3>1 DEF Embeds
  <2>7. CASE n \notin K
    <3>1. Only(s, K) = a
      BY <2>1, <2>3, <2>4, <2>7, OnlyAppend
    <3>2. h \in [1 .. Len(a) -> 1 .. n]
      BY <2>5, <2>6
    <3>3. \A k \in 1 .. n : k \in K => \E i \in 1 .. Len(a) : h[i] = k
      BY <2>5, <2>6, <2>7
    <3>4. Embeds(a, s, K, h)
      BY <2>5, <2>6, <3>2, <3>3 DEF Embeds
    <3> QED
      BY <2>3, <3>1, <3>4
  <2>8. CASE n \in K
    <3>1. PICK b \in Seq(T) : b = Append(a, x)
      BY AppendProperties
    <3>2. Only(s, K) = b
      BY <2>1, <2>3, <2>4, <2>8, <3>1, OnlyAppend
    <3>3. Len(b) = Len(a) + 1 /\ b[Len(b)] = x /\ \A i \in 1 .. Len(a) : b[i] = a[i]
      BY <2>5, <3>1
    <3>4. PICK g : g = [i \in 1 .. Len(b) |-> IF i = Len(b) THEN n ELSE h[i]]
      OBVIOUS
    <3>5. ASSUME NEW i \in 1 .. Len(b)
          PROVE  /\ g[i] \in 1 .. n /\ b[i] = s[g[i]] /\ g[i] \in K
                 /\ \A j \in 1 .. Len(b) : i < j => g[i] < g[j]
      <4>1. CASE i = Len(b)
        BY <2>5, <2>8, <3>3, <3>4, <4>1
      <4>2. CASE i # Len(b)
        <5>0. i \in 1 .. Len(a) /\ g[i] = h[i]
          BY <2>5, <3>3, <3>4, <4>2
        <5>1. i \in 1 .. Len(a) /\ g[i] = h[i] /\ h[i] \in 1 .. n - 1
          BY <2>6, <5>0
        <5>2. ASSUME NEW j \in 1 .. Len(b), i < j PROVE g[i] < g[j]
          <6>1. CASE j = Len(b)
            BY <2>5, <3>3, <3>4, <5>1, <6>1
          <6>2. CASE j # Len(b)
            <7>1. j \in 1 .. Len(a) /\ g[j] = h[j]
              BY <2>5, <3>3, <3>4, <6>2
            <7> QED
              BY <2>6, <5>1, <5>2, <7>1
          <6> QED
            BY <6>1, <6>2
        <5>3. b[i] = s[g[i]] /\ g[i] \in K /\ g[i] \in 1 .. n
          BY <2>5, <2>6, <3>3, <5>1
        <5> QED
          BY <5>2, <5>3
      <4> QED
        BY <4>1, <4>2
    <3>6. ASSUME NEW k \in 1 .. n, k \in K PROVE \E i \in 1 .. Len(b) : g[i] = k
      <4>1. CASE k = n
        <5>1. Len(b) \in 1 .. Len(b) /\ g[Len(b)] = n
          BY <2>5, <3>3, <3>4
        <5> QED
          BY <4>1, <5>1
      <4>2. CASE k # n
        <5>1. PICK i \in 1 .. Len(a) : h[i] = k
          BY <2>5, <2>6, <3>6, <4>2
        <5>2. i \in 1 .. Len(b) /\ g[i] = h[i]
          BY <2>5, <3>3, <3>4
        <5> QED
          BY <5>1, <5>2
      <4> QED
        BY <4>1, <4>2
    <3>7. g \in [1 .. Len(b) -> 1 .. n]
      BY <3>4, <3>5
    <3>8. Embeds(b, s, K, g)
      BY <2>5, <3>5, <3>6, <3>7 DEF Embeds
    <3> QED
      BY <2>3, <3>2, <3>8
  <2> QED
    BY <2>7, <2>8
<1> HIDE DEF G
<1>5. \A q \in Seq(T) : q \in G
  BY <1>1, <1>2, Grow
<1> QED
  BY <1>5 DEF G

\* Only of everything, and of nothing.
LEMMA OnlyAll ==
  ASSUME NEW T, NEW K
  PROVE  \A q \in Seq(T) : (\A i \in 1 .. Len(q) : i \in K) => Only(q, K) = q
<1> DEFINE G == {q \in Seq(T) : (\A i \in 1 .. Len(q) : i \in K) => Only(q, K) = q}
<1>1. <<>> \in G
  BY OnlyNil
<1>2. ASSUME NEW q \in Seq(T), NEW x \in T, q \in G PROVE Append(q, x) \in G
  <2>1. PICK s \in Seq(T) : s = Append(q, x)
    BY AppendProperties
  <2>2. Len(s) = Len(q) + 1 /\ Len(q) \in Nat
    BY <2>1
  <2>3. ASSUME \A i \in 1 .. Len(s) : i \in K PROVE Only(s, K) = s
    <3>1. (\A i \in 1 .. Len(q) : i \in K) /\ Len(q) + 1 \in K
      BY <2>2, <2>3
    <3>2. Only(q, K) = q
      BY <1>2, <3>1
    <3> QED
      BY <2>1, <3>1, <3>2, OnlyAppend
  <2> QED
    BY <2>1, <2>3
<1> HIDE DEF G
<1>3. \A q \in Seq(T) : q \in G
  BY <1>1, <1>2, Grow
<1> QED
  BY <1>3 DEF G

\* Nothing is left when no place is kept.
LEMMA OnlyNone ==
  ASSUME NEW T, NEW q \in Seq(T), NEW K, \A i \in 1 .. Len(q) : i \notin K
  PROVE  Only(q, K) = <<>>
<1>1. PICK r \in Seq(T) : r = Only(q, K)
  BY OnlyType
<1>2. PICK h : Embeds(r, q, K, h)
  BY <1>1, OnlyEmbeds
<1>3. \A i \in 1 .. Len(r) : h[i] \in 1 .. Len(q) /\ h[i] \in K
  BY <1>2 DEF Embeds
<1>4. Len(r) = 0
  BY <1>3
<1> QED
  BY <1>1, <1>4, EmptySeq

\* The frames of a queue for one peer.
LEMMA ForPeerType ==
  ASSUME NEW q \in Seq(DownFrames), NEW p
  PROVE  ForPeer(q, p) \in Seq(DownFrames)
BY OnlyType DEF ForPeer

\* The frames for a peer, of two sequences one after the other.
LEMMA ForPeerConcat ==
  ASSUME NEW q \in Seq(DownFrames), NEW r \in Seq(DownFrames), NEW p
  PROVE  ForPeer(q \o r, p) = ForPeer(q, p) \o ForPeer(r, p)
<1>1. PICK s \in Seq(DownFrames) : s = q \o r
  BY ConcatProperties
<1>2. /\ Len(q) \in Nat /\ Len(r) \in Nat /\ Len(s) = Len(q) + Len(r)
      /\ \A i \in 1 .. Len(q) : s[i] = q[i]
      /\ \A i \in 1 .. Len(r) : s[Len(q) + i] = r[i]
      /\ DOMAIN s = 1 .. Len(s) /\ DOMAIN q = 1 .. Len(q) /\ DOMAIN r = 1 .. Len(r)
  BY <1>1, ConcatProperties
<1>3. PICK K : K = {i \in DOMAIN s : s[i].to \in {Everyone, p}}
  OBVIOUS
<1>4. PICK K1 : K1 = {i \in DOMAIN q : q[i].to \in {Everyone, p}}
  OBVIOUS
<1>5. PICK K2 : K2 = {i \in DOMAIN r : r[i].to \in {Everyone, p}}
  OBVIOUS
<1>6. Shifted(Len(q), K, K2)
  <2>1. ASSUME NEW i \in Nat, i > 0 PROVE Len(q) + i \in K <=> i \in K2
    <3>1. Len(q) + i \in 1 .. Len(s) <=> i \in 1 .. Len(r)
      BY <1>2, <2>1
    <3>2. CASE i \in 1 .. Len(r)
      BY <1>2, <1>3, <1>5, <3>1, <3>2
    <3>3. CASE i \notin 1 .. Len(r)
      BY <1>2, <1>3, <1>5, <3>1, <3>3
    <3> QED
      BY <3>2, <3>3
  <2> QED
    BY <2>1 DEF Shifted
<1>7. \A i \in 1 .. Len(q) : i \in K <=> i \in K1
  BY <1>2, <1>3, <1>4
<1>8. Only(q \o r, K) = Only(q, K) \o Only(r, K2)
  BY <1>6, OnlyConcat
<1>9. Only(q, K) = Only(q, K1)
  BY <1>7, OnlySame
<1> QED
  BY <1>1, <1>3, <1>4, <1>5, <1>8, <1>9 DEF ForPeer

\* A sequence of which every frame is for the peer stays whole.
LEMMA ForPeerAll ==
  ASSUME NEW q \in Seq(DownFrames), NEW p, \A i \in 1 .. Len(q) : q[i].to \in {Everyone, p}
  PROVE  ForPeer(q, p) = q
<1>1. PICK K : K = {i \in DOMAIN q : q[i].to \in {Everyone, p}}
  OBVIOUS
<1>2. \A i \in 1 .. Len(q) : i \in K
  BY <1>1
<1> QED
  BY <1>1, <1>2, OnlyAll DEF ForPeer

\* A sequence without a frame for the peer gives it nothing.
LEMMA ForPeerNone ==
  ASSUME NEW q \in Seq(DownFrames), NEW p, \A i \in 1 .. Len(q) : q[i].to \notin {Everyone, p}
  PROVE  ForPeer(q, p) = <<>>
<1>1. PICK K : K = {i \in DOMAIN q : q[i].to \in {Everyone, p}}
  OBVIOUS
<1>2. \A i \in 1 .. Len(q) : i \notin K
  BY <1>1
<1> QED
  BY <1>1, <1>2, OnlyNone DEF ForPeer

\* No frames, none for the peer.
LEMMA ForPeerNil ==
  ASSUME NEW p
  PROVE  ForPeer(<<>>, p) = <<>>
BY OnlyNil DEF ForPeer

\* What ForPeer keeps is in the queue.
LEMMA ForPeerMembers ==
  ASSUME NEW q \in Seq(DownFrames), NEW p, NEW i \in 1 .. Len(ForPeer(q, p))
  PROVE  \E j \in 1 .. Len(q) : ForPeer(q, p)[i] = q[j] /\ q[j].to \in {Everyone, p}
<1>1. PICK K : K = {j \in DOMAIN q : q[j].to \in {Everyone, p}}
  OBVIOUS
<1>2. PICK o \in Seq(DownFrames) : o = Only(q, K)
  BY OnlyType
<1>3. PICK h : Embeds(o, q, K, h)
  BY <1>2, OnlyEmbeds
<1>4. o = ForPeer(q, p)
  BY <1>1, <1>2 DEF ForPeer
<1>5. h[i] \in 1 .. Len(q) /\ o[i] = q[h[i]] /\ h[i] \in K
  BY <1>3, <1>4 DEF Embeds
<1> QED
  BY <1>1, <1>4, <1>5
-----------------------------------------------------------------------------
\* A frame that fits leads from a mark to a mark.
LEMMA AfterType ==
  ASSUME NEW e \in Marks, NEW f \in DownFrames, NEW conn
  PROVE  After(e, f, conn) \in Marks
<1>1. CASE f.t = "welcome" /\ f.by = conn
  <2>1. f.count \in Nat
    BY <1>1 DEF DownFrames
  <2> QED
    BY <1>1, <2>1 DEF After, Marks
<1>2. CASE f.t = "chunk" /\ e.known
  <2>1. f.entries \in Seq(Nat) /\ f.final \in BOOLEAN
    BY <1>2 DEF DownFrames
  <2>2. PICK n \in Nat : n = Len(f.entries)
    BY <2>1
  <2>3. e.got + n \in Nat
    BY DEF Marks
  <2> QED
    BY <1>2, <2>1, <2>2, <2>3 DEF After, Marks
<1>3. CASE f.t = "entry" /\ e.known
  BY <1>3 DEF After, Marks
<1>4. CASE f.t \in {"ask", "end"} /\ e.known
  <2>1. f.id \in Nat
    BY <1>4 DEF DownFrames
  <2> QED
    BY <1>4, <2>1 DEF After, Marks
<1>5. CASE /\ ~(f.t = "welcome" /\ f.by = conn)
           /\ ~e.known \/ f.t \notin {"chunk", "entry", "ask", "end"}
  BY <1>5 DEF After
<1> QED
  BY <1>1, <1>2, <1>3, <1>4, <1>5

\* No frames lead from a mark to itself,
LEMMA LeadsNil ==
  ASSUME NEW a \in Marks, NEW conn
  PROVE  Leads(<<>>, a, a, conn)
<1>1. PICK tr : tr = [i \in 0 .. 0 |-> a]
  OBVIOUS
<1>2. Len(<<>>) = 0 /\ 1 .. 0 = {}
  OBVIOUS
<1>3. Path(<<>>, tr, conn) /\ tr[0] = a
  BY <1>1, <1>2 DEF Path
<1> QED
  BY <1>2, <1>3 DEF Leads

\* and nowhere else.
LEMMA LeadsNowhere ==
  ASSUME NEW a, NEW b, NEW conn, Leads(<<>>, a, b, conn)
  PROVE  a = b
<1>1. Len(<<>>) = 0
  OBVIOUS
<1> QED
  BY <1>1 DEF Leads

\* Frames lead from marks to marks.
LEMMA LeadsType ==
  ASSUME NEW T, NEW q \in Seq(T), NEW a, NEW b, NEW conn, Leads(q, a, b, conn)
  PROVE  a \in Marks /\ b \in Marks
<1>1. PICK tr : Path(q, tr, conn) /\ tr[0] = a /\ tr[Len(q)] = b
  BY DEF Leads
<1>2. Len(q) \in Nat
  OBVIOUS
<1> QED
  BY <1>1, <1>2 DEF Path

\* A sequence of one.
LEMMA Single ==
  ASSUME NEW T, NEW x \in T
  PROVE  <<x>> \in Seq(T) /\ Len(<<x>>) = 1 /\ <<x>>[1] = x
OBVIOUS

\* One frame that fits leads to the mark after it.
LEMMA LeadsOne ==
  ASSUME NEW a \in Marks, NEW f \in DownFrames, NEW conn, Fits(a, f, conn)
  PROVE  Leads(<<f>>, a, After(a, f, conn), conn)
<1>1. PICK b \in Marks : b = After(a, f, conn)
  BY AfterType
<1>2. PICK tr : tr = [i \in 0 .. 1 |-> IF i = 0 THEN a ELSE b]
  OBVIOUS
<1>3. PICK q \in Seq(DownFrames) : q = <<f>>
  BY Single
<1>4. Len(q) = 1 /\ q[1] = f
  BY <1>3, Single
<1>5. tr \in [0 .. 1 -> Marks] /\ tr[0] = a /\ tr[1] = b
  BY <1>2
<1>6. ASSUME NEW i \in 1 .. 1 PROVE Fits(tr[i - 1], q[i], conn) /\ tr[i] = After(tr[i - 1], q[i], conn)
  <2>1. i = 1 /\ i - 1 = 0
    OBVIOUS
  <2> QED
    BY <1>1, <1>4, <1>5, <2>1
<1>7. Path(q, tr, conn)
  BY <1>4, <1>5, <1>6 DEF Path
<1> QED
  BY <1>1, <1>3, <1>4, <1>5, <1>7 DEF Leads

\* Where one sequence ends another can go on.
LEMMA LeadsConcat ==
  ASSUME NEW q \in Seq(DownFrames), NEW r \in Seq(DownFrames), NEW a, NEW b, NEW c, NEW conn,
         Leads(q, a, b, conn), Leads(r, b, c, conn)
  PROVE  Leads(q \o r, a, c, conn)
<1>1. PICK tr1 : Path(q, tr1, conn) /\ tr1[0] = a /\ tr1[Len(q)] = b
  BY DEF Leads
<1>2. PICK tr2 : Path(r, tr2, conn) /\ tr2[0] = b /\ tr2[Len(r)] = c
  BY DEF Leads
<1>3. PICK s \in Seq(DownFrames) : s = q \o r
  BY ConcatProperties
<1>4. PICK n \in Nat : n = Len(q)
  OBVIOUS
<1>5. PICK m \in Nat : m = Len(r)
  OBVIOUS
<1>6. /\ Len(s) = n + m
      /\ \A i \in 1 .. n : s[i] = q[i]
      /\ \A i \in 1 .. m : s[n + i] = r[i]
  BY <1>3, <1>4, <1>5, ConcatProperties
<1>7. PICK tr : tr = [i \in 0 .. n + m |-> IF i <= n THEN tr1[i] ELSE tr2[i - n]]
  OBVIOUS
<1>8. tr1 \in [0 .. n -> Marks] /\ tr2 \in [0 .. m -> Marks]
  BY <1>1, <1>2, <1>4, <1>5 DEF Path
<1>9. tr \in [0 .. n + m -> Marks]
  <2>1. ASSUME NEW i \in 0 .. n + m PROVE tr[i] \in Marks
    <3>1. CASE i <= n
      BY <1>7, <1>8, <3>1
    <3>2. CASE ~(i <= n)
      <4>1. i - n \in 0 .. m
        BY <3>2
      <4> QED
        BY <1>7, <1>8, <3>2, <4>1
    <3> QED
      BY <3>1, <3>2
  <2> QED
    BY <1>7, <2>1
<1>10. \A i \in 0 .. n : tr[i] = tr1[i]
  BY <1>7
<1>11. \A i \in 0 .. m : tr[n + i] = tr2[i]
  <2>1. ASSUME NEW i \in 0 .. m PROVE tr[n + i] = tr2[i]
    <3>1. CASE i = 0
      <4>1. n + i = n /\ n \in 0 .. n
        BY <3>1
      <4> QED
        BY <1>1, <1>2, <1>4, <1>10, <3>1, <4>1
    <3>2. CASE i # 0
      <4>1. n + i \in 0 .. n + m /\ ~(n + i <= n) /\ n + i - n = i
        BY <3>2
      <4> QED
        BY <1>7, <4>1
    <3> QED
      BY <3>1, <3>2
  <2> QED
    BY <2>1
<1>12. ASSUME NEW i \in 1 .. n + m
       PROVE  Fits(tr[i - 1], s[i], conn) /\ tr[i] = After(tr[i - 1], s[i], conn)
  <2>1. CASE i <= n
    <3>1. i \in 1 .. n /\ i \in 0 .. n /\ i - 1 \in 0 .. n
      BY <2>1
    <3>2. Fits(tr1[i - 1], q[i], conn) /\ tr1[i] = After(tr1[i - 1], q[i], conn)
      BY <1>1, <1>4, <3>1 DEF Path
    <3>3. s[i] = q[i] /\ tr[i] = tr1[i] /\ tr[i - 1] = tr1[i - 1]
      BY <1>6, <1>10, <3>1
    <3> QED
      BY <3>2, <3>3
  <2>2. CASE ~(i <= n)
    <3>1. PICK k \in 1 .. m : k = i - n
      BY <2>2
    <3>2. k \in 0 .. m /\ k - 1 \in 0 .. m /\ i = n + k /\ i - 1 = n + (k - 1)
      BY <3>1
    <3>3. Fits(tr2[k - 1], r[k], conn) /\ tr2[k] = After(tr2[k - 1], r[k], conn)
      BY <1>2, <1>5, <3>1 DEF Path
    <3>4. s[i] = r[k] /\ tr[i] = tr2[k] /\ tr[i - 1] = tr2[k - 1]
      BY <1>6, <1>11, <3>1, <3>2
    <3> QED
      BY <3>3, <3>4
  <2> QED
    BY <2>1, <2>2
<1>13. Path(s, tr, conn)
  BY <1>6, <1>9, <1>12 DEF Path
<1>14. tr[0] = a /\ tr[Len(s)] = c
  <2>1. 0 \in 0 .. n /\ m \in 0 .. m
    OBVIOUS
  <2> QED
    BY <1>1, <1>2, <1>5, <1>6, <1>10, <1>11, <2>1
<1> QED
  BY <1>3, <1>13, <1>14 DEF Leads

\* A path without its first step: used whenever a guest takes the head of its inbox.
LEMMA LeadsTail ==
  ASSUME NEW q \in Seq(DownFrames), q # <<>>, NEW a, NEW b, NEW conn, Leads(q, a, b, conn)
  PROVE  Fits(a, Head(q), conn) /\ Leads(Tail(q), After(a, Head(q), conn), b, conn)
<1>1. PICK tr : Path(q, tr, conn) /\ tr[0] = a /\ tr[Len(q)] = b
  BY DEF Leads
<1>2. PICK r \in Seq(DownFrames) : r = Tail(q)
  BY HeadTailProperties
<1>3. PICK n \in Nat : n = Len(r)
  OBVIOUS
<1>4. Len(q) = n + 1 /\ Head(q) = q[1] /\ \A i \in 1 .. n : r[i] = q[i + 1]
  BY <1>2, <1>3
<1>5. tr \in [0 .. n + 1 -> Marks]
  BY <1>1, <1>4 DEF Path
<1>6. ASSUME NEW i \in 1 .. n + 1
      PROVE  Fits(tr[i - 1], q[i], conn) /\ tr[i] = After(tr[i - 1], q[i], conn)
  BY <1>1, <1>4 DEF Path
<1>7. Fits(a, q[1], conn) /\ tr[1] = After(a, q[1], conn)
  <2>1. 1 \in 1 .. n + 1 /\ 1 - 1 = 0
    OBVIOUS
  <2> QED
    BY <1>1, <1>6, <2>1
<1>8. PICK t : t = [i \in 0 .. n |-> tr[i + 1]]
  OBVIOUS
<1>9. t \in [0 .. n -> Marks] /\ t[0] = tr[1] /\ t[n] = tr[n + 1]
  BY <1>5, <1>8
<1>10. ASSUME NEW i \in 1 .. n
       PROVE  Fits(t[i - 1], r[i], conn) /\ t[i] = After(t[i - 1], r[i], conn)
  <2>1. i + 1 \in 1 .. n + 1 /\ i + 1 - 1 = i /\ i - 1 + 1 = i /\ i \in 0 .. n /\ i - 1 \in 0 .. n
    OBVIOUS
  <2>2. Fits(tr[i], q[i + 1], conn) /\ tr[i + 1] = After(tr[i], q[i + 1], conn)
    BY <1>6, <2>1
  <2>3. t[i - 1] = tr[i] /\ t[i] = tr[i + 1]
    BY <1>8, <2>1
  <2> QED
    BY <1>4, <2>2, <2>3
<1>11. Path(r, t, conn)
  BY <1>3, <1>9, <1>10 DEF Path
<1> QED
  BY <1>1, <1>2, <1>3, <1>4, <1>7, <1>9, <1>11 DEF Leads

\* The beginnings of the log.
LEMMA UptoFacts ==
  ASSUME NEW n \in Nat
  PROVE  /\ Upto(n) \in Seq(Nat) /\ Len(Upto(n)) = n
         /\ Append(Upto(n), n + 1) = Upto(n + 1)
<1>1. PICK u : u = Upto(n)
  OBVIOUS
<1>2. u \in Seq(Nat) /\ Len(u) = n /\ \A k \in 1 .. n : u[k] = k
  BY <1>1 DEF Upto
<1>3. PICK v : v = Upto(n + 1)
  OBVIOUS
<1>4. v \in Seq(Nat) /\ Len(v) = n + 1 /\ \A k \in 1 .. n + 1 : v[k] = k
  BY <1>3 DEF Upto
<1>5. PICK w \in Seq(Nat) : w = Append(u, n + 1)
  <2>1. n + 1 \in Nat
    OBVIOUS
  <2> QED
    BY <1>2, <2>1, AppendProperties
<1>6. Len(w) = n + 1 /\ \A k \in 1 .. n + 1 : w[k] = k
  BY <1>2, <1>5
<1>7. v = w
  BY <1>4, <1>6, SeqEqual
<1> QED
  BY <1>1, <1>2, <1>3, <1>5, <1>7

\* A log without entries.
LEMMA UptoNil == Upto(0) = <<>>
BY UptoFacts, EmptySeq

\* The entries that follow the first n make the log longer.
LEMMA UptoConcat ==
  ASSUME NEW n \in Nat, NEW m \in Nat, NEW q \in Seq(Nat), Len(q) = m,
         q = [k \in 1 .. m |-> n + k]
  PROVE  Upto(n) \o q = Upto(n + m)
<1>1. PICK u \in Seq(Nat) : u = Upto(n)
  BY UptoFacts
<1>2. Len(u) = n /\ \A k \in 1 .. n : u[k] = k
  BY <1>1, UptoFacts DEF Upto
<1>3. PICK w \in Seq(Nat) : w = u \o q
  BY ConcatProperties
<1>4. Len(w) = n + m /\ \A k \in 1 .. n + m : w[k] = IF k <= n THEN u[k] ELSE q[k - n]
  <2>1. /\ Len(w) = Len(u) + Len(q)
        /\ \A k \in 1 .. Len(u) + Len(q) : w[k] = IF k <= Len(u) THEN u[k] ELSE q[k - Len(u)]
    BY <1>3, ConcatProperties
  <2>2. Len(u) = n /\ Len(q) = m
    BY <1>2
  <2> QED
    BY <2>1, <2>2
<1>5. ASSUME NEW k \in 1 .. n + m PROVE w[k] = k
  <2>1. CASE k <= n
    BY <1>2, <1>4, <2>1
  <2>2. CASE ~(k <= n)
    <3>1. k - n \in 1 .. m
      BY <2>2
    <3>2. q[k - n] = n + (k - n)
      BY <3>1
    <3> QED
      BY <1>4, <2>2, <3>2
  <2> QED
    BY <2>1, <2>2
<1>6. PICK v \in Seq(Nat) : v = Upto(n + m)
  BY UptoFacts
<1>7. Len(v) = n + m /\ \A k \in 1 .. n + m : v[k] = k
  BY <1>6, UptoFacts DEF Upto
<1>8. v = w
  BY <1>4, <1>5, <1>7, SeqEqual
<1> QED
  BY <1>1, <1>3, <1>6, <1>8

-----------------------------------------------------------------------------
\* What a guest does with a frame keeps it in agreement with its mark.
Steps(s, n, e, f, conn) == /\ Matches(n, After(e, f, conn), conn)
                           /\ \A q, h : Attentive(s, q, h, e) => Attentive(n, q, h, After(e, f, conn))

\* A welcome moves the guest as it moves the mark.
LEMMA WelcomeSteps ==
  ASSUME NEW s \in GuestStates, NEW f \in DownFrames, NEW e \in Marks, NEW conn \in Connections,
         s.loading = None, f.t = "welcome", Matches(s, e, conn), Fits(e, f, conn)
  PROVE  Steps(s, BeginWelcome(s, f), e, f, conn)
<1>1. f.count \in Nat /\ f.by \in Connections
  BY DEF DownFrames
<1>2. PICK n : n = BeginWelcome(s, f)
  OBVIOUS
<1>3. PICK x : x = [entries |-> <<>>, count |-> f.count, by |-> f.by]
  OBVIOUS
<1>4. x \in Snapshots /\ x.by = f.by /\ x # None
  <2>1. <<>> \in Seq(Nat)
    OBVIOUS
  <2>2. x \in Snapshots /\ x.by = f.by
    BY <1>1, <1>3, <2>1 DEF Snapshots
  <2> QED
    BY <2>2, NoneAssumption
<1>5. /\ n.source = s.source /\ n.welcomed = s.welcomed /\ n.replica = s.replica
      /\ n.loading = IF f.count = 0 THEN x ELSE None
      /\ n.snapshot = IF f.count = 0 THEN None ELSE x
  BY <1>2, <1>3 DEF BeginWelcome, GuestStates
<1>6. PICK a \in Marks : a = After(e, f, conn)
  BY AfterType
<1>7. CASE f.by = conn
  <2>1. /\ a.known /\ a.log = f.count /\ a.open /\ a.got = 0 /\ a.asks = {}
        /\ Collecting(a) <=> f.count # 0
    BY <1>1, <1>6, <1>7 DEF After, Collecting
  <2>2. e.known => f.count = e.log /\ ~e.open
    BY DEF Fits
  <2>3. ~(s.source = conn /\ s.welcomed) \/ s.replica = Upto(e.log)
    BY DEF Matches
  <2>4. ~e.known => s.source # conn
    BY DEF Matches
  <2>5. n.source = conn /\ n.welcomed => n.replica = Upto(a.log)
    BY <1>5, <2>1, <2>2, <2>3, <2>4
  <2>6. x = [entries |-> Upto(0), count |-> f.count, by |-> conn]
    BY <1>3, <1>7, UptoNil
  <2>7. CASE f.count = 0
    <3>1. ~Collecting(a) /\ n.snapshot = None /\ n.loading = x /\ n.loading # None
      BY <1>4, <1>5, <2>1, <2>7
    <3>2. Matches(n, a, conn)
      BY <2>1, <2>5, <2>6, <2>7, <3>1 DEF Matches
    <3>3. \A q, h : Attentive(n, q, h, a)
      BY <3>1 DEF Attentive
    <3> QED
      BY <1>2, <1>6, <3>2, <3>3 DEF Steps
  <2>8. CASE f.count # 0
    <3>1. Collecting(a) /\ n.snapshot = x /\ n.loading = None /\ a.got < a.log
      BY <1>1, <1>5, <2>1, <2>8
    <3>2. Matches(n, a, conn)
      BY <2>1, <2>5, <2>6, <2>8, <3>1 DEF Matches
    <3>3. \A q, h : Attentive(n, q, h, a)
      BY <3>1 DEF Attentive
    <3> QED
      BY <1>2, <1>6, <3>2, <3>3 DEF Steps
  <2> QED
    BY <2>7, <2>8
<1>8. CASE f.by # conn
  <2>1. ~e.known /\ a = e
    BY <1>6, <1>8 DEF Fits, After
  <2>2. Matches(n, a, conn)
    BY <1>4, <1>5, <1>8, <2>1 DEF Matches
  <2>3. \A q, h : Attentive(n, q, h, a)
    BY <2>1 DEF Attentive
  <2> QED
    BY <1>2, <1>6, <2>2, <2>3 DEF Steps
<1> QED
  BY <1>7, <1>8

\* A chunk moves the guest as it moves the mark, the last one into the load.
LEMMA ChunkSteps ==
  ASSUME NEW s \in GuestStates, NEW f \in DownFrames, NEW e \in Marks, NEW conn \in Connections,
         s.loading = None, f.t = "chunk", Matches(s, e, conn), Fits(e, f, conn)
  PROVE  Steps(s, ApplyChunk(s, f), e, f, conn)
<1>1. f.entries \in Seq(Nat) /\ f.final \in BOOLEAN
  BY DEF DownFrames
<1>2. PICK m \in Nat : m = Len(f.entries)
  BY <1>1
<1>3. PICK n : n = ApplyChunk(s, f)
  OBVIOUS
<1>4. PICK x : x = Accumulated(s.snapshot, f)
  OBVIOUS
<1>5. PICK a \in Marks : a = After(e, f, conn)
  BY AfterType
<1>6. s.snapshot \in Snapshots \cup {None}
  BY DEF GuestStates
<1>7. s.snapshot # None =>
        /\ x \in Snapshots /\ x.by = s.snapshot.by /\ x.count = s.snapshot.count
        /\ x.entries = s.snapshot.entries \o f.entries /\ x # None
  <2>1. ASSUME s.snapshot # None
        PROVE  /\ x \in Snapshots /\ x.by = s.snapshot.by /\ x.count = s.snapshot.count
               /\ x.entries = s.snapshot.entries \o f.entries
    <3>1. PICK y \in Snapshots : y = s.snapshot
      BY <1>6, <2>1
    <3>2. y.entries \in Seq(Nat) /\ y = [entries |-> y.entries, count |-> y.count, by |-> y.by]
      BY DEF Snapshots
    <3>3. PICK z \in Seq(Nat) : z = y.entries \o f.entries
      BY <1>1, <3>2, ConcatProperties
    <3>4. x = [y EXCEPT !.entries = z]
      BY <1>4, <3>1, <3>3 DEF Accumulated
    <3> QED
      BY <3>1, <3>3, <3>4 DEF Snapshots
  <2> QED
    BY <2>1, NoneAssumption
<1>8. /\ n.source = s.source /\ n.welcomed = s.welcomed /\ n.replica = s.replica
      /\ n.dialogs = s.dialogs
      /\ s.snapshot = None => n = s
      /\ s.snapshot # None =>
           IF f.final \/ Len(x.entries) >= x.count THEN n.loading = x /\ n.snapshot = None
                                                   ELSE n.loading = None /\ n.snapshot = x
  BY <1>3, <1>4 DEF ApplyChunk, GuestStates
<1>9. CASE ~e.known
  <2>1. a = e
    BY <1>5, <1>9 DEF After
  <2>2. s.snapshot # None => x.by # conn
    BY <1>7, <1>9 DEF Matches
  <2>3. Matches(n, a, conn)
    <3>1. CASE s.snapshot = None
      BY <1>8, <2>1, <3>1
    <3>2. CASE s.snapshot # None
      BY <1>7, <1>8, <1>9, <2>1, <2>2, <3>2 DEF Matches
    <3> QED
      BY <3>1, <3>2
  <2>4. \A q, h : Attentive(n, q, h, a)
    BY <1>9, <2>1 DEF Attentive
  <2> QED
    BY <1>3, <1>5, <2>3, <2>4 DEF Steps
<1>10. CASE e.known
  <2>1. /\ e.open /\ e.got + m <= e.log /\ f.entries = [k \in 1 .. m |-> e.got + k]
        /\ f.final = (e.got + m = e.log)
    BY <1>2, <1>10 DEF Fits
  <2>2. /\ e.got \in Nat /\ e.log \in Nat
        /\ a.known /\ a.log = e.log /\ a.got = e.got + m /\ a.open = ~f.final /\ a.asks = e.asks
    <3>1. e.got \in Nat /\ e.log \in Nat
      BY DEF Marks
    <3>2. a = [e EXCEPT !.got = @ + Len(f.entries), !.open = ~f.final]
      BY <1>5, <1>10 DEF After
    <3> QED
      BY <1>2, <1>10, <3>1, <3>2 DEF Marks
  <2>3. e.asks = {}
    BY <1>10, <2>1 DEF Matches
  <2>4. n.source = conn /\ n.welcomed => n.replica = Upto(a.log)
    BY <1>8, <1>10, <2>2 DEF Matches
  <2>5. CASE e.log > 0
    <3>1. /\ s.snapshot = [entries |-> Upto(e.got), count |-> e.log, by |-> conn]
          /\ e.got < e.log
      BY <1>10, <2>1, <2>5 DEF Matches, Collecting
    <3>2. s.snapshot # None
      <4>1. s.snapshot \in Snapshots
        BY <2>2, <3>1, UptoFacts DEF Snapshots
      <4> QED
        BY <4>1, NoneAssumption
    <3>3. Upto(e.got) \o f.entries = Upto(e.got + m)
      BY <1>1, <1>2, <2>1, <2>2, UptoConcat
    <3>4. x = [entries |-> Upto(e.got + m), count |-> e.log, by |-> conn]
      <4>1. PICK u : u = Upto(e.got)
        OBVIOUS
      <4>2. PICK v : v = u \o f.entries
        OBVIOUS
      <4>3. s.snapshot = [entries |-> u, count |-> e.log, by |-> conn]
        BY <3>1, <4>1
      <4>4. x = [s.snapshot EXCEPT !.entries = v]
        <5>1. s.snapshot.entries = u
          BY <4>3
        <5> QED
          BY <1>4, <4>2, <5>1 DEF Accumulated
      <4>5. x = [entries |-> v, count |-> e.log, by |-> conn]
        BY <4>3, <4>4
      <4> QED
        BY <3>3, <4>1, <4>2, <4>5
    <3>5. x # None /\ Len(x.entries) = e.got + m /\ x.count = e.log
      <4>1. e.got + m \in Nat
        BY <2>2
      <4>2. Len(Upto(e.got + m)) = e.got + m
        BY <4>1, UptoFacts
      <4> QED
        BY <1>7, <3>2, <3>4, <4>2
    <3>6. CASE f.final
      <4>1. e.got + m = e.log /\ ~a.open /\ ~Collecting(a)
        BY <2>1, <2>2, <3>6 DEF Collecting
      <4>2. n.loading = x /\ n.snapshot = None
        BY <1>8, <3>2, <3>6
      <4>3. Matches(n, a, conn)
        BY <2>2, <2>3, <2>4, <3>4, <3>5, <4>1, <4>2 DEF Matches
      <4>4. \A q, h : Attentive(n, q, h, a)
        BY <3>5, <4>2 DEF Attentive
      <4> QED
        BY <1>3, <1>5, <4>3, <4>4 DEF Steps
    <3>7. CASE ~f.final
      <4>0. e.got + m # e.log /\ e.got + m <= e.log
        BY <2>1, <3>7
      <4>1. e.got + m < e.log /\ a.open /\ Collecting(a)
        <5>1. e.got + m < e.log
          BY <2>2, <4>0
        <5> QED
          BY <2>2, <2>5, <3>7, <5>1 DEF Collecting
      <4>2. ~(Len(x.entries) >= x.count)
        BY <2>2, <3>5, <4>1
      <4>3. n.loading = None /\ n.snapshot = x
        BY <1>8, <3>2, <3>7, <4>2
      <4>4. Matches(n, a, conn)
        BY <2>2, <2>3, <2>4, <3>4, <4>1, <4>3 DEF Matches
      <4>5. \A q, h : Attentive(n, q, h, a)
        BY <4>1 DEF Attentive
      <4> QED
        BY <1>3, <1>5, <4>4, <4>5 DEF Steps
    <3> QED
      BY <3>6, <3>7
  <2>6. CASE e.log = 0
    <3>0. e.got + m = e.log /\ ~(e.log > 0)
      BY <2>1, <2>2, <2>6
    <3>1. f.final /\ ~a.open /\ ~Collecting(a) /\ ~Collecting(e)
      BY <2>1, <2>2, <3>0 DEF Collecting
    <3>2. s.snapshot = None /\ n = s /\ s.source = conn /\ s.welcomed /\ s.dialogs \subseteq e.asks
      BY <1>8, <1>10, <3>1 DEF Matches
    <3>3. Matches(n, a, conn)
      BY <2>2, <2>3, <2>4, <3>1, <3>2 DEF Matches
    <3>4. \A q, h : Attentive(n, q, h, a)
      BY <2>2, <2>3 DEF Attentive
    <3> QED
      BY <1>3, <1>5, <3>3, <3>4 DEF Steps
  <2> QED
    BY <2>2, <2>5, <2>6
<1> QED
  BY <1>9, <1>10

\* An entry, a dialog or an error moves the guest as it moves the mark, before the welcome too.
LEMMA FrameSteps ==
  ASSUME NEW s \in GuestStates, NEW f \in DownFrames, NEW e \in Marks, NEW conn \in Connections,
         s.loading = None, f.t \notin {"welcome", "chunk"}, Matches(s, e, conn), Fits(e, f, conn)
  PROVE  Steps(s, ApplyFrame(s, f), e, f, conn)
<1>1. PICK n : n = ApplyFrame(s, f)
  OBVIOUS
<1>2. PICK a \in Marks : a = After(e, f, conn)
  BY AfterType
<1>3. /\ n.source = s.source /\ n.welcomed = s.welcomed /\ n.loading = None
      /\ n.snapshot = s.snapshot /\ n.peer = s.peer
  BY <1>1 DEF ApplyFrame, GuestStates
<1>4. CASE ~e.known
  <2>1. a = e
    BY <1>2, <1>4 DEF After
  <2>2. Matches(n, a, conn)
    BY <1>3, <1>4, <2>1 DEF Matches
  <2>3. \A q, h : Attentive(n, q, h, a)
    BY <1>4, <2>1 DEF Attentive
  <2> QED
    BY <1>1, <1>2, <2>2, <2>3 DEF Steps
<1>5. CASE e.known
  <2>1. /\ ~e.open /\ ~Collecting(e)
    BY <1>5 DEF Fits, Collecting
  <2>2. /\ s.snapshot = None /\ s.source = conn /\ s.welcomed /\ s.replica = Upto(e.log)
        /\ s.dialogs \subseteq e.asks
    BY <1>5, <2>1 DEF Matches
  <2>3. e.log \in Nat /\ e.asks \subseteq Nat /\ s.dialogs \subseteq Nat
    BY DEF Marks, GuestStates
  <2>4. CASE f.t = "entry"
    <3>1. f.n = e.log + 1
      BY <1>5, <2>4 DEF Fits
    <3>2. a = [e EXCEPT !.log = @ + 1]
      BY <1>2, <1>5, <2>4 DEF After
    <3>3. a.known /\ a.log = e.log + 1 /\ ~a.open /\ a.asks = e.asks /\ ~Collecting(a)
      BY <1>5, <2>1, <3>2 DEF Marks, Collecting
    <3>4. n = [s EXCEPT !.replica = Append(@, f.n)]
      BY <1>1, <2>2, <2>4 DEF ApplyFrame
    <3>5. n.replica = Append(s.replica, f.n) /\ n.dialogs = s.dialogs
      BY <3>4 DEF GuestStates
    <3>6. n.replica = Upto(a.log)
      BY <2>2, <2>3, <3>1, <3>3, <3>5, UptoFacts
    <3>7. Matches(n, a, conn)
      BY <1>3, <2>2, <3>3, <3>5, <3>6 DEF Matches
    <3>8. \A q, h : Attentive(s, q, h, e) => Attentive(n, q, h, a)
      BY <1>3, <1>5, <2>1, <3>3, <3>5 DEF Attentive
    <3> QED
      BY <1>1, <1>2, <3>7, <3>8 DEF Steps
  <2>5. CASE f.t \in {"ask", "end"}
    <3>1. PICK id \in Nat : id = f.id
      BY <2>5 DEF DownFrames
    <3>2. /\ a.known /\ a.log = e.log /\ ~a.open /\ ~Collecting(a)
          /\ a.asks = IF f.t = "ask" THEN e.asks \cup {id} ELSE e.asks \ {id}
      BY <1>2, <1>5, <2>1, <2>5, <3>1 DEF After, Marks, Collecting
    <3>3. /\ n.replica = s.replica
          /\ n.dialogs = IF f.t = "ask" THEN s.dialogs \cup {id} ELSE s.dialogs \ {id}
      BY <1>1, <2>2, <2>5, <3>1 DEF ApplyFrame, GuestStates
    <3>4. Matches(n, a, conn)
      BY <1>3, <2>2, <3>2, <3>3 DEF Matches
    <3>5. \A q, h : Attentive(s, q, h, e) => Attentive(n, q, h, a)
      BY <1>3, <1>5, <2>1, <3>2, <3>3 DEF Attentive
    <3> QED
      BY <1>1, <1>2, <3>4, <3>5 DEF Steps
  <2>6. CASE f.t = "error"
    <3>1. a = e /\ n = s
      BY <1>1, <1>2, <1>5, <2>2, <2>6 DEF After, ApplyFrame
    <3> QED
      BY <1>1, <1>2, <3>1 DEF Steps
  <2>7. f.t \in {"entry", "ask", "end", "error"}
    BY DEF DownFrames
  <2> QED
    BY <2>4, <2>5, <2>6, <2>7
<1> QED
  BY <1>4, <1>5

\* A finite set as a sequence: every member once.
Lists(q, S) ==
  /\ q \in Seq(S)
  /\ \A i, j \in 1 .. Len(q) : q[i] = q[j] => i = j
  /\ \A x \in S : \E i \in 1 .. Len(q) : q[i] = x

\* SetToSeq lists a finite set.
LEMMA Listed ==
  ASSUME NEW S, IsFiniteSet(S)
  PROVE  Lists(SetToSeq(S), S)
<1>0. PICK q : q = SetToSeq(S)
  OBVIOUS
<1>1. PICK n \in Nat : n = Cardinality(S)
  BY FS_CardinalityType
<1>2. ExistsBijection(1 .. n, S)
  BY <1>1, FS_CardinalityType
<1>3. \E f \in [1 .. n -> S] : IsInjective(f)
  BY <1>2 DEF ExistsBijection, Bijection, Injection, IsInjective
<1>4. q \in [1 .. n -> S] /\ IsInjective(q)
  BY <1>0, <1>1, <1>3 DEF SetToSeq
<1>5. q \in Injection(1 .. n, S)
  BY <1>4 DEF Injection, IsInjective
<1>6. IsFiniteSet(1 .. n) /\ Cardinality(1 .. n) = n
  BY FS_Interval
<1>7. q \in Surjection(1 .. n, S)
  BY <1>1, <1>5, <1>6, FS_Injection
<1>8. \A x \in S : \E i \in 1 .. n : q[i] = x
  BY <1>7 DEF Surjection
<1>9. q \in Seq(S) /\ Len(q) = n
  BY <1>4
<1> QED
  BY <1>0, <1>4, <1>8, <1>9 DEF IsInjective, Lists

\* A frame to all writers: one for each.
OneEach(q, f, ps) ==
  /\ q \in Seq(DownFrames)
  /\ \E s \in Seq(ps) : /\ Len(s) = Len(q) 
                        /\ \A i, j \in 1 .. Len(s) : s[i] = s[j] => i = j
                        /\ \A p \in ps : \E i \in 1 .. Len(s) : s[i] = p
                        /\ \A i \in 1 .. Len(q) : q[i] = f[s[i]] /\ q[i].to = s[i]

\* One frame for each of a set of peers: what one of them finds there.
LEMMA OneEachFor ==
  ASSUME NEW ps \in SUBSET Nat, 0 \notin ps, NEW f, NEW q, OneEach(q, f, ps), NEW p \in Nat
  PROVE  ForPeer(q, p) = IF p \in ps THEN <<f[p]>> ELSE <<>>
<1>1. PICK s \in Seq(ps) : 
        /\ Len(s) = Len(q) 
        /\ \A i, j \in 1 .. Len(s) : s[i] = s[j] => i = j
        /\ \A x \in ps : \E i \in 1 .. Len(s) : s[i] = x
        /\ \A i \in 1 .. Len(q) : q[i] = f[s[i]] /\ q[i].to = s[i]
  BY DEF OneEach
<1>2. q \in Seq(DownFrames) /\ Len(q) \in Nat /\ \A i \in 1 .. Len(q) : s[i] \in ps
  BY <1>1 DEF OneEach
<1>3. CASE p \notin ps
  <2>1. \A i \in 1 .. Len(q) : q[i].to \notin {Everyone, p}
    BY <1>1, <1>2, <1>3 DEF Everyone
  <2> QED
    BY <1>2, <1>3, <2>1, ForPeerNone
<1>4. CASE p \in ps
  <2>1. PICK k \in 1 .. Len(q) : s[k] = p
    BY <1>1, <1>4
  <2>2. PICK K : K = {i \in DOMAIN q : q[i].to \in {Everyone, p}}
    OBVIOUS
  <2>3. K = {k}
    <3>1. DOMAIN q = 1 .. Len(q)
      BY <1>2
    <3>2. ASSUME NEW i \in 1 .. Len(q) PROVE q[i].to \in {Everyone, p} <=> i = k
      <4>1. q[i].to = s[i] /\ s[i] # Everyone
        BY <1>1, <1>2 DEF Everyone
      <4>2. s[i] = p <=> i = k
        BY <1>1, <2>1
      <4> QED
        BY <4>1, <4>2
    <3> QED
      BY <2>2, <3>1, <3>2
  <2>4. PICK o \in Seq(DownFrames) : o = Only(q, K)
    BY <1>2, OnlyType
  <2>5. PICK h : Embeds(o, q, K, h)
    BY <1>2, <2>4, OnlyEmbeds
  <2>6. PICK i \in 1 .. Len(o) : h[i] = k
    BY <2>3, <2>5 DEF Embeds
  <2>7. \A j \in 1 .. Len(o) : h[j] = k
    BY <2>3, <2>5 DEF Embeds
  <2>8. \A j, m \in 1 .. Len(o) : ~(j < m)
    <3>1. \A j, m \in 1 .. Len(o) : j < m => h[j] < h[m]
      BY <2>5 DEF Embeds
    <3>2. k \in Nat
      OBVIOUS
    <3> QED
      BY <2>7, <3>1, <3>2
  <2>9. Len(o) = 1
    <3>1. Len(o) \in Nat /\ i \in 1 .. Len(o)
      BY <2>6
    <3>2. 1 \in 1 .. Len(o) /\ (Len(o) > 1 => 2 \in 1 .. Len(o))
      BY <3>1
    <3> QED
      BY <2>8, <3>1, <3>2
  <2>10. o[1] = f[p]
    <3>1. 1 \in 1 .. Len(o)
      BY <2>9
    <3>2. o[1] = q[h[1]] /\ h[1] = k
      BY <2>5, <2>7, <3>1 DEF Embeds
    <3> QED
      BY <1>1, <2>1, <3>2
  <2>11. f[p] \in DownFrames
    <3>1. 1 \in 1 .. Len(o)
      BY <2>9
    <3>2. o[1] \in DownFrames
      BY <3>1, ElementOfSeq
    <3> QED
      BY <2>10, <3>2
  <2>12. o = <<f[p]>>
    <3>1. PICK y \in DownFrames : y = f[p]
      BY <2>11
    <3>2. <<y>> \in Seq(DownFrames) /\ Len(<<y>>) = 1 /\ <<y>>[1] = y
      BY Single
    <3>3. \A j \in 1 .. Len(o) : o[j] = <<y>>[j]
      BY <2>9, <2>10, <3>1, <3>2
    <3>4. o = <<y>>
      BY <2>9, <3>2, <3>3, SeqEqual
    <3> QED
      BY <3>1, <3>4
  <2> QED
    BY <1>4, <2>2, <2>4, <2>12 DEF ForPeer
<1> QED
  BY <1>3, <1>4

\* A dialog's frame goes to each writer once.
LEMMA ToWritersEach ==
  ASSUME NEW h, h.writers \in SUBSET Nat, IsFiniteSet(h.writers), NEW t \in {"ask", "end"}, NEW id \in Nat
  PROVE  OneEach(ToWriters(h, t, id), [p \in h.writers |-> DialogFrame(p, t, id)], h.writers)
<1>0. PICK W \in SUBSET Nat : W = h.writers /\ IsFiniteSet(W)
  OBVIOUS
<1>1. PICK s : s = SetToSeq(W)
  OBVIOUS
<1>2. /\ s \in Seq(W)
      /\ \A i, j \in 1 .. Len(s) : s[i] = s[j] => i = j
      /\ \A x \in W : \E i \in 1 .. Len(s) : s[i] = x
  <2>1. Lists(s, W)
    BY <1>0, <1>1, Listed
  <2> QED
    BY <2>1 DEF Lists
<1>3. PICK q : q = [i \in DOMAIN s |-> DialogFrame(s[i], t, id)]
  OBVIOUS
<1>4. DOMAIN s = 1 .. Len(s) /\ Len(s) \in Nat /\ \A i \in 1 .. Len(s) : s[i] \in W
  BY <1>2
<1>5. \A i \in 1 .. Len(s) : q[i] = DialogFrame(s[i], t, id) /\ q[i] \in DownFrames /\ q[i].to = s[i]
  BY <1>3, <1>4 DEF DialogFrame, DownFrames
<1>6. q \in Seq(DownFrames) /\ Len(q) = Len(s)
  BY <1>3, <1>4, <1>5
<1>7. q = ToWriters(h, t, id)
  BY <1>0, <1>1, <1>3 DEF ToWriters
<1>8. PICK f : f = [p \in W |-> DialogFrame(p, t, id)]
  OBVIOUS
<1>9. \A i \in 1 .. Len(q) : q[i] = f[s[i]] /\ q[i].to = s[i]
  BY <1>4, <1>5, <1>6, <1>8
<1>10. OneEach(q, f, W)
  BY <1>2, <1>6, <1>9 DEF OneEach
<1>11. f = [p \in h.writers |-> DialogFrame(p, t, id)]
  BY <1>0, <1>8
<1> QED
  BY <1>0, <1>7, <1>10, <1>11
-----------------------------------------------------------------------------
\* Knowledge is never lost on the way, and needs a welcome of the connection.
LEMMA LeadsKnown ==
  ASSUME NEW q \in Seq(DownFrames), NEW a, NEW b, NEW conn, Leads(q, a, b, conn), a.known
  PROVE  b.known
<1>1. PICK tr : Path(q, tr, conn) /\ tr[0] = a /\ tr[Len(q)] = b
  BY DEF Leads
<1>2. PICK n \in Nat : n = Len(q)
  OBVIOUS
<1> DEFINE G == {i \in 0 .. n : tr[i].known}
<1>3. 0 \in G
  BY <1>1
<1>4. ASSUME NEW i \in 1 .. n, i - 1 \in G PROVE i \in G
  <2>1. tr[i - 1] \in Marks /\ tr[i - 1].known /\ tr[i] = After(tr[i - 1], q[i], conn)
    BY <1>1, <1>2, <1>4 DEF Path
  <2>2. PICK e \in Marks : e = tr[i - 1]
    BY <2>1
  <2>3. PICK f : f = q[i]
    OBVIOUS
  <2>4. After(e, f, conn).known
    BY <2>1, <2>2 DEF After, Marks
  <2> QED
    BY <2>1, <2>2, <2>3, <2>4
<1> HIDE DEF G
<1>5. \A i \in 0 .. n : i \in G
  BY <1>3, <1>4, Climb
<1> QED
  BY <1>1, <1>2, <1>5 DEF G

\* Frames without a welcome of this connection tell an unwelcomed guest nothing.
LEMMA LeadsUnaware ==
  ASSUME NEW q \in Seq(DownFrames), NEW conn,
         \A i \in 1 .. Len(q) : q[i].t = "welcome" => q[i].by # conn
  PROVE  Leads(q, Unaware, Unaware, conn)
<1>1. PICK n \in Nat : n = Len(q)
  OBVIOUS
<1>2. PICK tr : tr = [i \in 0 .. n |-> Unaware]
  OBVIOUS
<1>3. Unaware \in Marks /\ ~Unaware.known
  BY DEF Unaware, Marks
<1>4. ASSUME NEW i \in 1 .. n
      PROVE  Fits(tr[i - 1], q[i], conn) /\ tr[i] = After(tr[i - 1], q[i], conn)
  <2>1. tr[i - 1] = Unaware /\ tr[i] = Unaware
    BY <1>2
  <2>2. ~(q[i].t = "welcome" /\ q[i].by = conn)
    BY <1>1
  <2>3. Fits(Unaware, q[i], conn) /\ After(Unaware, q[i], conn) = Unaware
    BY <1>3, <2>2 DEF Fits, After
  <2> QED
    BY <2>1, <2>3
<1>5. tr \in [0 .. n -> Marks] /\ tr[0] = Unaware /\ tr[n] = Unaware
  BY <1>2, <1>3
<1>6. Path(q, tr, conn)
  BY <1>1, <1>4, <1>5 DEF Path
<1> QED
  BY <1>1, <1>5, <1>6 DEF Leads
-----------------------------------------------------------------------------
\* The snapshot: its parts make up the log.
Whole(n) == [known |-> TRUE, log |-> n, open |-> TRUE, got |-> 0, asks |-> {}]
Complete(n, ids) == [known |-> TRUE, log |-> n, open |-> FALSE, got |-> n, asks |-> ids]

Behind(n, i) == IF i * Chunk <= n THEN i * Chunk ELSE n

\* A chunk holds the entries behind those of the chunks before it.
LEMMA PartFacts ==
  ASSUME NEW n \in Nat, NEW i \in Nat, i > 0, (i - 1) * Chunk <= n
  PROVE  /\ Part(n, i) \in Seq(Nat)
         /\ Behind(n, i) \in Nat /\ Behind(n, i - 1) = (i - 1) * Chunk
         /\ Behind(n, i - 1) + Len(Part(n, i)) = Behind(n, i)
         /\ Part(n, i) = [k \in 1 .. Len(Part(n, i)) |-> Behind(n, i - 1) + k]
<1>1. Chunk \in Nat /\ Chunk > 0
  BY CollabAssumption
<1>2. PICK m \in Nat : m = (i - 1) * Chunk
  BY <1>1
<1>3. i * Chunk = m + Chunk
  BY <1>1, <1>2
<1>4. PICK l : l = IF i * Chunk <= n THEN Chunk ELSE n - m
  OBVIOUS
<1>5. l \in Nat /\ m <= n
  BY <1>1, <1>2, <1>3, <1>4
<1>6. PICK q : q = [k \in 1 .. l |-> m + k]
  OBVIOUS
<1>7. q \in Seq(Nat) /\ Len(q) = l
  BY <1>5, <1>6
<1>8. Part(n, i) = q
  BY <1>2, <1>4, <1>6 DEF Part
<1>9. Behind(n, i - 1) = m /\ Behind(n, i) = m + l
  BY <1>1, <1>2, <1>3, <1>4, <1>5 DEF Behind
<1> QED
  BY <1>2, <1>5, <1>6, <1>7, <1>8, <1>9

\* Rounding up: the last of the m parts is needed, and with it all n entries are there.
LEMMA CountFacts ==
  ASSUME NEW n \in Nat, NEW c \in Nat, c > 0, n > 0, NEW m, m = (n + c - 1) \div c
  PROVE  m \in Nat /\ m > 0 /\ m * c >= n /\ (m - 1) * c < n
OBVIOUS

\* Parts before the last one are not empty.
LEMMA EarlierPart ==
  ASSUME NEW n \in Nat, NEW c \in Nat, NEW i \in Nat, NEW m \in Nat, i < m, (m - 1) * c < n
  PROVE  i * c < n
OBVIOUS

\* The chunks of a snapshot take a guest from the welcome to the whole log (host.ts:434-457).
LEMMA ChunksLead ==
  ASSUME NEW h, h.log \in Nat, NEW p \in Nat, NEW conn
  PROVE  /\ Chunks(h, p) \in Seq(DownFrames)
         /\ \A i \in 1 .. Len(Chunks(h, p)) : Chunks(h, p)[i].to = p /\ Chunks(h, p)[i].t = "chunk"
         /\ Leads(Chunks(h, p), Whole(h.log), Complete(h.log, {}), conn)
<1>1. PICK n \in Nat : n = h.log
  OBVIOUS
<1>2. Chunk \in Nat /\ Chunk > 0
  BY CollabAssumption
<1>3. PICK count : count = IF n = 0 THEN 1 ELSE (n + Chunk - 1) \div Chunk
  OBVIOUS
<1>4. count \in Nat /\ count > 0 /\ count * Chunk >= n /\ (count - 1) * Chunk <= n
      /\ (n > 0 => (count - 1) * Chunk < n)
  <2>1. CASE n = 0
    BY <1>2, <1>3, <2>1
  <2>2. CASE n > 0
    <3>1. PICK c \in Nat : c = Chunk /\ c > 0
      BY <1>2
    <3>2. count = (n + c - 1) \div c
      BY <1>3, <2>2, <3>1
    <3>3. count \in Nat /\ count > 0 /\ count * c >= n /\ (count - 1) * c < n
      BY <2>2, <3>1, <3>2, CountFacts
    <3>4. (count - 1) * c \in Int
      BY <3>3
    <3>5. (count - 1) * c <= n
      BY <3>3, <3>4
    <3> QED
      BY <3>1, <3>3, <3>5
  <2> QED
    BY <2>1, <2>2
<1>5. ASSUME NEW i \in Nat, i < count PROVE i * Chunk <= n /\ (i > 0 => i * Chunk < n)
  <2>1. CASE n = 0
    <3>1. i = 0 /\ 0 * Chunk = 0
      BY <1>2, <1>3, <1>5, <2>1
    <3> QED
      BY <2>1, <3>1
  <2>2. CASE n > 0
    <3>1. i * Chunk < n
      BY <1>2, <1>4, <1>5, <2>2, EarlierPart
    <3>2. i * Chunk \in Nat
      BY <1>2
    <3> QED
      BY <3>1, <3>2
  <2> QED
    BY <2>1, <2>2
<1>6. PICK q : q = [i \in 1 .. count |-> [to |-> p, t |-> "chunk", entries |-> Part(n, i), final |-> i = count]]
  OBVIOUS
<1>7. q = Chunks(h, p)
  BY <1>1, <1>3, <1>6 DEF Chunks
<1>8. ASSUME NEW i \in 1 .. count
      PROVE  /\ q[i] \in DownFrames /\ q[i].to = p /\ q[i].t = "chunk" /\ q[i].entries = Part(n, i)
             /\ q[i].final = (i = count)
             /\ Part(n, i) \in Seq(Nat)
             /\ Behind(n, i) \in Nat /\ Behind(n, i - 1) \in Nat
             /\ Behind(n, i - 1) + Len(Part(n, i)) = Behind(n, i)
             /\ Part(n, i) = [k \in 1 .. Len(Part(n, i)) |-> Behind(n, i - 1) + k]
             /\ Behind(n, i) <= n /\ (i = count <=> Behind(n, i) = n)
  <2>1. i \in Nat /\ i > 0 /\ i - 1 \in Nat /\ i - 1 < count /\ i <= count
    BY <1>4
  <2>2. (i - 1) * Chunk <= n
    BY <1>5, <2>1
  <2>3. /\ Part(n, i) \in Seq(Nat)
        /\ Behind(n, i) \in Nat /\ Behind(n, i - 1) = (i - 1) * Chunk
        /\ Behind(n, i - 1) + Len(Part(n, i)) = Behind(n, i)
        /\ Part(n, i) = [k \in 1 .. Len(Part(n, i)) |-> Behind(n, i - 1) + k]
    BY <2>1, <2>2, PartFacts
  <2>4. Behind(n, i - 1) \in Nat
    BY <1>2, <2>1, <2>3
  <2>5. PICK e \in Seq(Nat) : e = Part(n, i)
    BY <2>3
  <2>6. q[i] = [to |-> p, t |-> "chunk", entries |-> e, final |-> i = count]
    BY <1>6, <2>5
  <2>7. q[i] \in DownFrames /\ q[i].to = p /\ q[i].t = "chunk" /\ q[i].entries = e /\ q[i].final = (i = count)
    BY <2>6 DEF DownFrames
  <2>8. Behind(n, i) <= n /\ (i = count <=> Behind(n, i) = n)
    <3>1. CASE i = count
      BY <1>2, <1>4, <3>1 DEF Behind
    <3>2. CASE i # count
      <4>0. i < count
        BY <1>4, <2>1, <3>2
      <4>1. i < count /\ i * Chunk < n
        BY <1>5, <2>1, <4>0
      <4>2. i * Chunk \in Nat
        BY <1>2
      <4> QED
        BY <3>2, <4>1, <4>2 DEF Behind
    <3> QED
      BY <3>1, <3>2
  <2> QED
    BY <2>3, <2>4, <2>5, <2>7, <2>8
<1>9. q \in Seq(DownFrames) /\ Len(q) = count
  BY <1>4, <1>6, <1>8
<1> DEFINE mark(i) == [known |-> TRUE, log |-> n, open |-> i # count, got |-> Behind(n, i), asks |-> {}]
<1>10. PICK tr : tr = [i \in 0 .. count |-> mark(i)]
  OBVIOUS
<1>11. ASSUME NEW i \in 0 .. count PROVE mark(i) \in Marks /\ Behind(n, i) \in Nat
  <2>1. Behind(n, i) \in Nat
    BY <1>2 DEF Behind
  <2> QED
    BY <2>1 DEF Marks
<1>12. tr \in [0 .. count -> Marks]
  BY <1>10, <1>11
<1>13. ASSUME NEW i \in 1 .. count
       PROVE  Fits(tr[i - 1], q[i], conn) /\ tr[i] = After(tr[i - 1], q[i], conn)
  <2>1. i - 1 \in 0 .. count /\ i \in 0 .. count /\ i - 1 # count
    BY <1>4
  <2>2. tr[i] = mark(i) /\ tr[i - 1] = mark(i - 1)
    BY <1>10, <2>1
  <2>3. PICK e \in Marks : e = mark(i - 1)
    BY <1>11, <2>1
  <2>4. /\ e.known /\ e.log = n /\ e.open /\ e.got = Behind(n, i - 1) /\ e.asks = {}
        /\ e = [known |-> TRUE, log |-> n, open |-> TRUE, got |-> Behind(n, i - 1), asks |-> {}]
    BY <2>1, <2>3
  <2>5. PICK f \in DownFrames : f = q[i]
    BY <1>8
  <2>6. PICK l \in Nat : l = Len(f.entries)
    BY <1>8, <2>5
  <2>7. /\ f.t = "chunk" /\ e.got + l = Behind(n, i) /\ f.final = (i = count)
        /\ f.entries = [k \in 1 .. l |-> e.got + k] /\ Behind(n, i) <= n
    <3>1. f.entries = Part(n, i) /\ f.t = "chunk" /\ f.final = (i = count)
      BY <1>8, <2>5
    <3>2. /\ Behind(n, i - 1) + l = Behind(n, i) /\ Behind(n, i) <= n
          /\ Part(n, i) = [k \in 1 .. l |-> Behind(n, i - 1) + k]
      BY <1>8, <2>6, <3>1
    <3> QED
      BY <2>4, <3>1, <3>2
  <2>8. f.final = (e.got + l = e.log)
    BY <1>8, <2>4, <2>7
  <2>9. Fits(e, f, conn)
    BY <2>4, <2>6, <2>7, <2>8 DEF Fits
  <2>10. After(e, f, conn) = [e EXCEPT !.got = @ + l, !.open = ~f.final]
    BY <2>4, <2>6, <2>7 DEF After
  <2>11. After(e, f, conn) = mark(i)
    <3>1. (~f.final) = (i # count)
      BY <2>7
    <3>2. e.got + l = Behind(n, i)
      BY <2>7
    <3> QED
      BY <2>4, <2>10, <3>1, <3>2
  <2> QED
    BY <2>2, <2>3, <2>5, <2>9, <2>11
<1>14. Path(q, tr, conn)
  BY <1>9, <1>12, <1>13 DEF Path
<1>15. tr[0] = Whole(n)
  <2>1. Behind(n, 0) = 0 /\ 0 # count /\ 0 \in 0 .. count
    BY <1>2, <1>4 DEF Behind
  <2> QED
    BY <1>10, <2>1 DEF Whole
<1>16. tr[count] = Complete(n, {})
  <2>1. Behind(n, count) = n /\ count \in 0 .. count
    BY <1>4, <1>8
  <2> QED
    BY <1>10, <2>1 DEF Complete
<1>17. Leads(q, Whole(n), Complete(n, {}), conn)
  BY <1>9, <1>14, <1>15, <1>16 DEF Leads
<1> QED
  BY <1>1, <1>7, <1>8, <1>9, <1>17

\* The open dialogs, sent behind the chunks, make the guest's dialogs the host's
\* (host.ts:410-414).
LEMMA PendingLead ==
  ASSUME NEW h, h.asks \in SUBSET Nat, IsFiniteSet(h.asks), NEW p \in Nat, NEW n \in Nat, NEW conn
  PROVE  /\ Pending(h, p) \in Seq(DownFrames)
         /\ \A i \in 1 .. Len(Pending(h, p)) :
              /\ Pending(h, p)[i].to = p /\ Pending(h, p)[i].t = "ask"
              /\ Pending(h, p)[i].id \in h.asks
         /\ Leads(Pending(h, p), Complete(n, {}), Complete(n, h.asks), conn)
<1>0. PICK A \in SUBSET Nat : A = h.asks /\ IsFiniteSet(A)
  OBVIOUS
<1>1. PICK s : s = SetToSeq(A)
  OBVIOUS
<1>2. /\ s \in Seq(A)
      /\ \A x \in A : \E i \in 1 .. Len(s) : s[i] = x
  <2>1. Lists(s, A)
    BY <1>0, <1>1, Listed
  <2> QED
    BY <2>1 DEF Lists
<1>3. PICK m \in Nat : m = Len(s)
  BY <1>2
<1>4. DOMAIN s = 1 .. m /\ \A i \in 1 .. m : s[i] \in A /\ s[i] \in Nat
  <2>1. DOMAIN s = 1 .. m
    BY <1>2, <1>3
  <2>2. \A i \in 1 .. m : s[i] \in A
    BY <1>2, <1>3, ElementOfSeq
  <2> QED
    BY <2>1, <2>2
<1>5. PICK q : q = [i \in 1 .. m |-> DialogFrame(p, "ask", s[i])]
  OBVIOUS
<1>6. q = Pending(h, p)
  BY <1>0, <1>1, <1>4, <1>5 DEF Pending
<1>7. ASSUME NEW i \in 1 .. m
      PROVE  q[i] \in DownFrames /\ q[i].to = p /\ q[i].t = "ask" /\ q[i].id = s[i]
  BY <1>4, <1>5 DEF DialogFrame, DownFrames
<1>8. q \in Seq(DownFrames) /\ Len(q) = m
  BY <1>5, <1>7
<1> DEFINE asked(i) == {s[j] : j \in 1 .. i}
<1>9. PICK tr : tr = [i \in 0 .. m |-> Complete(n, asked(i))]
  OBVIOUS
<1>10. ASSUME NEW i \in 0 .. m PROVE Complete(n, asked(i)) \in Marks
  <2>1. asked(i) \in SUBSET Nat
    BY <1>4
  <2> QED
    BY <2>1 DEF Complete, Marks
<1>11. tr \in [0 .. m -> Marks]
  BY <1>9, <1>10
<1>12. ASSUME NEW i \in 1 .. m
       PROVE  Fits(tr[i - 1], q[i], conn) /\ tr[i] = After(tr[i - 1], q[i], conn)
  <2>1. i - 1 \in 0 .. m /\ i \in 0 .. m
    OBVIOUS
  <2>2. PICK e \in Marks : e = Complete(n, asked(i - 1))
    BY <1>10, <2>1
  <2>3. e.known /\ ~e.open /\ e.asks = asked(i - 1)
    BY <2>2 DEF Complete
  <2>4. PICK f : f = q[i]
    OBVIOUS
  <2>5. f.t = "ask" /\ f.id = s[i]
    BY <1>7, <2>4
  <2>6. Fits(e, f, conn)
    BY <2>3, <2>5 DEF Fits
  <2>7. After(e, f, conn) = [e EXCEPT !.asks = @ \cup {s[i]}]
    BY <2>3, <2>5 DEF After
  <2>8. asked(i) = asked(i - 1) \cup {s[i]}
    <3>1. 1 .. i = (1 .. i - 1) \cup {i}
      OBVIOUS
    <3> QED
      BY <3>1
  <2>9. After(e, f, conn) = Complete(n, asked(i))
    <3>1. PICK A1 : A1 = asked(i)
      OBVIOUS
    <3>2. PICK B : B = asked(i - 1)
      OBVIOUS
    <3>3. A1 = B \cup {s[i]}
      BY <2>8, <3>1, <3>2
    <3>4. e = Complete(n, B)
      BY <2>2, <3>2
    <3>5. After(e, f, conn) = Complete(n, A1)
      BY <2>7, <3>3, <3>4 DEF Complete
    <3> QED
      BY <3>1, <3>5
  <2> QED
    BY <1>9, <2>1, <2>2, <2>4, <2>6, <2>9
<1>13. Path(q, tr, conn)
  BY <1>8, <1>11, <1>12 DEF Path
<1>14. asked(0) = {} /\ asked(m) = A
  <2>1. 1 .. 0 = {}
    OBVIOUS
  <2> QED
    BY <1>2, <1>3, <1>4, <2>1
<1>15. tr[0] = Complete(n, {}) /\ tr[m] = Complete(n, A)
  BY <1>9, <1>14
<1>16. Leads(q, Complete(n, {}), Complete(n, A), conn)
  BY <1>8, <1>13, <1>15 DEF Leads
<1> QED
  BY <1>0, <1>4, <1>6, <1>7, <1>8, <1>16

\* Two facts about queues in the form the provers find them.
Regroups(q, r, s) == q \o (r \o s) = (q \o r) \o s
SplitsForPeer(q, r, p) == ForPeer(q \o r, p) = ForPeer(q, p) \o ForPeer(r, p)

\* Frames can be regrouped.
LEMMA Regrouped ==
  ASSUME NEW q \in Seq(DownFrames), NEW r \in Seq(DownFrames), NEW s \in Seq(DownFrames)
  PROVE  Regroups(q, r, s)
<1>1. (q \o r) \o s = q \o (r \o s)
  BY Associates
<1> QED
  BY <1>1 DEF Regroups

\* ForPeerConcat in the form the proofs below take it.
LEMMA ForPeerSplit ==
  ASSUME NEW q \in Seq(DownFrames), NEW r \in Seq(DownFrames), NEW p
  PROVE  SplitsForPeer(q, r, p)
BY ForPeerConcat DEF SplitsForPeer

\* Frames of the past, put together.
LEMMA PastConcat ==
  ASSUME NEW q \in Seq(DownFrames), NEW r \in Seq(DownFrames), NEW h, PastFrames(h, q), PastFrames(h, r)
  PROVE  PastFrames(h, q \o r)
<1>1. PICK s \in Seq(DownFrames) : s = q \o r
  BY ConcatProperties
<1>2. /\ Len(s) = Len(q) + Len(r) /\ Len(q) \in Nat /\ Len(r) \in Nat
      /\ \A i \in 1 .. Len(q) + Len(r) : s[i] = IF i <= Len(q) THEN q[i] ELSE r[i - Len(q)]
  BY <1>1, ConcatProperties
<1>3. ASSUME NEW i \in 1 .. Len(s) PROVE PastFrame(h, s[i])
  <2>1. CASE i <= Len(q)
    BY <1>2, <2>1 DEF PastFrames
  <2>2. CASE ~(i <= Len(q))
    <3>1. i - Len(q) \in 1 .. Len(r)
      BY <1>2, <2>2
    <3> QED
      BY <1>2, <2>2, <3>1 DEF PastFrames
  <2> QED
    BY <2>1, <2>2
<1> QED
  BY <1>1, <1>3 DEF PastFrames

\* Frames of the past, picked for a peer.
LEMMA PastForPeer ==
  ASSUME NEW q \in Seq(DownFrames), NEW p, NEW h, PastFrames(h, q)
  PROVE  PastFrames(h, ForPeer(q, p))
BY ForPeerMembers DEF PastFrames

\* A queue and what it has been cut into.
LEMMA Halves ==
  ASSUME NEW T, NEW q \in Seq(T), NEW k \in 0 .. Len(q)
  PROVE  /\ SubSeq(q, 1, k) \in Seq(T) /\ Len(SubSeq(q, 1, k)) = k
         /\ \A i \in 1 .. k : SubSeq(q, 1, k)[i] = q[i]
         /\ Rest(q, k) \in Seq(T) /\ Len(Rest(q, k)) = Len(q) - k
         /\ \A i \in 1 .. Len(q) - k : Rest(q, k)[i] = q[k + i]
         /\ q = SubSeq(q, 1, k) \o Rest(q, k)
<1>1. PICK n \in Nat : n = Len(q)
  OBVIOUS
<1>2. SubSeq(q, 1, k) \in Seq(T) /\ Len(SubSeq(q, 1, k)) = k /\ \A i \in 1 .. k : SubSeq(q, 1, k)[i] = q[i]
  BY <1>1
<1>3. PICK r : r = SubSeq(q, k + 1, n)
  OBVIOUS
<1>4. r \in Seq(T) /\ Len(r) = n - k /\ \A i \in 1 .. n - k : r[i] = q[k + i]
  <2>1. k + 1 \in Int /\ n \in Int /\ \A i \in k + 1 .. n : q[i] \in T
    BY <1>1
  <2>2. /\ r \in Seq(T) /\ Len(r) = IF k + 1 <= n THEN n - (k + 1) + 1 ELSE 0
        /\ \A i \in 1 .. n - (k + 1) + 1 : r[i] = q[(k + 1) + i - 1]
    BY <1>3, <2>1, SubSeqProperties
  <2>3. Len(r) = n - k
    BY <1>1, <2>2
  <2>4. ASSUME NEW i \in 1 .. n - k PROVE r[i] = q[k + i]
    <3>1. i \in 1 .. n - (k + 1) + 1 /\ (k + 1) + i - 1 = k + i
      BY <1>1
    <3> QED
      BY <2>2, <3>1
  <2> QED
    BY <2>2, <2>3, <2>4
<1>5. r = Rest(q, k)
  BY <1>1, <1>3 DEF Rest
<1>6. PICK s \in Seq(T) : s = SubSeq(q, 1, k)
  BY <1>2
<1>7. PICK t \in Seq(T) : t = s \o r
  BY <1>4, ConcatProperties
<1>8. Len(t) = n /\ \A i \in 1 .. n : t[i] = q[i]
  <2>1. Len(s) = k /\ \A i \in 1 .. k : s[i] = q[i]
    BY <1>2, <1>6
  <2>2. /\ Len(t) = Len(s) + Len(r)
        /\ \A i \in 1 .. Len(s) + Len(r) : t[i] = IF i <= Len(s) THEN s[i] ELSE r[i - Len(s)]
    BY <1>4, <1>7, ConcatProperties
  <2>3. Len(t) = n
    BY <1>1, <1>4, <2>1, <2>2
  <2>4. ASSUME NEW i \in 1 .. n PROVE t[i] = q[i]
    <3>1. CASE i <= k
      BY <1>4, <2>1, <2>2, <3>1
    <3>2. CASE ~(i <= k)
      <4>1. i - k \in 1 .. n - k /\ k + (i - k) = i
        BY <1>1, <3>2
      <4> QED
        BY <1>4, <2>1, <2>2, <2>3, <3>2, <4>1
    <3> QED
      BY <3>1, <3>2
  <2> QED
    BY <2>3, <2>4
<1>9. t = q
  BY <1>1, <1>8, SeqEqual
<1> QED
  BY <1>1, <1>2, <1>4, <1>5, <1>6, <1>7, <1>9

-----------------------------------------------------------------------------
\* What a step of the host has brought to the guests.
Delivers(frames) ==
  /\ host'.pending \in Seq(DownFrames) /\ Len(host'.pending) <= MaxBuffered
  /\ host'.open /\ ~host'.stalled => host'.pending = <<>>
  /\ host.lost \subseteq host'.lost
  /\ guest' \in [Guests -> GuestStates]
  /\ \A g \in Guests :
       /\ guest'[g] = [guest[g] EXCEPT !.inbox = guest'[g].inbox]
       /\ InRoom(g) /\ guest[g].peer \notin host'.lost =>
            Stream(g)' = Stream(g) \o ForPeer(frames, guest[g].peer)
  /\ \A h : PastFrames(h, host.pending) /\ PastFrames(h, frames) =>
              /\ PastFrames(h, host'.pending)
              /\ \A g \in Guests : PastFrames(h, guest[g].inbox) => PastFrames(h, guest'[g].inbox)

\* The relay adds to the inboxes of the guests in the room, and changes nothing else.
LEMMA ForwardFacts ==
  ASSUME guest \in [Guests -> GuestStates], NEW frames \in Seq(DownFrames),
         guest' = Forward(guest, frames)
  PROVE  /\ guest' \in [Guests -> GuestStates]
         /\ \A g \in Guests :
              /\ guest'[g] = [guest[g] EXCEPT !.inbox = guest'[g].inbox]
              /\ ~InRoom(g) => guest'[g] = guest[g]
              /\ InRoom(g) => guest'[g].inbox = guest[g].inbox \o ForPeer(frames, guest[g].peer)
         /\ \A h : PastFrames(h, frames) =>
              \A g \in Guests : PastFrames(h, guest[g].inbox) => PastFrames(h, guest'[g].inbox)
<1>1. ASSUME NEW g \in Guests
      PROVE  /\ guest'[g] \in GuestStates
             /\ guest'[g] = [guest[g] EXCEPT !.inbox = guest'[g].inbox]
             /\ ~InRoom(g) => guest'[g] = guest[g]
             /\ InRoom(g) => guest'[g].inbox = guest[g].inbox \o ForPeer(frames, guest[g].peer)
             /\ guest[g].inbox \in Seq(DownFrames)
  <2>1. PICK s \in GuestStates : s = guest[g]
    OBVIOUS
  <2>2. s.inbox \in Seq(DownFrames)
    BY DEF GuestStates
  <2>3. PICK x \in Seq(DownFrames) : x = s.inbox \o ForPeer(frames, s.peer)
    BY <2>2, ForPeerType, ConcatProperties
  <2>4. guest'[g] = IF s.peer = NoPeer THEN s ELSE [s EXCEPT !.inbox = x]
    BY <2>1, <2>3 DEF Forward
  <2>5. [s EXCEPT !.inbox = x] \in GuestStates /\ [s EXCEPT !.inbox = x].inbox = x
        /\ s = [s EXCEPT !.inbox = s.inbox]
    BY DEF GuestStates
  <2> QED
    BY <2>1, <2>2, <2>3, <2>4, <2>5 DEF InRoom
<1>2. DOMAIN guest' = Guests /\ guest' = [g \in Guests |-> guest'[g]]
  BY DEF Forward
<1>3. ASSUME NEW h, PastFrames(h, frames), NEW g \in Guests, PastFrames(h, guest[g].inbox)
      PROVE  PastFrames(h, guest'[g].inbox)
  <2>1. CASE ~InRoom(g)
    BY <1>1, <1>3, <2>1
  <2>2. CASE InRoom(g)
    <3>1. PICK q \in Seq(DownFrames) : q = guest[g].inbox
      BY <1>1
    <3>2. PICK r \in Seq(DownFrames) : r = ForPeer(frames, guest[g].peer)
      BY ForPeerType
    <3>3. PastFrames(h, q) /\ PastFrames(h, r)
      BY <1>3, <3>1, <3>2, PastForPeer
    <3>4. PastFrames(h, q \o r)
      BY <3>3, PastConcat
    <3> QED
      BY <1>1, <2>2, <3>1, <3>2, <3>4
  <2> QED
    BY <2>1, <2>2
<1> QED
  BY <1>1, <1>2, <1>3

\* What is still to be applied is a sequence of frames.
LEMMA StreamType ==
  ASSUME Typed, NEW g \in Guests
  PROVE  /\ guest[g] \in GuestStates /\ guest[g].inbox \in Seq(DownFrames) /\ guest[g].peer \in Nat
         /\ host.pending \in Seq(DownFrames) /\ ForPeer(host.pending, guest[g].peer) \in Seq(DownFrames)
         /\ Stream(g) \in Seq(DownFrames)
<1>1. guest[g] \in GuestStates /\ guest[g].inbox \in Seq(DownFrames) /\ guest[g].peer \in Nat
  BY DEF Typed, GuestStates
<1>2. host.pending \in Seq(DownFrames)
  BY DEF Typed, HostStates
<1>3. ForPeer(host.pending, guest[g].peer) \in Seq(DownFrames)
  BY <1>2, ForPeerType
<1> QED
  BY <1>1, <1>2, <1>3, ConcatProperties DEF Stream

\* send puts its frames at the end of every stream, whether the socket is open, stalled or
\* closed, unless it gives the peer up (relay-client.ts:72-107).
LEMMA SendDelivers ==
  ASSUME Typed, Socket, Peers, NEW h \in HostStates, NEW frames \in Seq(DownFrames), Send(h, frames),
         h.pending = host.pending, h.lost = host.lost, h.open = host.open, h.stalled = host.stalled,
         h.nextPeer = host.nextPeer
  PROVE  /\ Delivers(frames) /\ host' \in HostStates
         /\ host' = [h EXCEPT !.pending = host'.pending, !.lost = host'.lost]
<1>1. guest \in [Guests -> GuestStates] /\ host.pending \in Seq(DownFrames) /\ host.lost \in SUBSET Nat
  BY DEF Typed, HostStates
<1>2. CASE host.open /\ ~host.stalled
  <2>1. host' = h /\ guest' = Forward(guest, frames) /\ host.pending = <<>>
    BY <1>2 DEF Send, Socket
  <2>2. /\ guest' \in [Guests -> GuestStates]
        /\ \A g \in Guests :
             /\ guest'[g] = [guest[g] EXCEPT !.inbox = guest'[g].inbox]
             /\ InRoom(g) => guest'[g].inbox = guest[g].inbox \o ForPeer(frames, guest[g].peer)
        /\ \A h2 : PastFrames(h2, frames) =>
             \A g \in Guests : PastFrames(h2, guest[g].inbox) => PastFrames(h2, guest'[g].inbox)
    BY <1>1, <2>1, ForwardFacts
  <2>3. ASSUME NEW g \in Guests, InRoom(g)
        PROVE  Stream(g)' = Stream(g) \o ForPeer(frames, guest[g].peer)
    <3>1. PICK q \in Seq(DownFrames) : q = guest[g].inbox
      BY StreamType
    <3>2. PICK r \in Seq(DownFrames) : r = ForPeer(frames, guest[g].peer)
      BY ForPeerType
    <3>3. PICK s \in Seq(DownFrames) : s = q \o r
      BY ConcatProperties
    <3>4. Stream(g) = q
      <4>1. Stream(g) = q \o ForPeer(<<>>, guest[g].peer)
        BY <2>1, <3>1 DEF Stream
      <4>2. q \o <<>> = q
        BY ConcatEmptySeq
      <4> QED
        BY <4>1, <4>2, ForPeerNil
    <3>5. Stream(g)' = s \o ForPeer(<<>>, guest'[g].peer)
      BY <2>1, <2>2, <2>3, <3>1, <3>2, <3>3 DEF Stream
    <3>6. Stream(g)' = s
      BY <3>5, ForPeerNil, ConcatEmptySeq
    <3> QED
      BY <3>2, <3>3, <3>4, <3>6
  <2>4. Len(host.pending) <= MaxBuffered
    BY DEF Socket
  <2> QED
    BY <1>1, <2>1, <2>2, <2>3, <2>4 DEF Delivers, HostStates
<1>3. CASE ~(host.open /\ ~host.stalled)
  <2>1. PICK all \in Seq(DownFrames) : all = host.pending \o frames
    BY <1>1, ConcatProperties
  <2>2. PICK k : k = CHOOSE i \in {Len(all), MaxBuffered} : i <= Len(all) /\ i <= MaxBuffered
    OBVIOUS
  <2>3. MaxBuffered \in Nat /\ Len(all) \in Nat
    BY CollabAssumption
  <2>4. k \in 0 .. Len(all) /\ k <= MaxBuffered
    <3>1. \E i \in {Len(all), MaxBuffered} : i <= Len(all) /\ i <= MaxBuffered
      BY <2>3
    <3>2. k \in {Len(all), MaxBuffered} /\ k <= Len(all) /\ k <= MaxBuffered
      BY <2>2, <3>1
    <3> QED
      BY <2>3, <3>2
  <2>5. PICK kept \in Seq(DownFrames) : kept = SubSeq(all, 1, k)
    BY <2>4, Halves
  <2>6. PICK rest \in Seq(DownFrames) : rest = Rest(all, k)
    BY <2>4, Halves
  <2>7. all = kept \o rest /\ Len(kept) = k
    BY <2>4, <2>5, <2>6, Halves
  <2>8. PICK L : L = host.lost \cup Addressees(h, rest)
    OBVIOUS
  <2>9. L \in SUBSET Nat
    <3>1. \A f \in DownFrames : f.to \in Nat
      BY DEF DownFrames
    <3>2. \A f \in ToSet(rest) : f \in DownFrames
      BY DEF ToSet
    <3>3. h.nextPeer \in Nat
      BY DEF HostStates
    <3>4. \A f \in ToSet(rest) : (IF f.to = Everyone THEN 1 .. h.nextPeer - 1 ELSE {f.to}) \subseteq Nat
      BY <3>1, <3>2, <3>3
    <3> QED
      BY <1>1, <2>8, <3>4 DEF Addressees
  <2>10. host' = [h EXCEPT !.pending = kept, !.lost = L] /\ guest' = guest
    BY <1>3, <2>1, <2>2, <2>5, <2>6, <2>8 DEF Send, Buffer
  <2>11. host' \in HostStates /\ host'.pending = kept /\ host'.lost = L /\ host'.open = h.open
         /\ host'.stalled = h.stalled /\ host' = [h EXCEPT !.pending = host'.pending, !.lost = host'.lost]
    BY <2>9, <2>10 DEF HostStates
  <2>12. ASSUME NEW g \in Guests, InRoom(g), guest[g].peer \notin L
         PROVE  Stream(g)' = Stream(g) \o ForPeer(frames, guest[g].peer)
    <3>1. PICK p \in Nat : p = guest[g].peer
      BY StreamType
    <3>2. p > 0 /\ p < h.nextPeer /\ h.nextPeer \in Nat
      BY <2>12, <3>1 DEF Peers, InRoom, NoPeer, HostStates
    <3>3. ASSUME NEW i \in 1 .. Len(rest) PROVE rest[i].to \notin {Everyone, p}
      <4>1. rest[i] \in ToSet(rest)
        BY DEF ToSet
      <4>2. rest[i].to = Everyone => p \in Addressees(h, rest)
        <5>1. p \in 1 .. h.nextPeer - 1
          BY <3>2
        <5> QED
          BY <4>1, <5>1 DEF Addressees
      <4>3. rest[i].to # Everyone => rest[i].to \in Addressees(h, rest)
        BY <4>1 DEF Addressees
      <4> QED
        BY <2>8, <2>12, <3>1, <3>2, <4>2, <4>3 DEF Everyone
    <3>4. ForPeer(rest, p) = <<>>
      BY <3>3, ForPeerNone
    <3>5. PICK a \in Seq(DownFrames) : a = ForPeer(kept, p)
      BY ForPeerType
    <3>6. ForPeer(all, p) = a
      <4>1. ForPeer(kept \o rest, p) = ForPeer(kept, p) \o ForPeer(rest, p)
        <5>1. SplitsForPeer(kept, rest, p)
          BY ForPeerSplit
        <5> QED
          BY <5>1 DEF SplitsForPeer
      <4>2. a \o <<>> = a
        BY ConcatEmptySeq
      <4> QED
        BY <2>7, <3>4, <3>5, <4>1, <4>2
    <3>7. PICK b \in Seq(DownFrames) : b = ForPeer(host.pending, p)
      BY <1>1, ForPeerType
    <3>8. PICK c \in Seq(DownFrames) : c = ForPeer(frames, p)
      BY ForPeerType
    <3>9. a = b \o c
      <4>1. ForPeer(host.pending \o frames, p) = ForPeer(host.pending, p) \o ForPeer(frames, p)
        <5>1. SplitsForPeer(host.pending, frames, p)
          BY <1>1, ForPeerSplit
        <5> QED
          BY <5>1 DEF SplitsForPeer
      <4> QED
        BY <2>1, <3>6, <3>7, <3>8, <4>1
    <3>10. PICK q \in Seq(DownFrames) : q = guest[g].inbox
      BY StreamType
    <3>11. Stream(g)' = q \o a
      BY <2>10, <2>11, <3>1, <3>5, <3>10 DEF Stream
    <3>12. Stream(g) = q \o b
      BY <3>1, <3>7, <3>10 DEF Stream
    <3>13. q \o (b \o c) = (q \o b) \o c
      <4>1. Regroups(q, b, c)
        BY Regrouped
      <4> QED
        BY <4>1 DEF Regroups
    <3> QED
      BY <3>1, <3>8, <3>9, <3>11, <3>12, <3>13
  <2>13. ASSUME NEW h2, PastFrames(h2, host.pending), PastFrames(h2, frames)
         PROVE  PastFrames(h2, kept)
    <3>1. PastFrames(h2, all)
      BY <1>1, <2>1, <2>13, PastConcat
    <3>2. \A i \in 1 .. Len(kept) : kept[i] = all[i] /\ i \in 1 .. Len(all)
      BY <2>4, <2>5, <2>7, Halves
    <3> QED
      BY <3>1, <3>2 DEF PastFrames
  <2>14. \A g \in Guests : guest[g] = [guest[g] EXCEPT !.inbox = guest[g].inbox]
    BY <1>1 DEF GuestStates
  <2>15. host'.open /\ ~host'.stalled => host'.pending = <<>>
    BY <1>3, <2>11
  <2> QED
    BY <1>1, <2>4, <2>7, <2>8, <2>10, <2>11, <2>12, <2>13, <2>14, <2>15 DEF Delivers
<1> QED
  BY <1>2, <1>3

\* Draining moves frames from the host's buffer to the inboxes: no stream changes.
LEMMA DrainsDelivers ==
  ASSUME Typed, Socket, Drains
  PROVE  Delivers(<<>>) /\ host' = [host EXCEPT !.stalled = FALSE, !.pending = <<>>] /\ host' \in HostStates
<1>1. guest \in [Guests -> GuestStates] /\ host.pending \in Seq(DownFrames) /\ host.lost \in SUBSET Nat
  BY DEF Typed, HostStates
<1>2. host' = [host EXCEPT !.stalled = FALSE, !.pending = <<>>] /\ guest' = Forward(guest, host.pending)
  BY DEF Drains
<1>3. <<>> \in Seq(DownFrames) /\ Len(<<>>) = 0 /\ MaxBuffered \in Nat
  BY CollabAssumption
<1>4. host' \in HostStates /\ host'.pending = <<>> /\ host'.lost = host.lost
  BY <1>2, <1>3 DEF Typed, HostStates
<1>5. /\ guest' \in [Guests -> GuestStates]
      /\ \A g \in Guests :
           /\ guest'[g] = [guest[g] EXCEPT !.inbox = guest'[g].inbox]
           /\ InRoom(g) => guest'[g].inbox = guest[g].inbox \o ForPeer(host.pending, guest[g].peer)
      /\ \A h2 : PastFrames(h2, host.pending) =>
           \A g \in Guests : PastFrames(h2, guest[g].inbox) => PastFrames(h2, guest'[g].inbox)
  BY <1>1, <1>2, ForwardFacts
<1>6. ASSUME NEW g \in Guests, InRoom(g)
      PROVE  Stream(g)' = Stream(g) \o ForPeer(<<>>, guest[g].peer)
  <2>1. PICK s \in Seq(DownFrames) : s = Stream(g)
    BY StreamType
  <2>2. s = guest'[g].inbox
    BY <1>5, <1>6, <2>1 DEF Stream
  <2>3. Stream(g)' = s \o ForPeer(<<>>, guest'[g].peer)
    BY <1>4, <2>2 DEF Stream
  <2> QED
    BY <2>1, <2>3, ForPeerNil
<1>7. \A h2 : PastFrames(h2, <<>>)
  BY <1>3 DEF PastFrames
<1>8. /\ host'.pending \in Seq(DownFrames) /\ Len(host'.pending) <= MaxBuffered
      /\ host'.open /\ ~host'.stalled => host'.pending = <<>>
      /\ host.lost \subseteq host'.lost
  BY <1>3, <1>4
<1>9. ASSUME NEW h, PastFrames(h, host.pending)
      PROVE  /\ PastFrames(h, host'.pending)
             /\ \A g \in Guests : PastFrames(h, guest[g].inbox) => PastFrames(h, guest'[g].inbox)
  BY <1>4, <1>5, <1>7, <1>9
<1>10. Delivers(<<>>)
  BY <1>5, <1>6, <1>8, <1>9 DEF Delivers
<1> QED
  BY <1>2, <1>4, <1>10

\* A queue without its head, or without one entry.
LEMMA EmbedsTail ==
  ASSUME NEW T, NEW q \in Seq(T), q # <<>>
  PROVE  Tail(q) \in Seq(T) /\ \E h : Embeds(Tail(q), q, 2 .. Len(q), h)
<1>1. PICK r \in Seq(T) : r = Tail(q)
  BY HeadTailProperties
<1>2. PICK n \in Nat : n = Len(r)
  OBVIOUS
<1>3. Len(q) = n + 1 /\ \A i \in 1 .. n : r[i] = q[i + 1]
  BY <1>1, <1>2
<1>4. PICK h : h = [i \in 1 .. n |-> i + 1]
  OBVIOUS
<1>5. Embeds(r, q, 2 .. Len(q), h)
  <2>1. h \in [1 .. n -> 1 .. n + 1]
    BY <1>4
  <2>2. \A i, j \in 1 .. n : i < j => h[i] < h[j]
    BY <1>4
  <2>3. \A i \in 1 .. n : r[i] = q[h[i]] /\ h[i] \in 2 .. n + 1
    BY <1>3, <1>4
  <2>4. ASSUME NEW k \in 2 .. n + 1 PROVE \E i \in 1 .. n : h[i] = k
    <3>1. k - 1 \in 1 .. n /\ h[k - 1] = k
      BY <1>4
    <3> QED
      BY <3>1
  <2> QED
    BY <1>2, <1>3, <2>1, <2>2, <2>3, <2>4 DEF Embeds
<1> QED
  BY <1>1, <1>5

\* Removing one element leaves the others in their order.
LEMMA EmbedsRemove ==
  ASSUME NEW T, NEW q \in Seq(T), NEW x \in 1 .. Len(q)
  PROVE  RemoveAt(q, x) \in Seq(T) /\ \E h : Embeds(RemoveAt(q, x), q, (1 .. Len(q)) \ {x}, h)
<1>1. PICK n \in Nat : n = Len(q)
  OBVIOUS
<1>2. x - 1 \in 0 .. Len(q) /\ x \in 0 .. Len(q) /\ n >= 1 /\ x \in Nat
  BY <1>1
<1>3. PICK a \in Seq(T) : a = SubSeq(q, 1, x - 1)
  BY <1>2, Halves
<1>4. PICK b \in Seq(T) : b = Rest(q, x)
  BY <1>2, Halves
<1>5. Len(a) = x - 1 /\ (\A i \in 1 .. x - 1 : a[i] = q[i])
  BY <1>2, <1>3, Halves
<1>6. Len(b) = n - x /\ \A i \in 1 .. n - x : b[i] = q[x + i]
  BY <1>1, <1>2, <1>4, Halves
<1>7. PICK r \in Seq(T) : r = a \o b
  BY ConcatProperties
<1>8. Len(r) = n - 1 /\ \A i \in 1 .. n - 1 : r[i] = IF i < x THEN q[i] ELSE q[i + 1]
  <2>1. /\ Len(r) = Len(a) + Len(b)
        /\ \A i \in 1 .. Len(a) + Len(b) : r[i] = IF i <= Len(a) THEN a[i] ELSE b[i - Len(a)]
    BY <1>7, ConcatProperties
  <2>2. Len(r) = n - 1
    BY <1>2, <1>5, <1>6, <2>1
  <2>3. ASSUME NEW i \in 1 .. n - 1 PROVE r[i] = IF i < x THEN q[i] ELSE q[i + 1]
    <3>1. r[i] = IF i <= x - 1 THEN a[i] ELSE b[i - (x - 1)]
      BY <1>5, <2>1, <2>2
    <3>2. CASE i < x
      BY <1>2, <1>5, <3>1, <3>2
    <3>3. CASE ~(i < x)
      <4>1. i - (x - 1) \in 1 .. n - x /\ x + (i - (x - 1)) = i + 1 /\ ~(i <= x - 1)
        BY <1>2, <3>3
      <4> QED
        BY <1>6, <3>1, <3>3, <4>1
    <3> QED
      BY <3>2, <3>3
  <2> QED
    BY <2>2, <2>3
<1>9. r = RemoveAt(q, x)
  BY <1>3, <1>4, <1>7 DEF RemoveAt, Rest
<1>10. PICK h : h = [i \in 1 .. n - 1 |-> IF i < x THEN i ELSE i + 1]
  OBVIOUS
<1>11. Embeds(r, q, (1 .. n) \ {x}, h)
  <2>1. h \in [1 .. n - 1 -> 1 .. n]
    BY <1>10
  <2>2. \A i, j \in 1 .. n - 1 : i < j => h[i] < h[j]
    BY <1>2, <1>10
  <2>3. \A i \in 1 .. n - 1 : r[i] = q[h[i]] /\ h[i] # x
    BY <1>2, <1>8, <1>10
  <2>4. ASSUME NEW k \in 1 .. n, k # x PROVE \E i \in 1 .. n - 1 : h[i] = k
    <3>1. CASE k < x
      <4>1. k \in 1 .. n - 1 /\ h[k] = k
        BY <1>2, <1>1, <1>10, <3>1
      <4> QED
        BY <4>1
    <3>2. CASE ~(k < x)
      <4>1. k - 1 \in 1 .. n - 1 /\ ~(k - 1 < x) /\ k - 1 + 1 = k
        BY <1>2, <2>4, <3>2
      <4>2. h[k - 1] = k
        BY <1>10, <4>1
      <4> QED
        BY <4>1, <4>2
    <3> QED
      BY <3>1, <3>2
  <2>5. Len(r) = n - 1 /\ Len(q) = n
    BY <1>1, <1>8
  <2>6. \A i \in 1 .. n - 1 : h[i] \in (1 .. n) \ {x}
    BY <2>1, <2>3
  <2>7. /\ h \in [1 .. Len(r) -> 1 .. Len(q)]
        /\ \A i, j \in 1 .. Len(r) : i < j => h[i] < h[j]
        /\ \A i \in 1 .. Len(r) : r[i] = q[h[i]] /\ h[i] \in (1 .. n) \ {x}
    BY <2>1, <2>2, <2>3, <2>5, <2>6
  <2>8. \A k \in 1 .. Len(q) : k \in (1 .. n) \ {x} => \E i \in 1 .. Len(r) : h[i] = k
    BY <2>4, <2>5
  <2> QED
    BY <2>7, <2>8 DEF Embeds
<1> QED
  BY <1>1, <1>9, <1>11
-----------------------------------------------------------------------------
\* What is left of the queue to the host when some of it has been removed.
LEMMA EmbedsKeeps ==
  ASSUME NEW q, NEW o, Len(o) \in Nat, NEW K, NEW h, Embeds(o, q, K, h), NEW p
  PROVE  /\ \A g : Sincere(q, g, p) => Sincere(o, g, p)
         /\ (\A k \in 1 .. Len(q) : q[k].t = "hello" /\ q[k].from = p => k \in K) =>
              /\ HelloIn(q, p) => HelloIn(o, p)
              /\ Heralded(q, p) => Heralded(o, p)
         /\ \A id : (\A k \in 1 .. Len(q) : q[k].t = "answer" /\ q[k].from = p /\ q[k].id = id => k \in K) =>
              (AnswerIn(q, p, id) => AnswerIn(o, p, id))
<1>1. /\ \A i \in 1 .. Len(o) : h[i] \in 1 .. Len(q) /\ o[i] = q[h[i]] /\ h[i] \in K
      /\ \A i, j \in 1 .. Len(o) : i < j => h[i] < h[j]
      /\ \A k \in 1 .. Len(q) : k \in K => \E i \in 1 .. Len(o) : h[i] = k
  BY DEF Embeds
<1>2. ASSUME NEW g, Sincere(q, g, p) PROVE Sincere(o, g, p)
  BY <1>1, <1>2 DEF Sincere
<1>3. ASSUME \A k \in 1 .. Len(q) : q[k].t = "hello" /\ q[k].from = p => k \in K
      PROVE  (HelloIn(q, p) => HelloIn(o, p)) /\ (Heralded(q, p) => Heralded(o, p))
  <2>1. ASSUME HelloIn(q, p) PROVE HelloIn(o, p)
    <3>1. PICK k \in 1 .. Len(q) : q[k].t = "hello" /\ q[k].from = p
      BY <2>1 DEF HelloIn
    <3>2. PICK i \in 1 .. Len(o) : h[i] = k
      BY <1>1, <1>3, <3>1
    <3> QED
      BY <1>1, <3>1, <3>2 DEF HelloIn
  <2>2. ASSUME Heralded(q, p), NEW i \in 1 .. Len(o), o[i].t = "prompt", o[i].from = p, ~o[i].late
        PROVE  \E j \in 1 .. i - 1 : o[j].t = "hello" /\ o[j].from = p
    <3>1. PICK m \in 1 .. Len(q) : m = h[i] /\ o[i] = q[m]
      BY <1>1
    <3>2. PICK k \in 1 .. m - 1 : q[k].t = "hello" /\ q[k].from = p
      BY <2>2, <3>1 DEF Heralded
    <3>3. k \in 1 .. Len(q) /\ k < m
      OBVIOUS
    <3>4. PICK j \in 1 .. Len(o) : h[j] = k
      BY <1>1, <1>3, <3>2, <3>3
    <3>5. j < i
      <4>1. CASE i < j
        <5>1. m < k
          BY <1>1, <3>1, <3>4, <4>1
        <5> QED
          BY <3>3, <5>1
      <4>2. CASE i = j
        BY <3>1, <3>3, <3>4, <4>2
      <4> QED
        BY <4>1, <4>2
    <3>6. j \in 1 .. i - 1 /\ o[j] = q[k]
      BY <1>1, <3>4, <3>5
    <3> QED
      BY <3>2, <3>6
  <2> QED
    BY <2>1, <2>2 DEF Heralded
<1>4. ASSUME NEW id, AnswerIn(q, p, id),
             \A k \in 1 .. Len(q) : q[k].t = "answer" /\ q[k].from = p /\ q[k].id = id => k \in K
      PROVE  AnswerIn(o, p, id)
  <2>1. PICK k \in 1 .. Len(q) : q[k].t = "answer" /\ q[k].from = p /\ q[k].id = id
    BY <1>4 DEF AnswerIn
  <2>2. PICK i \in 1 .. Len(o) : h[i] = k
    BY <1>1, <1>4, <2>1
  <2> QED
    BY <1>1, <2>1, <2>2 DEF AnswerIn
<1> QED
  BY <1>2, <1>3, <1>4

\* What holds of a queue still holds when something has been added.
LEMMA AddsKeeps ==
  ASSUME NEW q \in Seq(UpFrames), NEW r \in Seq(UpFrames), NEW p
  PROVE  /\ HelloIn(q, p) => HelloIn(q \o r, p)
         /\ HelloIn(r, p) => HelloIn(q \o r, p)
         /\ \A id : AnswerIn(q, p, id) => AnswerIn(q \o r, p, id)
         /\ \A id : AnswerIn(r, p, id) => AnswerIn(q \o r, p, id)
         /\ \A g : Sincere(q, g, p) /\ Sincere(r, g, p) => Sincere(q \o r, g, p)
         /\ Heralded(q, p) /\ (HelloIn(q, p) \/ Heralded(r, p)) => Heralded(q \o r, p)
<1>1. PICK s \in Seq(UpFrames) : s = q \o r
  BY ConcatProperties
<1>2. PICK n \in Nat : n = Len(q)
  OBVIOUS
<1>3. PICK m \in Nat : m = Len(r)
  OBVIOUS
<1>4. Len(s) = n + m /\ (\A i \in 1 .. n : s[i] = q[i]) /\ (\A i \in 1 .. m : s[n + i] = r[i])
  BY <1>1, <1>2, <1>3, ConcatProperties
<1>5. \A i \in 1 .. n : i \in 1 .. n + m
  OBVIOUS
<1>6. \A i \in 1 .. m : n + i \in 1 .. n + m
  OBVIOUS
<1>7. (HelloIn(q, p) \/ HelloIn(r, p)) => HelloIn(s, p)
  BY <1>2, <1>3, <1>4, <1>5, <1>6 DEF HelloIn
<1>8. \A id : (AnswerIn(q, p, id) \/ AnswerIn(r, p, id)) => AnswerIn(s, p, id)
  BY <1>2, <1>3, <1>4, <1>5, <1>6, ZenonT(60) DEF AnswerIn
<1>9. ASSUME NEW i \in 1 .. n + m
      PROVE  (i \in 1 .. n /\ s[i] = q[i]) \/ (\E k \in 1 .. m : i = n + k /\ s[i] = r[k])
  <2>1. CASE i <= n
    BY <1>4, <2>1
  <2>2. CASE ~(i <= n)
    <3>1. i - n \in 1 .. m /\ n + (i - n) = i
      BY <2>2
    <3> QED
      BY <1>4, <3>1
  <2> QED
    BY <2>1, <2>2
<1>10. ASSUME NEW g, Sincere(q, g, p), Sincere(r, g, p) PROVE Sincere(s, g, p)
  <2>1. ASSUME NEW i \in 1 .. n + m, s[i].from = p PROVE Honest(g, s[i])
    <3>1. CASE i \in 1 .. n /\ s[i] = q[i]
      BY <1>2, <1>10, <2>1, <3>1 DEF Sincere
    <3>2. CASE \E k \in 1 .. m : i = n + k /\ s[i] = r[k]
      BY <1>3, <1>10, <2>1, <3>2 DEF Sincere
    <3> QED
      BY <1>9, <3>1, <3>2
  <2> QED
    BY <1>4, <2>1 DEF Sincere
<1>11. ASSUME Heralded(q, p), HelloIn(q, p) \/ Heralded(r, p),
              NEW i \in 1 .. n + m, s[i].t = "prompt", s[i].from = p, ~s[i].late
       PROVE  \E j \in 1 .. i - 1 : s[j].t = "hello" /\ s[j].from = p
  <2>1. CASE i \in 1 .. n /\ s[i] = q[i]
    <3>1. PICK j \in 1 .. i - 1 : q[j].t = "hello" /\ q[j].from = p
      BY <1>2, <1>11, <2>1 DEF Heralded
    <3>2. j \in 1 .. n
      BY <2>1
    <3> QED
      BY <1>4, <3>1, <3>2
  <2>2. CASE \E k \in 1 .. m : i = n + k /\ s[i] = r[k]
    <3>1. PICK k \in 1 .. m : i = n + k /\ s[i] = r[k]
      BY <2>2
    <3>2. CASE HelloIn(q, p)
      <4>1. PICK j \in 1 .. n : q[j].t = "hello" /\ q[j].from = p
        BY <1>2, <3>2 DEF HelloIn
      <4>2. j \in 1 .. i - 1
        BY <3>1
      <4> QED
        BY <1>4, <4>1, <4>2
    <3>3. CASE Heralded(r, p)
      <4>1. PICK j \in 1 .. k - 1 : r[j].t = "hello" /\ r[j].from = p
        BY <1>3, <1>11, <3>1, <3>3 DEF Heralded
      <4>2. j \in 1 .. m /\ n + j \in 1 .. i - 1
        BY <3>1
      <4> QED
        BY <1>4, <4>1, <4>2
    <3> QED
      BY <1>11, <3>2, <3>3
  <2> QED
    BY <1>9, <2>1, <2>2
<1>12. Heralded(q, p) /\ (HelloIn(q, p) \/ Heralded(r, p)) => Heralded(s, p)
  BY <1>4, <1>11 DEF Heralded
<1> QED
  BY <1>1, <1>7, <1>8, <1>10, <1>12

\* What is past stays past while the host counts on.
LEMMA PastGrows ==
  ASSUME NEW h, NEW k, h.asked \in Nat, k.asked \in Nat, h.asked <= k.asked,
         \A by \in Connections : Past(h, by) => Past(k, by)
  PROVE  /\ \A q \in Seq(DownFrames) : PastFrames(h, q) => PastFrames(k, q)
         /\ \A s \in GuestStates : PastGuest(h, s) => PastGuest(k, s)
<1>1. ASSUME NEW f \in DownFrames, PastFrame(h, f) PROVE PastFrame(k, f)
  <2>1. f.t = "welcome" => f.by \in Connections
    BY DEF DownFrames
  <2>2. f.t = "ask" => f.id \in Nat
    BY DEF DownFrames
  <2> QED
    BY <1>1, <2>1, <2>2 DEF PastFrame
<1>2. ASSUME NEW q \in Seq(DownFrames), PastFrames(h, q) PROVE PastFrames(k, q)
  BY <1>1, <1>2 DEF PastFrames
<1>3. ASSUME NEW s \in GuestStates, PastGuest(h, s) PROVE PastGuest(k, s)
  <2>1. /\ s.inbox \in Seq(DownFrames)
        /\ s.snapshot # None => s.snapshot.by \in Connections
        /\ s.loading # None => s.loading.by \in Connections
        /\ s.source # None => s.source \in Connections
    BY DEF GuestStates, Snapshots
  <2> QED
    BY <1>2, <1>3, <2>1 DEF PastGuest
<1> QED
  BY <1>2, <1>3

\* What a delivery leaves alone in a guest.
LEMMA DeliversSame ==
  ASSUME Typed, NEW frames, Delivers(frames), NEW g \in Guests
  PROVE  /\ guest[g] \in GuestStates /\ guest'[g] \in GuestStates
         /\ guest'[g].inbox \in Seq(DownFrames)
         /\ guest'[g].link = guest[g].link /\ guest'[g].peer = guest[g].peer
         /\ guest'[g].welcomed = guest[g].welcomed /\ guest'[g].snapshot = guest[g].snapshot
         /\ guest'[g].loading = guest[g].loading /\ guest'[g].replica = guest[g].replica
         /\ guest'[g].source = guest[g].source /\ guest'[g].dialogs = guest[g].dialogs
         /\ guest'[g].buffer = guest[g].buffer /\ guest'[g].failed = guest[g].failed
<1>1. guest[g] \in GuestStates /\ guest'[g] \in GuestStates
  BY DEF Typed, Delivers
<1>2. PICK x : x = guest'[g].inbox
  OBVIOUS
<1>3. guest'[g] = [guest[g] EXCEPT !.inbox = x]
  BY <1>2 DEF Delivers
<1> QED
  BY <1>1, <1>3 DEF GuestStates

\* The host's own steps: what has to be shown of the frames that it sends.
Follows(frames) ==
  \A g \in Guests : InRoom(g) /\ guest[g].peer \notin host'.lost =>
    \A a, b \in Marks : SyncedBy(g, guest[g], Stream(g), up, host, a, b) =>
      /\ g \in Writers => Attends(guest[g], up', host', a)
      /\ \E c : /\ Leads(ForPeer(frames, guest[g].peer), b, c, Connection(g))
                /\ Caught(g, guest[g].peer, up', host', c)

\* A host step keeps every guest in step when its frames lead on to what the host then has.
LEMMA HostSynced ==
  ASSUME Framework, InSync, NEW frames \in Seq(DownFrames), Delivers(frames), Follows(frames),
         host'.room = host.room, host'.asked \in Nat, host.asked <= host'.asked
  PROVE  InSync'
<1> SUFFICES ASSUME NEW g \in Guests, InRoom(g)', guest'[g].peer \notin host'.lost
             PROVE  \E a, b : SyncedBy(g, guest[g], Stream(g), up, host, a, b)'
  BY DEF InSync
<1>1. Typed
  BY DEF Framework
<1>2. guest'[g].peer = guest[g].peer
  BY <1>1, DeliversSame
<1>3. InRoom(g) /\ guest[g].peer \notin host'.lost /\ guest[g].peer \notin host.lost
  BY <1>2 DEF InRoom, Delivers
<1>4. PICK a, b : SyncedBy(g, guest[g], Stream(g), up, host, a, b)
  BY <1>3 DEF InSync
<1>5. Stream(g) \in Seq(DownFrames)
  BY <1>1, StreamType
<1>6. Leads(Stream(g), a, b, Connection(g)) /\ Agrees(guest[g], a, Connection(g)) /\ a.asks \subseteq 1 .. host.asked
  BY <1>4 DEF SyncedBy, Connection
<1>7. a \in Marks /\ b \in Marks
  BY <1>5, <1>6, LeadsType
<1>8. PICK c : /\ Leads(ForPeer(frames, guest[g].peer), b, c, Connection(g))
               /\ Caught(g, guest[g].peer, up', host', c)
  BY <1>3, <1>4, <1>7 DEF Follows
<1>9. g \in Writers => Attends(guest[g], up', host', a)
  BY <1>3, <1>4, <1>7 DEF Follows
<1>10. PICK F \in Seq(DownFrames) : F = ForPeer(frames, guest[g].peer)
  BY ForPeerType
<1>11. Stream(g)' = Stream(g) \o F
  BY <1>3, <1>10 DEF Delivers
<1>12. Leads(Stream(g)', a, c, Connection(g))
  BY <1>5, <1>6, <1>8, <1>10, <1>11, LeadsConcat
<1>13. <<host'.room, guest'[g].peer>> = Connection(g)
  BY <1>2 DEF Connection
<1>14. Agrees(guest'[g], a, Connection(g))
  BY <1>1, <1>6, DeliversSame DEF Agrees, Matches
<1>15. g \in Writers => Attends(guest'[g], up', host', a)
  BY <1>1, <1>9, DeliversSame DEF Attends, Attentive
<1>16. a.asks \subseteq 1 .. host'.asked
  <2>1. host.asked \in Nat
    BY <1>1 DEF Typed, HostStates
  <2> QED
    BY <1>6, <2>1
<1>17. SyncedBy(g, guest'[g], Stream(g)', up', host', a, c)
  BY <1>2, <1>8, <1>12, <1>13, <1>14, <1>15, <1>16 DEF SyncedBy
<1> QED
  BY <1>17

\* A host step does not speak of connections or dialogs to come when its frames do not.
LEMMA HostNoFuture ==
  ASSUME Framework, NEW frames \in Seq(DownFrames), Delivers(frames), PastFrames(host', frames),
         host'.room = host.room, host'.nextPeer = host.nextPeer, host'.asked \in Nat, host.asked <= host'.asked
  PROVE  NoFuture'
<1>1. Typed /\ NoFuture
  BY DEF Framework
<1>2. host.asked \in Nat /\ host.pending \in Seq(DownFrames)
  BY <1>1 DEF Typed, HostStates
<1>3. PICK k : k = host'
  OBVIOUS
<1>4. \A by \in Connections : Past(host, by) => Past(k, by)
  BY <1>3 DEF Past
<1>5. /\ \A q \in Seq(DownFrames) : PastFrames(host, q) => PastFrames(k, q)
      /\ \A s \in GuestStates : PastGuest(host, s) => PastGuest(k, s)
  BY <1>2, <1>3, <1>4, PastGrows
<1>6. PastFrames(k, host.pending) /\ PastFrames(k, frames)
  BY <1>1, <1>2, <1>3, <1>5 DEF NoFuture
<1>7. PastFrames(k, host'.pending)
  BY <1>6 DEF Delivers
<1>8. ASSUME NEW g \in Guests PROVE PastGuest(k, guest'[g])
  <2>1. PastGuest(k, guest[g])
    BY <1>1, <1>5 DEF NoFuture, Typed
  <2>2. PastFrames(k, guest[g].inbox)
    BY <2>1 DEF PastGuest
  <2>3. PastFrames(k, guest'[g].inbox)
    BY <1>6, <2>2 DEF Delivers
  <2> QED
    BY <1>1, <2>1, <2>3, DeliversSame DEF PastGuest
<1> QED
  BY <1>3, <1>7, <1>8 DEF NoFuture

\* Nothing has changed in the queue to the host, nor in who has sent it.
SameGuests == \A g \in Guests : guest'[g].peer = guest[g].peer /\ guest'[g].buffer = guest[g].buffer

\* What depends on the queue to the host and the writers stays when they stay.
LEMMA SameQueue ==
  ASSUME Framework, Introduced, SameGuests, up' = up,
         host'.nextPeer = host.nextPeer, host'.writers = host.writers
  PROVE  Peers' /\ HonestGuests' /\ Introduced'
<1>1. Peers /\ HonestGuests
  BY DEF Framework
<1>2. \A g \in Guests : /\ guest'[g].peer = guest[g].peer /\ guest'[g].buffer = guest[g].buffer
                        /\ InRoom(g)' <=> InRoom(g)
  BY DEF SameGuests, InRoom
<1>3. Peers'
  BY <1>1, <1>2 DEF Peers
<1>4. HonestGuests'
  BY <1>1, <1>2 DEF HonestGuests
<1>5. Introduced'
  BY <1>2 DEF Introduced, Greeted
<1> QED
  BY <1>3, <1>4, <1>5

\* A delivery keeps the socket's own invariant.
LEMMA DeliversSocket ==
  ASSUME Framework, NEW frames, Delivers(frames), host'.open = host.open, up' = up \/ up' = Tail(up), 
         up # <<>> \/ up' = up
  PROVE  Socket'
<1>1. Typed /\ Socket
  BY DEF Framework
<1>2. \A g \in Guests : InRoom(g)' <=> InRoom(g)
  BY <1>1, DeliversSame DEF InRoom
<1> QED
  BY <1>1, <1>2 DEF Socket, Delivers

-----------------------------------------------------------------------------
Main == Framework /\ Introduced /\ RefusedWhenCutOff /\ InSync

\* A step of the host that leaves the queue alone.
Alone(frames) ==
  /\ frames \in Seq(DownFrames) /\ Delivers(frames) /\ Follows(frames) /\ PastFrames(host', frames)
  /\ host' \in HostStates /\ host.asked <= host'.asked /\ host'.asks \subseteq 1 .. host'.asked
  /\ host'.open = host.open /\ host'.room = host.room /\ host'.nextPeer = host.nextPeer
  /\ host'.writers = host.writers /\ host'.refused = host.refused /\ up' = up

\* A host step that leaves the queue and the writers alone keeps the invariant.
LEMMA HostAlone ==
  ASSUME Main, NEW frames, Alone(frames)
  PROVE  Main'
<1>0. /\ frames \in Seq(DownFrames) /\ Delivers(frames) /\ Follows(frames) /\ PastFrames(host', frames)
      /\ host' \in HostStates /\ host.asked <= host'.asked /\ host'.asks \subseteq 1 .. host'.asked
      /\ host'.open = host.open /\ host'.room = host.room /\ host'.nextPeer = host.nextPeer
      /\ host'.writers = host.writers /\ host'.refused = host.refused /\ up' = up
  BY DEF Alone
<1>1. Framework /\ Typed
  BY DEF Main, Framework
<1>2. SameGuests
  BY <1>0, <1>1, DeliversSame DEF SameGuests
<1>3. Peers' /\ HonestGuests' /\ Introduced'
  BY <1>0, <1>1, <1>2, SameQueue DEF Main
<1>4. host'.asked \in Nat
  BY <1>0 DEF HostStates
<1>5. NoFuture'
  BY <1>0, <1>1, <1>4, HostNoFuture
<1>6. InSync'
  BY <1>0, <1>1, <1>4, HostSynced DEF Main
<1>7. Socket'
  BY <1>0, <1>1, DeliversSocket
<1>8. Typed'
  BY <1>0, <1>1 DEF Typed, Delivers
<1>9. RefusedWhenCutOff'
  BY <1>0 DEF Main, RefusedWhenCutOff
<1> QED
  BY <1>3, <1>5, <1>6, <1>7, <1>8, <1>9 DEF Main, Framework

\* The fields of the host.
LEMMA HostType ==
  ASSUME Typed
  PROVE  /\ host \in HostStates
         /\ host.open \in BOOLEAN /\ host.stalled \in BOOLEAN /\ host.pending \in Seq(DownFrames)
         /\ host.room \in Nat /\ host.nextPeer \in Nat /\ host.connections \in Nat /\ host.log \in Nat
         /\ host.writers \in SUBSET Nat /\ host.asks \in SUBSET Nat /\ host.asked \in Nat
         /\ host.lost \in SUBSET Nat
         /\ host.nextPeer > 0 /\ IsFiniteSet(host.writers) /\ NoPeer \notin host.writers
         /\ host.asks \subseteq 1 .. host.asked /\ IsFiniteSet(host.asks)
<1>1. IsFiniteSet(1 .. host.asked) /\ host.asks \in SUBSET (1 .. host.asked)
  BY FS_Interval DEF Typed, HostStates
<1>2. IsFiniteSet(host.asks)
  BY <1>1, FS_Subset
<1> QED
  BY <1>2 DEF Typed, HostStates

\* A socket that falls behind changes nothing a guest has or will get.
LEMMA StallsSafe ==
  ASSUME Main, Stalls
  PROVE  Main'
<1>1. Typed /\ Framework
  BY DEF Main, Framework
<1>2. host' = [host EXCEPT !.stalled = TRUE] /\ up' = up /\ guest' = guest
  BY DEF Stalls
<1>3. /\ host' \in HostStates /\ host'.asked = host.asked /\ host'.asks = host.asks
      /\ host'.open = host.open /\ host'.room = host.room /\ host'.nextPeer = host.nextPeer
      /\ host'.writers = host.writers /\ host'.refused = host.refused /\ host'.pending = host.pending
      /\ host'.lost = host.lost /\ host'.stalled /\ host'.log = host.log
  BY <1>1, <1>2, HostType DEF HostStates
<1>4. <<>> \in Seq(DownFrames) /\ \A h : PastFrames(h, <<>>)
  BY DEF PastFrames
<1>5. ASSUME NEW g \in Guests PROVE Stream(g)' = Stream(g) \o ForPeer(<<>>, guest[g].peer)
  <2>1. Stream(g)' = Stream(g)
    BY <1>2, <1>3 DEF Stream
  <2>2. Stream(g) \in Seq(DownFrames)
    BY <1>1, StreamType
  <2>3. Stream(g) \o <<>> = Stream(g)
    BY <2>2, ConcatEmptySeq
  <2> QED
    BY <2>1, <2>3, ForPeerNil
<1>6. Delivers(<<>>)
  <2>1. \A g \in Guests : guest'[g] = [guest[g] EXCEPT !.inbox = guest'[g].inbox]
    BY <1>1, <1>2 DEF Typed, GuestStates
  <2>2. guest' \in [Guests -> GuestStates] /\ Len(host.pending) <= MaxBuffered
    BY <1>1, <1>2 DEF Typed, Framework, Socket
  <2> QED
    BY <1>1, <1>2, <1>3, <1>5, <2>1, <2>2, HostType DEF Delivers
<1>7. Follows(<<>>)
  <2>1. ASSUME NEW g \in Guests, NEW a \in Marks, NEW b \in Marks,
               SyncedBy(g, guest[g], Stream(g), up, host, a, b)
        PROVE  /\ g \in Writers => Attends(guest[g], up', host', a)
               /\ Leads(ForPeer(<<>>, guest[g].peer), b, b, Connection(g))
               /\ Caught(g, guest[g].peer, up', host', b)
    BY <1>2, <1>3, <2>1, ForPeerNil, LeadsNil DEF SyncedBy, Attends, Attentive, Caught
  <2> QED
    BY <2>1 DEF Follows
<1>8. Alone(<<>>)
  BY <1>1, <1>2, <1>3, <1>4, <1>6, <1>7, HostType DEF Alone
<1> QED
  BY <1>8, HostAlone

\* Nor does one that catches up.
LEMMA DrainsSafe ==
  ASSUME Main, Drains
  PROVE  Main'
<1>1. Typed /\ Socket
  BY DEF Main, Framework
<1>2. Delivers(<<>>) /\ host' = [host EXCEPT !.stalled = FALSE, !.pending = <<>>] /\ host' \in HostStates /\ up' = up
  BY <1>1, DrainsDelivers DEF Drains
<1>3. /\ host'.asked = host.asked /\ host'.asks = host.asks
      /\ host'.open = host.open /\ host'.room = host.room /\ host'.nextPeer = host.nextPeer
      /\ host'.writers = host.writers /\ host'.refused = host.refused
      /\ host'.lost = host.lost /\ host'.log = host.log
  BY <1>1, <1>2, HostType DEF HostStates
<1>4. <<>> \in Seq(DownFrames) /\ \A h : PastFrames(h, <<>>)
  BY DEF PastFrames
<1>5. Follows(<<>>)
  <2>1. ASSUME NEW g \in Guests, NEW a \in Marks, NEW b \in Marks,
               SyncedBy(g, guest[g], Stream(g), up, host, a, b)
        PROVE  /\ g \in Writers => Attends(guest[g], up', host', a)
               /\ Leads(ForPeer(<<>>, guest[g].peer), b, b, Connection(g))
               /\ Caught(g, guest[g].peer, up', host', b)
    BY <1>2, <1>3, <2>1, ForPeerNil, LeadsNil DEF SyncedBy, Attends, Attentive, Caught
  <2> QED
    BY <2>1 DEF Follows
<1>6. Alone(<<>>)
  BY <1>1, <1>2, <1>3, <1>4, <1>5, HostType DEF Alone
<1> QED
  BY <1>6, HostAlone

\* What has been sent by the host, and what else it has changed.
SameSocket(h) == /\ h.pending = host.pending /\ h.lost = host.lost /\ h.open = host.open
                 /\ h.stalled = host.stalled /\ h.nextPeer = host.nextPeer /\ h.room = host.room
Becomes(h) == /\ host'.room = h.room /\ host'.nextPeer = h.nextPeer /\ host'.open = h.open
              /\ host'.log = h.log /\ host'.writers = h.writers /\ host'.asks = h.asks
              /\ host'.asked = h.asked /\ host'.refused = h.refused

\* A handler that ends in send: the host is what the handler made it, but for its socket.
LEMMA Sent ==
  ASSUME Framework, NEW h \in HostStates, NEW frames \in Seq(DownFrames), Send(h, frames), SameSocket(h)
  PROVE  Delivers(frames) /\ host' \in HostStates /\ Becomes(h)
<1>1. Typed /\ Socket /\ Peers
  BY DEF Framework
<1>2. /\ h.pending = host.pending /\ h.lost = host.lost /\ h.open = host.open
      /\ h.stalled = host.stalled /\ h.nextPeer = host.nextPeer
  BY DEF SameSocket
<1>3. /\ Delivers(frames) /\ host' \in HostStates
      /\ host' = [h EXCEPT !.pending = host'.pending, !.lost = host'.lost]
  BY <1>1, <1>2, SendDelivers
<1>4. PICK x : x = host'.pending
  OBVIOUS
<1>5. PICK y : y = host'.lost
  OBVIOUS
<1>6. host' = [h EXCEPT !.pending = x, !.lost = y]
  BY <1>3, <1>4, <1>5
<1>7. Becomes(h)
  BY <1>6 DEF Becomes, HostStates
<1> QED
  BY <1>3, <1>7

\* What is known of a guest that is in step with the host.
LEMMA SyncedFacts ==
  ASSUME Typed, NEW g \in Guests, NEW a, NEW b,
         SyncedBy(g, guest[g], Stream(g), up, host, a, b)
  PROVE  /\ a \in Marks /\ b \in Marks /\ (a.known => b.known)
         /\ Leads(Stream(g), a, b, Connection(g)) /\ Agrees(guest[g], a, Connection(g))
         /\ g \in Writers => Attends(guest[g], up, host, a)
         /\ Caught(g, guest[g].peer, up, host, b)
<1>1. Leads(Stream(g), a, b, Connection(g))
  BY DEF SyncedBy, Connection
<1>2. Stream(g) \in Seq(DownFrames)
  BY StreamType
<1>3. a \in Marks /\ b \in Marks
  BY <1>1, <1>2, LeadsType
<1>4. a.known => b.known
  BY <1>1, <1>2, LeadsKnown
<1> QED
  BY <1>1, <1>3, <1>4 DEF SyncedBy, Connection

\* An entry is appended.
LEMMA EntryAppendedSafe ==
  ASSUME Main, EntryAppended
  PROVE  Main'
<1>1. Framework /\ Typed
  BY DEF Main, Framework
<1>2. PICK h : h = [host EXCEPT !.log = @ + 1]
  OBVIOUS
<1>3. PICK f : f = [to |-> Everyone, t |-> "entry", n |-> host.log + 1]
  OBVIOUS
<1>4. Send(h, <<f>>) /\ up' = up
  BY <1>2, <1>3 DEF EntryAppended
<1>5. /\ h \in HostStates /\ SameSocket(h) /\ h.log = host.log + 1 /\ h.writers = host.writers
      /\ h.asks = host.asks /\ h.asked = host.asked /\ h.refused = host.refused
  BY <1>1, <1>2, HostType DEF HostStates, SameSocket
<1>6. f \in DownFrames /\ f.to = Everyone /\ f.t = "entry" /\ f.n = host.log + 1
  BY <1>1, <1>3, HostType DEF DownFrames, Everyone
<1>7. <<f>> \in Seq(DownFrames) /\ Len(<<f>>) = 1 /\ <<f>>[1] = f
  BY <1>6, Single
<1>8. Delivers(<<f>>) /\ host' \in HostStates /\ Becomes(h)
  BY <1>1, <1>4, <1>5, <1>7, Sent
<1>9. /\ host'.room = host.room /\ host'.nextPeer = host.nextPeer /\ host'.open = host.open
      /\ host'.log = host.log + 1 /\ host'.writers = host.writers /\ host'.asks = host.asks
      /\ host'.asked = host.asked /\ host'.refused = host.refused
  BY <1>5, <1>8 DEF Becomes, SameSocket
<1>10. PastFrames(host', <<f>>)
  BY <1>6, <1>7 DEF PastFrames, PastFrame
<1>11. ASSUME NEW g \in Guests, NEW a \in Marks, NEW b \in Marks,
              SyncedBy(g, guest[g], Stream(g), up, host, a, b)
       PROVE  /\ g \in Writers => Attends(guest[g], up', host', a)
              /\ \E c : /\ Leads(ForPeer(<<f>>, guest[g].peer), b, c, Connection(g))
                        /\ Caught(g, guest[g].peer, up', host', c)
  <2>1. (g \in Writers => Attends(guest[g], up, host, a)) /\ Caught(g, guest[g].peer, up, host, b)
    BY <1>1, <1>11, SyncedFacts
  <2>2. g \in Writers => Attends(guest[g], up', host', a)
    BY <1>4, <1>9, <2>1 DEF Attends, Attentive
  <2>3. ForPeer(<<f>>, guest[g].peer) = <<f>>
    <3>1. PICK q \in Seq(DownFrames) : q = <<f>>
      BY <1>7
    <3>2. \A i \in 1 .. Len(q) : q[i].to \in {Everyone, guest[g].peer}
      BY <1>6, <1>7, <3>1
    <3>3. ForPeer(q, guest[g].peer) = q
      BY <3>2, ForPeerAll
    <3> QED
      BY <3>1, <3>3
  <2>4. Fits(b, f, Connection(g))
    BY <1>6, <2>1 DEF Fits, Caught
  <2>5. Leads(<<f>>, b, After(b, f, Connection(g)), Connection(g))
    BY <1>6, <2>4, LeadsOne
  <2>6. Caught(g, guest[g].peer, up', host', After(b, f, Connection(g)))
    BY <1>4, <1>6, <1>9, <2>1 DEF After, Caught, Marks
  <2> QED
    BY <2>2, <2>3, <2>5, <2>6
<1>12. Follows(<<f>>)
  BY <1>11 DEF Follows
<1>13. Alone(<<f>>)
  BY <1>1, <1>4, <1>7, <1>8, <1>9, <1>10, <1>12, HostType DEF Alone
<1> QED
  BY <1>13, HostAlone

\* A frame to the writers, about a dialog.
LEMMA WritersFrames ==
  ASSUME Typed, NEW t \in {"ask", "end"}, NEW id \in Nat
  PROVE  /\ ToWriters(host, t, id) \in Seq(DownFrames)
         /\ \A p \in Nat : ForPeer(ToWriters(host, t, id), p)
                             = IF p \in host.writers THEN <<DialogFrame(p, t, id)>> ELSE <<>>
         /\ \A h : (t = "ask" => id \in 1 .. h.asked) => PastFrames(h, ToWriters(host, t, id))
         /\ \A p \in Nat : DialogFrame(p, t, id) \in DownFrames
<1>1. PICK ps \in SUBSET Nat : ps = host.writers
  BY HostType
<1>2. IsFiniteSet(ps) /\ 0 \notin ps
  BY <1>1, HostType DEF NoPeer
<1>3. PICK q : q = ToWriters(host, t, id)
  OBVIOUS
<1>4. PICK f : f = [p \in ps |-> DialogFrame(p, t, id)]
  OBVIOUS
<1>5. OneEach(q, f, ps)
  BY <1>1, <1>2, <1>3, <1>4, ToWritersEach
<1>6. q \in Seq(DownFrames)
  BY <1>5 DEF OneEach
<1>7. \A p \in Nat : ForPeer(q, p) = IF p \in ps THEN <<f[p]>> ELSE <<>>
  BY <1>2, <1>5, OneEachFor
<1>8. \A p \in ps : f[p] = DialogFrame(p, t, id)
  BY <1>4
<1>9. \A p \in Nat : ForPeer(q, p) = IF p \in ps THEN <<DialogFrame(p, t, id)>> ELSE <<>>
  BY <1>7, <1>8
<1>10. PICK s \in Seq(ps) : Len(s) = Len(q) /\ \A i \in 1 .. Len(q) : q[i] = f[s[i]]
  BY <1>5 DEF OneEach
<1>11. \A i \in 1 .. Len(q) : q[i].t = t /\ q[i].id = id
  <2>1. ASSUME NEW i \in 1 .. Len(q) PROVE q[i].t = t /\ q[i].id = id
    <3>1. s[i] \in ps
      BY <1>10, ElementOfSeq
    <3>2. q[i] = DialogFrame(s[i], t, id)
      BY <1>8, <1>10, <3>1
    <3> QED
      BY <3>2 DEF DialogFrame
  <2> QED
    BY <2>1
<1>12. ASSUME NEW h, t = "ask" => id \in 1 .. h.asked PROVE PastFrames(h, q)
  BY <1>11, <1>12 DEF PastFrames, PastFrame
<1>13. \A p \in Nat : DialogFrame(p, t, id) \in DownFrames
  BY DEF DialogFrame, DownFrames
<1> QED
  BY <1>1, <1>3, <1>6, <1>9, <1>12, <1>13

\* The host asks.
LEMMA AskSafe ==
  ASSUME Main, Ask
  PROVE  Main'
<1>1. Framework /\ Typed
  BY DEF Main, Framework
<1>2. PICK id \in Nat : id = host.asked + 1
  BY <1>1, HostType
<1>3. PICK h : h = [host EXCEPT !.asks = @ \cup {id}, !.asked = @ + 1]
  OBVIOUS
<1>4. PICK F \in Seq(DownFrames) : F = ToWriters(host, "ask", id)
  BY <1>1, WritersFrames
<1>5. Send(h, F) /\ up' = up
  BY <1>2, <1>3, <1>4 DEF Ask
<1>6. /\ h \in HostStates /\ SameSocket(h) /\ h.log = host.log /\ h.writers = host.writers
      /\ h.asks = host.asks \cup {id} /\ h.asked = id /\ h.refused = host.refused
  BY <1>1, <1>2, <1>3, HostType DEF HostStates, SameSocket
<1>8. Delivers(F) /\ host' \in HostStates /\ Becomes(h)
  BY <1>1, <1>5, <1>6, Sent
<1>9. /\ host'.room = host.room /\ host'.nextPeer = host.nextPeer /\ host'.open = host.open
      /\ host'.log = host.log /\ host'.writers = host.writers /\ host'.asks = host.asks \cup {id}
      /\ host'.asked = id /\ host'.refused = host.refused
  BY <1>6, <1>8 DEF Becomes, SameSocket
<1>10. host.asked <= id /\ id \in 1 .. id /\ host.asks \cup {id} \subseteq 1 .. id
  BY <1>1, <1>2, HostType
<1>11. PastFrames(host', F)
  BY <1>1, <1>4, <1>9, <1>10, WritersFrames
<1>12. ASSUME NEW g \in Guests, NEW a \in Marks, NEW b \in Marks,
              SyncedBy(g, guest[g], Stream(g), up, host, a, b)
       PROVE  /\ g \in Writers => Attends(guest[g], up', host', a)
              /\ \E c : /\ Leads(ForPeer(F, guest[g].peer), b, c, Connection(g))
                        /\ Caught(g, guest[g].peer, up', host', c)
  <2>1. (g \in Writers => Attends(guest[g], up, host, a)) /\ Caught(g, guest[g].peer, up, host, b)
    BY <1>1, <1>12, SyncedFacts
  <2>2. a.asks \cap host'.asks = a.asks \cap host.asks
    <3>1. a.asks \subseteq 1 .. host.asked
      BY <1>12 DEF SyncedBy
    <3>2. id \notin a.asks
      BY <1>1, <1>2, <3>1, HostType
    <3> QED
      BY <1>9, <3>2
  <2>3. g \in Writers => Attends(guest[g], up', host', a)
    BY <1>5, <2>1, <2>2 DEF Attends, Attentive
  <2>4. PICK p \in Nat : p = guest[g].peer
    BY <1>1, StreamType
  <2>5. CASE p \in host.writers
    <3>1. PICK f \in DownFrames : f = DialogFrame(p, "ask", id)
      BY <1>1, WritersFrames
    <3>2. f.t = "ask" /\ f.id = id
      BY <3>1 DEF DialogFrame
    <3>3. ForPeer(F, p) = <<f>>
      BY <1>1, <1>4, <2>5, <3>1, WritersFrames
    <3>4. Fits(b, f, Connection(g))
      BY <2>1, <3>2 DEF Fits, Caught
    <3>5. Leads(<<f>>, b, After(b, f, Connection(g)), Connection(g))
      BY <3>4, LeadsOne
    <3>6. Caught(g, p, up', host', After(b, f, Connection(g)))
      BY <1>5, <1>9, <2>1, <2>4, <3>2 DEF After, Caught, Marks
    <3> QED
      BY <2>3, <2>4, <3>3, <3>5, <3>6
  <2>6. CASE p \notin host.writers
    <3>1. ForPeer(F, p) = <<>>
      BY <1>1, <1>4, <2>6, WritersFrames
    <3>2. Leads(<<>>, b, b, Connection(g))
      BY LeadsNil
    <3>3. Caught(g, p, up', host', b)
      BY <1>5, <1>9, <2>1, <2>4, <2>6 DEF Caught
    <3> QED
      BY <2>3, <2>4, <3>1, <3>2, <3>3
  <2> QED
    BY <2>5, <2>6
<1>13. Follows(F)
  BY <1>12 DEF Follows
<1>14. Alone(F)
  BY <1>5, <1>8, <1>9, <1>10, <1>11, <1>13 DEF Alone
<1> QED
  BY <1>14, HostAlone

\* What the queue to the host still holds of a guest when a dialog is settled.
Keeping(g, id) ==
  /\ HelloIn(up, guest[g].peer) => HelloIn(up', guest[g].peer)
  /\ \A k : k # id /\ AnswerIn(up, guest[g].peer, k) => AnswerIn(up', guest[g].peer, k)

\* Settling a dialog sends its end to all who still show it, or will.
LEMMA SettleFollows ==
  ASSUME Main, NEW id \in host.asks, Settle(id), \A g \in Guests : Keeping(g, id)
  PROVE  \E F \in Seq(DownFrames) :
           /\ Delivers(F) /\ Follows(F) /\ PastFrames(host', F) /\ host' \in HostStates
           /\ Becomes([host EXCEPT !.asks = @ \ {id}])
<1>1. Framework /\ Typed
  BY DEF Main, Framework
<1>2. id \in Nat
  BY <1>1, HostType
<1>3. PICK h : h = [host EXCEPT !.asks = @ \ {id}]
  OBVIOUS
<1>4. PICK F \in Seq(DownFrames) : F = ToWriters(host, "end", id)
  BY <1>1, <1>2, WritersFrames
<1>5. Send(h, F)
  BY <1>3, <1>4 DEF Settle
<1>6. /\ h \in HostStates /\ SameSocket(h) /\ h.log = host.log /\ h.writers = host.writers
      /\ h.asks = host.asks \ {id} /\ h.asked = host.asked /\ h.refused = host.refused
  BY <1>1, <1>3, HostType DEF HostStates, SameSocket
<1>8. Delivers(F) /\ host' \in HostStates /\ Becomes(h)
  BY <1>1, <1>5, <1>6, Sent
<1>9. /\ host'.log = host.log /\ host'.writers = host.writers /\ host'.asks = host.asks \ {id}
      /\ host'.asked = host.asked
  BY <1>6, <1>8 DEF Becomes, SameSocket
<1>11. PastFrames(host', F)
  BY <1>1, <1>2, <1>4, WritersFrames
<1>12. ASSUME NEW g \in Guests, NEW a \in Marks, NEW b \in Marks,
              SyncedBy(g, guest[g], Stream(g), up, host, a, b)
       PROVE  /\ g \in Writers => Attends(guest[g], up', host', a)
              /\ \E c : /\ Leads(ForPeer(F, guest[g].peer), b, c, Connection(g))
                        /\ Caught(g, guest[g].peer, up', host', c)
  <2>1. (g \in Writers => Attends(guest[g], up, host, a)) /\ Caught(g, guest[g].peer, up, host, b)
    BY <1>1, <1>12, SyncedFacts
  <2>2. Keeping(g, id)
    OBVIOUS
  <2>3. g \in Writers => Attends(guest[g], up', host', a)
    BY <1>9, <2>1, <2>2 DEF Attends, Attentive, Keeping
  <2>4. PICK p \in Nat : p = guest[g].peer
    BY <1>1, StreamType
  <2>5. CASE p \in host.writers
    <3>1. PICK f \in DownFrames : f = DialogFrame(p, "end", id)
      BY <1>1, <1>2, WritersFrames
    <3>2. f.t = "end" /\ f.id = id
      BY <3>1 DEF DialogFrame
    <3>3. ForPeer(F, p) = <<f>>
      BY <1>1, <1>2, <1>4, <2>5, <3>1, WritersFrames
    <3>4. Fits(b, f, Connection(g))
      BY <2>1, <3>2 DEF Fits, Caught
    <3>5. Leads(<<f>>, b, After(b, f, Connection(g)), Connection(g))
      BY <3>4, LeadsOne
    <3>6. Caught(g, p, up', host', After(b, f, Connection(g)))
      BY <1>9, <2>1, <2>2, <2>4, <3>2 DEF After, Caught, Marks, Keeping
    <3> QED
      BY <2>3, <2>4, <3>3, <3>5, <3>6
  <2>6. CASE p \notin host.writers
    <3>1. ForPeer(F, p) = <<>>
      BY <1>1, <1>2, <1>4, <2>6, WritersFrames
    <3>2. Leads(<<>>, b, b, Connection(g))
      BY LeadsNil
    <3>3. Caught(g, p, up', host', b)
      BY <1>9, <2>1, <2>2, <2>4, <2>6 DEF Caught, Keeping
    <3> QED
      BY <2>3, <2>4, <3>1, <3>2, <3>3
  <2> QED
    BY <2>5, <2>6
<1>13. Follows(F)
  BY <1>12 DEF Follows
<1> QED
  BY <1>3, <1>8, <1>11, <1>13

\* A dialog is settled at the host.
LEMMA SettledHereSafe ==
  ASSUME Main, NEW id, SettledHere(id)
  PROVE  Main'
<1>1. Framework /\ Typed
  BY DEF Main, Framework
<1>2. id \in host.asks /\ Settle(id) /\ up' = up
  BY DEF SettledHere
<1>3. \A g \in Guests : Keeping(g, id)
  BY <1>2 DEF Keeping
<1>4. PICK F \in Seq(DownFrames) :
         /\ Delivers(F) /\ Follows(F) /\ PastFrames(host', F) /\ host' \in HostStates
         /\ Becomes([host EXCEPT !.asks = @ \ {id}])
  BY <1>2, <1>3, SettleFollows
<1>5. PICK h : h = [host EXCEPT !.asks = @ \ {id}]
  OBVIOUS
<1>6. /\ h.room = host.room /\ h.nextPeer = host.nextPeer /\ h.open = host.open
      /\ h.writers = host.writers /\ h.asks \subseteq host.asks /\ h.asked = host.asked /\ h.refused = host.refused
  BY <1>1, <1>5, HostType DEF HostStates
<1>7. Alone(F)
  BY <1>1, <1>2, <1>4, <1>5, <1>6, HostType DEF Alone, Becomes
<1> QED
  BY <1>7, HostAlone
-----------------------------------------------------------------------------
\* The host handles the head of its queue.
Handles(frames) ==
  /\ frames \in Seq(DownFrames) /\ Delivers(frames) /\ Follows(frames) /\ PastFrames(host', frames)
  /\ host' \in HostStates /\ host'.asked = host.asked /\ host'.asks \subseteq 1 .. host'.asked
  /\ host'.open = host.open /\ host'.room = host.room /\ host'.nextPeer = host.nextPeer
  /\ IsFiniteSet(host'.writers) /\ NoPeer \notin host'.writers
  /\ up # <<>> /\ up' = Tail(up)

\* What is left of the queue to the host is still honest, and from peers of the room.
LEMMA EmbedPeers ==
  ASSUME Framework, SameGuests, up' \in Seq(UpFrames), NEW K, NEW h, Embeds(up', up, K, h),
         host'.nextPeer = host.nextPeer
  PROVE  Peers' /\ HonestGuests'
<1>1. Typed /\ Peers /\ HonestGuests
  BY DEF Framework
<1>2. \A g \in Guests : /\ guest'[g].peer = guest[g].peer /\ guest'[g].buffer = guest[g].buffer
                        /\ InRoom(g)' <=> InRoom(g)
  BY DEF SameGuests, InRoom
<1>3. \A i \in 1 .. Len(up') : \E j \in 1 .. Len(up) : up'[i] = up[j]
  BY DEF Embeds
<1>4. Peers'
  BY <1>1, <1>2, <1>3 DEF Peers
<1>5. ASSUME NEW g \in Guests, InRoom(g)' PROVE Sincere(up', g, guest'[g].peer)
  <2>1. Sincere(up, g, guest[g].peer)
    BY <1>1, <1>2, <1>5 DEF HonestGuests
  <2>2. Sincere(up', g, guest[g].peer)
    BY <1>3, <2>1 DEF Sincere
  <2> QED
    BY <1>2, <2>2
<1>6. HonestGuests'
  BY <1>1, <1>2, <1>5 DEF HonestGuests
<1> QED
  BY <1>4, <1>6

\* A step that takes the head of the queue to the host keeps the invariant.
LEMMA HostHandles ==
  ASSUME Main, NEW frames, Handles(frames), Introduced', RefusedWhenCutOff'
  PROVE  Main'
<1>0. /\ frames \in Seq(DownFrames) /\ Delivers(frames) /\ Follows(frames) /\ PastFrames(host', frames)
      /\ host' \in HostStates /\ host'.asked = host.asked /\ host'.asks \subseteq 1 .. host'.asked
      /\ host'.open = host.open /\ host'.room = host.room /\ host'.nextPeer = host.nextPeer
      /\ IsFiniteSet(host'.writers) /\ NoPeer \notin host'.writers
      /\ up # <<>> /\ up' = Tail(up)
  BY DEF Handles
<1>1. Framework /\ Typed
  BY DEF Main, Framework
<1>2. SameGuests
  BY <1>0, <1>1, DeliversSame DEF SameGuests
<1>3. up' \in Seq(UpFrames) /\ Peers' /\ HonestGuests'
  <2>1. PICK h : up' \in Seq(UpFrames) /\ Embeds(up', up, 2 .. Len(up), h)
    BY <1>0, <1>1, EmbedsTail DEF Typed
  <2> QED
    BY <1>0, <1>1, <1>2, <2>1, EmbedPeers
<1>4. host'.asked \in Nat /\ host.asked <= host'.asked
  BY <1>0 DEF HostStates
<1>5. NoFuture'
  BY <1>0, <1>1, <1>4, HostNoFuture
<1>6. InSync'
  BY <1>0, <1>1, <1>4, HostSynced DEF Main
<1>7. Socket'
  BY <1>0, <1>1, DeliversSocket
<1>8. Typed'
  BY <1>0, <1>1, <1>3 DEF Typed, Delivers
<1> QED
  BY <1>3, <1>5, <1>6, <1>7, <1>8 DEF Main, Framework

\* What the queue to the host holds when its head has been taken.
LEMMA TailKeeps ==
  ASSUME Typed, up # <<>>, up' = Tail(up), NEW p
  PROVE  /\ Head(up) \in UpFrames /\ Head(up) = up[1] /\ 1 \in 1 .. Len(up)
         /\ (Head(up).t = "hello" => Head(up).from # p) =>
              /\ HelloIn(up, p) => HelloIn(up', p)
              /\ Heralded(up, p) => Heralded(up', p)
         /\ \A id : (Head(up).t = "answer" /\ Head(up).from = p => Head(up).id # id) =>
              (AnswerIn(up, p, id) => AnswerIn(up', p, id))
<1>1. PICK q \in Seq(UpFrames) : q = up
  BY DEF Typed
<1>2. PICK r \in Seq(UpFrames) : r = Tail(q)
  BY <1>1, EmbedsTail
<1>3. PICK h : Embeds(r, q, 2 .. Len(q), h)
  BY <1>1, <1>2, EmbedsTail
<1>4. Head(q) \in UpFrames /\ Head(q) = q[1] /\ Len(q) \in Nat /\ Len(q) > 0
  BY <1>1, HeadTailProperties, EmptySeq
<1>5. \A k \in 1 .. Len(q) : k \in 2 .. Len(q) \/ q[k] = Head(q)
  BY <1>4
<1>6. ASSUME Head(q).t = "hello" => Head(q).from # p
      PROVE  (HelloIn(q, p) => HelloIn(r, p)) /\ (Heralded(q, p) => Heralded(r, p))
  <2>1. \A k \in 1 .. Len(q) : q[k].t = "hello" /\ q[k].from = p => k \in 2 .. Len(q)
    BY <1>5, <1>6
  <2> QED
    BY <1>2, <1>3, <2>1, EmbedsKeeps, LenProperties
<1>7. ASSUME NEW id, Head(q).t = "answer" /\ Head(q).from = p => Head(q).id # id
      PROVE  AnswerIn(q, p, id) => AnswerIn(r, p, id)
  <2>1. \A k \in 1 .. Len(q) : q[k].t = "answer" /\ q[k].from = p /\ q[k].id = id => k \in 2 .. Len(q)
    BY <1>5, <1>7
  <2> QED
    BY <1>2, <1>3, <2>1, EmbedsKeeps, LenProperties
<1> QED
  BY <1>1, <1>2, <1>4, <1>6, <1>7

\* An error frame goes to one peer and changes nothing.
LEMMA ErrorFollows ==
  ASSUME Framework, NEW p \in Nat, p # NoPeer, Delivers(<<ErrorFrame(p)>>),
         host'.log = host.log, host'.writers = host.writers, host'.asks = host.asks,
         \A g \in Guests : /\ HelloIn(up, guest[g].peer) => HelloIn(up', guest[g].peer)
                           /\ \A a \in Marks : Attends(guest[g], up, host, a) /\ a.known
                                               /\ guest[g].peer \in host.writers
                                 => Attends(guest[g], up', host', a)
  PROVE  /\ <<ErrorFrame(p)>> \in Seq(DownFrames) /\ Follows(<<ErrorFrame(p)>>)
         /\ PastFrames(host', <<ErrorFrame(p)>>)
<1>1. Typed
  BY DEF Framework
<1>2. PICK f : f = ErrorFrame(p)
  OBVIOUS
<1>3. f \in DownFrames /\ f.to = p /\ f.t = "error"
  BY <1>2 DEF ErrorFrame, DownFrames
<1>4. PICK q \in Seq(DownFrames) : q = <<f>> /\ Len(q) = 1 /\ q[1] = f
  BY <1>3, Single
<1>5. ASSUME NEW g \in Guests, NEW a \in Marks, NEW b \in Marks,
             SyncedBy(g, guest[g], Stream(g), up, host, a, b)
      PROVE  /\ g \in Writers => Attends(guest[g], up', host', a)
             /\ \E c : /\ Leads(ForPeer(q, guest[g].peer), b, c, Connection(g))
                       /\ Caught(g, guest[g].peer, up', host', c)
  <2>1. /\ (g \in Writers => Attends(guest[g], up, host, a)) /\ Caught(g, guest[g].peer, up, host, b)
        /\ a.known => b.known
    BY <1>1, <1>5, SyncedFacts
  <2>2. Caught(g, guest[g].peer, up', host', b)
    BY <2>1 DEF Caught
  <2>3. g \in Writers => Attends(guest[g], up', host', a)
    <3>1. CASE g \in Writers /\ a.known
      BY <2>1, <3>1 DEF Caught
    <3>2. CASE ~a.known
      BY <3>2 DEF Attends, Attentive
    <3> QED
      BY <3>1, <3>2
  <2>4. CASE guest[g].peer = p
    <3>1. \A i \in 1 .. Len(q) : q[i].to \in {Everyone, guest[g].peer}
      BY <1>3, <1>4, <2>4
    <3>2. ForPeer(q, guest[g].peer) = <<f>>
      BY <1>4, <3>1, ForPeerAll
    <3>3. Fits(b, f, Connection(g)) /\ After(b, f, Connection(g)) = b
      BY <1>3, <2>1 DEF Fits, After, Caught
    <3>4. Leads(<<f>>, b, After(b, f, Connection(g)), Connection(g))
      BY <1>3, <3>3, LeadsOne
    <3> QED
      BY <2>2, <2>3, <3>2, <3>3, <3>4
  <2>5. CASE guest[g].peer # p
    <3>1. \A i \in 1 .. Len(q) : q[i].to \notin {Everyone, guest[g].peer}
      BY <1>3, <1>4, <2>5 DEF Everyone, NoPeer
    <3>2. ForPeer(q, guest[g].peer) = <<>>
      BY <1>4, <3>1, ForPeerNone
    <3>3. Leads(<<>>, b, b, Connection(g))
      BY LeadsNil
    <3> QED
      BY <2>2, <2>3, <3>2, <3>3
  <2> QED
    BY <2>4, <2>5
<1>6. Follows(q)
  BY <1>5 DEF Follows
<1>7. PastFrames(host', q)
  BY <1>3, <1>4 DEF PastFrames, PastFrame
<1> QED
  BY <1>2, <1>4, <1>6, <1>7

\* Guests stay introduced when something else than a hello is handled.
LEMMA StaysIntroduced ==
  ASSUME Framework, Introduced, SameGuests, up # <<>>, up' = Tail(up), Head(up).t # "hello",
         host'.writers = host.writers
  PROVE  Introduced'
<1>1. Typed
  BY DEF Framework
<1>2. ASSUME NEW g \in Guests, InRoom(g)'
      PROVE  Greeted(g)' \/ (HelloIn(up', guest'[g].peer) /\ Heralded(up', guest'[g].peer))
  <2>1. guest'[g].peer = guest[g].peer /\ InRoom(g)
    BY <1>2 DEF SameGuests, InRoom
  <2>2. CASE Greeted(g)
    BY <2>1, <2>2 DEF Greeted
  <2>3. CASE HelloIn(up, guest[g].peer) /\ Heralded(up, guest[g].peer)
    <3>1. HelloIn(up', guest[g].peer) /\ Heralded(up', guest[g].peer)
      BY <1>1, <2>3, TailKeeps
    <3> QED
      BY <2>1, <3>1
  <2> QED
    BY <2>1, <2>2, <2>3 DEF Introduced
<1> QED
  BY <1>2 DEF Introduced

AllTo(q, p) == \A i \in 1 .. Len(q) : q[i].to = p

\* A guest says hello: it gets the log so far, and what the host is asking.
LEMMA WelcomeLead ==
  ASSUME Framework, NEW p \in Nat, p < host.nextPeer, NEW w \in BOOLEAN,
         NEW F, F = <<Welcome(host, p)>> \o Chunks(host, p) \o (IF w THEN Pending(host, p) ELSE <<>>)
  PROVE  /\ F \in Seq(DownFrames) /\ AllTo(F, p) /\ PastFrames(host, F)
         /\ \A b \in Marks : (b.known => ~b.open /\ b.log = host.log) =>
              Leads(F, b, Complete(host.log, IF w THEN host.asks ELSE {}), <<host.room, p>>)
<1>1. Typed
  BY DEF Framework
<1>2. PICK conn \in Connections : conn = <<host.room, p>>
  BY <1>1, HostType DEF Connections
<1>3. PICK f : f = Welcome(host, p)
  OBVIOUS
<1>4. f \in DownFrames /\ f.to = p /\ f.t = "welcome" /\ f.count = host.log /\ f.by = conn
  BY <1>1, <1>2, <1>3, HostType DEF Welcome, DownFrames
<1>5. PICK A \in Seq(DownFrames) : A = <<f>> /\ Len(A) = 1 /\ A[1] = f
  BY <1>4, Single
<1>6. PICK B \in Seq(DownFrames) :
        /\ B = Chunks(host, p)
        /\ \A i \in 1 .. Len(B) : B[i].to = p /\ B[i].t = "chunk"
        /\ Leads(B, Whole(host.log), Complete(host.log, {}), conn)
  BY <1>1, HostType, ChunksLead
<1>7. PICK ids : ids = IF w THEN host.asks ELSE {}
  OBVIOUS
<1>8. PICK C \in Seq(DownFrames) :
        /\ C = IF w THEN Pending(host, p) ELSE <<>>
        /\ \A i \in 1 .. Len(C) : C[i].to = p /\ C[i].t = "ask" /\ C[i].id \in host.asks
        /\ Leads(C, Complete(host.log, {}), Complete(host.log, ids), conn)
  <2>1. CASE w
    <3>1. /\ Pending(host, p) \in Seq(DownFrames)
          /\ \A i \in 1 .. Len(Pending(host, p)) :
               Pending(host, p)[i].to = p /\ Pending(host, p)[i].t = "ask" /\ Pending(host, p)[i].id \in host.asks
          /\ Leads(Pending(host, p), Complete(host.log, {}), Complete(host.log, host.asks), conn)
      BY <1>1, HostType, PendingLead
    <3> QED
      BY <1>7, <2>1, <3>1
  <2>2. CASE ~w
    <3>1. Complete(host.log, {}) \in Marks
      BY <1>1, HostType DEF Complete, Marks
    <3>2. Leads(<<>>, Complete(host.log, {}), Complete(host.log, {}), conn)
      BY <3>1, LeadsNil
    <3>3. PICK C \in Seq(DownFrames) : C = <<>> /\ Len(C) = 0
      BY EmptySeq
    <3>4. ids = {} /\ C = IF w THEN Pending(host, p) ELSE <<>>
      BY <1>7, <2>2, <3>3
    <3>5. \A i \in 1 .. Len(C) : C[i].to = p /\ C[i].t = "ask" /\ C[i].id \in host.asks
      BY <3>3
    <3>6. Leads(C, Complete(host.log, {}), Complete(host.log, ids), conn)
      BY <3>2, <3>3, <3>4
    <3> QED
      BY <3>4, <3>5, <3>6
  <2> QED
    BY <2>1, <2>2
<1>9. PICK AB \in Seq(DownFrames) : AB = A \o B
  BY ConcatProperties
<1>10. F = AB \o C
  BY <1>3, <1>5, <1>6, <1>8, <1>9
<1>11. F \in Seq(DownFrames)
  BY <1>10, ConcatProperties
<1>12. PICK q \in Seq(DownFrames) : q = F
  BY <1>11
<1>13. \A i \in 1 .. Len(AB) : AB[i].to = p
  <2>1. ASSUME NEW i \in 1 .. Len(AB) PROVE AB[i] = f \/ \E j \in 1 .. Len(B) : AB[i] = B[j]
    <3>1. Len(AB) = Len(A) + Len(B) /\ AB[i] = IF i <= Len(A) THEN A[i] ELSE B[i - Len(A)]
      BY <1>9, ConcatProperties
    <3>2. CASE i <= 1
      <4>1. i = 1
        BY <3>2
      <4> QED
        BY <1>5, <3>1, <4>1
    <3>3. CASE ~(i <= 1)
      <4>1. i - 1 \in 1 .. Len(B)
        BY <1>5, <3>1, <3>3
      <4> QED
        BY <1>5, <3>1, <3>3, <4>1
    <3> QED
      BY <3>2, <3>3
  <2> QED
    BY <1>4, <1>6, <2>1
<1>14. \A i \in 1 .. Len(q) : q[i].to = p
  <2>1. ASSUME NEW i \in 1 .. Len(q) PROVE q[i].to = p
    <3>1. Len(q) = Len(AB) + Len(C) /\ q[i] = IF i <= Len(AB) THEN AB[i] ELSE C[i - Len(AB)]
      BY <1>10, <1>12, ConcatProperties
    <3>2. CASE i <= Len(AB)
      BY <1>13, <3>1, <3>2
    <3>3. CASE ~(i <= Len(AB))
      <4>1. Len(AB) \in Nat /\ Len(C) \in Nat
        OBVIOUS
      <4>2. i - Len(AB) \in 1 .. Len(C)
        BY <3>1, <3>3, <4>1
      <4> QED
        BY <1>8, <3>1, <3>3, <4>2
    <3> QED
      BY <3>2, <3>3
  <2> QED
    BY <2>1
<1>15. PastFrames(host, q)
  <2>1. Past(host, conn)
    BY <1>1, <1>2, HostType DEF Past
  <2>2. PastFrames(host, A)
    BY <1>4, <1>5, <2>1 DEF PastFrames, PastFrame
  <2>3. PastFrames(host, B)
    BY <1>6 DEF PastFrames, PastFrame
  <2>4. PastFrames(host, C)
    <3>1. host.asks \subseteq 1 .. host.asked
      BY <1>1, HostType
    <3>2. \A i \in 1 .. Len(C) : C[i].t = "ask" /\ C[i].id \in 1 .. host.asked
      BY <1>8, <3>1
    <3> QED
      BY <3>2 DEF PastFrames, PastFrame
  <2>5. PastFrames(host, AB)
    BY <1>9, <2>2, <2>3, PastConcat
  <2>6. PastFrames(host, AB \o C)
    BY <2>4, <2>5, PastConcat
  <2> QED
    BY <1>10, <1>12, <2>6
<1>16. ASSUME NEW b \in Marks, b.known => ~b.open /\ b.log = host.log
       PROVE  Leads(AB \o C, b, Complete(host.log, ids), conn)
  <2>1. Fits(b, f, conn)
    BY <1>4, <1>16 DEF Fits
  <2>2. After(b, f, conn) = Whole(host.log)
    BY <1>4 DEF After, Whole
  <2>3. Leads(A, b, Whole(host.log), conn)
    BY <1>4, <1>5, <2>1, <2>2, LeadsOne
  <2>4. Leads(AB, b, Complete(host.log, {}), conn)
    BY <1>6, <1>9, <2>3, LeadsConcat
  <2> QED
    BY <1>8, <2>4, LeadsConcat
<1> QED
  BY <1>2, <1>7, <1>10, <1>12, <1>14, <1>15, <1>16 DEF AllTo

\* What is at the head of the queue to the host.
LEMMA HeadFacts ==
  ASSUME Framework, up # <<>>
  PROVE  /\ Head(up) \in UpFrames /\ Head(up) = up[1] /\ 1 \in 1 .. Len(up)
         /\ Head(up).from \in Nat /\ Head(up).from # NoPeer /\ Head(up).from < host.nextPeer
         /\ \A g \in Guests : guest[g].peer = Head(up).from => InRoom(g) /\ Honest(g, Head(up))
<1>1. Typed /\ Peers /\ HonestGuests
  BY DEF Framework
<1>2. Head(up) \in UpFrames /\ Head(up) = up[1] /\ 1 \in 1 .. Len(up)
  BY <1>1, HeadTailProperties, EmptySeq, LenProperties DEF Typed
<1>3. Head(up).from \in 1 .. host.nextPeer - 1 /\ host.nextPeer \in Nat
  BY <1>1, <1>2, HostType DEF Peers
<1>4. Head(up).from \in Nat /\ Head(up).from # NoPeer /\ Head(up).from < host.nextPeer
  BY <1>3 DEF NoPeer
<1>5. ASSUME NEW g \in Guests, guest[g].peer = Head(up).from PROVE InRoom(g) /\ Honest(g, Head(up))
  <2>1. InRoom(g)
    BY <1>4, <1>5 DEF InRoom
  <2>2. Sincere(up, g, guest[g].peer)
    BY <1>1, <2>1 DEF HonestGuests
  <2> QED
    BY <1>2, <1>5, <2>1, <2>2 DEF Sincere
<1> QED
  BY <1>2, <1>4, <1>5

\* handleHello keeps the invariant: the welcome, the chunks and the open dialogs lead a guest
\* from knowing nothing to all the host has (host.ts:370-422).
LEMMA HelloSafe ==
  ASSUME Main, up # <<>>, Head(up).t = "hello", up' = Tail(up), HandleHello(Head(up))
  PROVE  Main'
<1>1. Framework /\ Typed
  BY DEF Main, Framework
<1>2. PICK m \in UpFrames : m = Head(up)
  BY <1>1, HeadFacts
<1>3. PICK p \in Nat : p = m.from /\ p # NoPeer /\ p < host.nextPeer
  BY <1>1, <1>2, HeadFacts
<1>4. PICK w \in BOOLEAN : w = m.write
  BY <1>2 DEF UpFrames
<1>5. \A g \in Guests : guest[g].peer = p => w = (g \in Writers)
  BY <1>1, <1>2, <1>3, <1>4, HeadFacts DEF Honest
<1>6. PICK ws \in SUBSET Nat : ws = IF w THEN host.writers \cup {p} ELSE host.writers \ {p}
  BY <1>1, HostType
<1>7. /\ IsFiniteSet(ws) /\ NoPeer \notin ws
      /\ p \in ws <=> w
      /\ \A r : r # p => (r \in ws <=> r \in host.writers)
  <2>1. IsFiniteSet(host.writers) /\ NoPeer \notin host.writers
    BY <1>1, HostType
  <2>2. IsFiniteSet(host.writers \cup {p}) /\ IsFiniteSet(host.writers \ {p})
    BY <2>1, FS_AddElement, FS_RemoveElement
  <2> QED
    BY <1>3, <1>6, <2>1, <2>2
<1>8. PICK h : h = [host EXCEPT !.writers = ws]
  OBVIOUS
<1>9. PICK F \in Seq(DownFrames) :
        F = <<Welcome(host, p)>> \o Chunks(host, p) \o (IF w THEN Pending(host, p) ELSE <<>>)
  BY <1>1, <1>3, WelcomeLead
<1>10. Send(h, F)
  BY <1>2, <1>3, <1>4, <1>6, <1>8, <1>9 DEF HandleHello
<1>11. /\ h \in HostStates /\ SameSocket(h) /\ h.log = host.log /\ h.writers = ws
       /\ h.asks = host.asks /\ h.asked = host.asked /\ h.refused = host.refused
  BY <1>1, <1>6, <1>8, HostType DEF HostStates, SameSocket
<1>12. Delivers(F) /\ host' \in HostStates /\ Becomes(h)
  BY <1>1, <1>10, <1>11, Sent
<1>13. /\ host'.room = host.room /\ host'.nextPeer = host.nextPeer /\ host'.open = host.open
       /\ host'.log = host.log /\ host'.writers = ws /\ host'.asks = host.asks
       /\ host'.asked = host.asked /\ host'.refused = host.refused
  BY <1>11, <1>12 DEF Becomes, SameSocket
<1>14. PastFrames(host', F)
  <2>1. PastFrames(host, F)
    BY <1>1, <1>3, <1>9, WelcomeLead
  <2> QED
    BY <1>13, <2>1 DEF PastFrames, PastFrame, Past
<1>15. ASSUME NEW g \in Guests, NEW a \in Marks, NEW b \in Marks,
              SyncedBy(g, guest[g], Stream(g), up, host, a, b)
       PROVE  /\ g \in Writers => Attends(guest[g], up', host', a)
              /\ \E c : /\ Leads(ForPeer(F, guest[g].peer), b, c, Connection(g))
                        /\ Caught(g, guest[g].peer, up', host', c)
  <2>1. (g \in Writers => Attends(guest[g], up, host, a)) /\ Caught(g, guest[g].peer, up, host, b)
    BY <1>1, <1>15, SyncedFacts
  <2>2. \A id : AnswerIn(up, guest[g].peer, id) => AnswerIn(up', guest[g].peer, id)
    BY <1>1, TailKeeps
  <2>3. g \in Writers => Attends(guest[g], up', host', a)
    BY <1>13, <2>1, <2>2 DEF Attends, Attentive
  <2>4. CASE guest[g].peer = p
    <3>1. AllTo(F, p)
      BY <1>1, <1>3, <1>9, WelcomeLead
    <3>2. ForPeer(F, p) = F
      BY <3>1, ForPeerAll DEF AllTo
    <3>3. b.known => ~b.open /\ b.log = host.log
      BY <2>1 DEF Caught
    <3>4. PICK c : c = Complete(host.log, IF w THEN host.asks ELSE {})
      OBVIOUS
    <3>5. Leads(F, b, c, <<host.room, p>>)
      BY <1>1, <1>3, <1>9, <3>3, <3>4, WelcomeLead
    <3>6. Caught(g, p, up', host', c)
      BY <1>5, <1>7, <1>13, <2>4, <3>4 DEF Caught, Complete
    <3> QED
      BY <2>3, <2>4, <3>2, <3>5, <3>6 DEF Connection
  <2>5. CASE guest[g].peer # p
    <3>1. AllTo(F, p)
      BY <1>1, <1>3, <1>9, WelcomeLead
    <3>2. \A i \in 1 .. Len(F) : F[i].to \notin {Everyone, guest[g].peer}
      BY <1>3, <2>5, <3>1 DEF AllTo, Everyone, NoPeer
    <3>3. ForPeer(F, guest[g].peer) = <<>>
      BY <3>2, ForPeerNone
    <3>4. Leads(<<>>, b, b, Connection(g))
      BY LeadsNil
    <3>5. HelloIn(up, guest[g].peer) => HelloIn(up', guest[g].peer)
      BY <1>1, <1>2, <1>3, <2>5, TailKeeps
    <3>6. Caught(g, guest[g].peer, up', host', b)
      BY <1>7, <1>13, <2>1, <2>5, <3>5 DEF Caught
    <3> QED
      BY <2>3, <3>3, <3>4, <3>6
  <2> QED
    BY <2>4, <2>5
<1>16. Follows(F)
  BY <1>15 DEF Follows
<1>17. Handles(F)
  BY <1>1, <1>7, <1>12, <1>13, <1>14, <1>16, HostType DEF Handles
<1>18. Introduced'
  <2>1. ASSUME NEW g \in Guests, InRoom(g)'
        PROVE  Greeted(g)' \/ (HelloIn(up', guest'[g].peer) /\ Heralded(up', guest'[g].peer))
    <3>1. guest'[g].peer = guest[g].peer /\ InRoom(g)
      BY <1>1, <1>12, <2>1, DeliversSame DEF InRoom
    <3>2. CASE guest[g].peer = p
      BY <1>5, <1>7, <1>13, <3>1, <3>2 DEF Greeted
    <3>3. CASE guest[g].peer # p
      <4>1. /\ HelloIn(up, guest[g].peer) => HelloIn(up', guest[g].peer)
            /\ Heralded(up, guest[g].peer) => Heralded(up', guest[g].peer)
        BY <1>1, <1>2, <1>3, <3>3, TailKeeps
      <4>2. Greeted(g) => Greeted(g)'
        BY <1>7, <1>13, <3>1, <3>3 DEF Greeted
      <4> QED
        BY <3>1, <4>1, <4>2 DEF Main, Introduced
    <3> QED
      BY <3>2, <3>3
  <2> QED
    BY <2>1 DEF Introduced
<1>19. RefusedWhenCutOff'
  BY <1>13 DEF Main, RefusedWhenCutOff
<1> QED
  BY <1>17, <1>18, <1>19, HostHandles

\* The socket and the guests are left alone.
LEMMA IdleDelivers ==
  ASSUME Typed, Socket, guest' = guest, host'.pending = host.pending, host'.lost = host.lost,
         host'.open = host.open, host'.stalled = host.stalled
  PROVE  Delivers(<<>>) /\ <<>> \in Seq(DownFrames) /\ \A h : PastFrames(h, <<>>)
<1>1. ASSUME NEW g \in Guests PROVE Stream(g)' = Stream(g) \o ForPeer(<<>>, guest[g].peer)
  <2>1. Stream(g)' = Stream(g)
    BY DEF Stream
  <2>2. Stream(g) \in Seq(DownFrames)
    BY StreamType
  <2>3. Stream(g) \o <<>> = Stream(g)
    BY <2>2, ConcatEmptySeq
  <2> QED
    BY <2>1, <2>3, ForPeerNil
<1>2. \A g \in Guests : guest'[g] = [guest[g] EXCEPT !.inbox = guest'[g].inbox]
  BY DEF Typed, GuestStates
<1>3. guest' \in [Guests -> GuestStates] /\ Len(host.pending) <= MaxBuffered
  BY DEF Typed, Socket
<1>4. Delivers(<<>>)
  BY <1>1, <1>2, <1>3, HostType DEF Delivers, Socket
<1> QED
  BY <1>4 DEF PastFrames

\* A host step that sends nothing and changes neither the log nor the dialogs leaves everyone
\* in step.
LEMMA IdleFollows ==
  ASSUME Typed, guest' = guest, host'.log = host.log, host'.asks = host.asks,
         \A g \in Guests : /\ HelloIn(up, guest[g].peer) => HelloIn(up', guest[g].peer)
                           /\ \A id \in host.asks : AnswerIn(up, guest[g].peer, id) => AnswerIn(up', guest[g].peer, id)
                           /\ InRoom(g) /\ guest[g].peer \in host.writers => guest[g].peer \in host'.writers
  PROVE  Follows(<<>>)
<1>1. ASSUME NEW g \in Guests, InRoom(g), NEW a \in Marks, NEW b \in Marks,
             SyncedBy(g, guest[g], Stream(g), up, host, a, b)
      PROVE  /\ g \in Writers => Attends(guest[g], up', host', a)
             /\ Leads(ForPeer(<<>>, guest[g].peer), b, b, Connection(g))
             /\ Caught(g, guest[g].peer, up', host', b)
  <2>1. (g \in Writers => Attends(guest[g], up, host, a)) /\ Caught(g, guest[g].peer, up, host, b)
    BY <1>1, SyncedFacts
  <2>2. g \in Writers => Attends(guest[g], up', host', a)
    BY <2>1 DEF Attends, Attentive
  <2>3. Caught(g, guest[g].peer, up', host', b)
    BY <1>1, <2>1 DEF Caught
  <2> QED
    BY <2>2, <2>3, ForPeerNil, LeadsNil
<1> QED
  BY <1>1 DEF Follows

\* A frame that changes nothing at the host is handled.
LEMMA IdleSafe ==
  ASSUME Main, up # <<>>, up' = Tail(up), Head(up).t # "hello", UNCHANGED <<host, guest>>,
         Head(up).t = "answer" => Head(up).id \notin host.asks
  PROVE  Main'
<1>1. Framework /\ Typed /\ Socket
  BY DEF Main, Framework
<1>2. Delivers(<<>>) /\ <<>> \in Seq(DownFrames) /\ \A h : PastFrames(h, <<>>)
  BY <1>1, IdleDelivers
<1>3. \A g \in Guests :
        /\ HelloIn(up, guest[g].peer) => HelloIn(up', guest[g].peer)
        /\ \A id \in host.asks : AnswerIn(up, guest[g].peer, id) => AnswerIn(up', guest[g].peer, id)
  BY <1>1, TailKeeps
<1>4. Follows(<<>>)
  BY <1>1, <1>3, IdleFollows
<1>5. Handles(<<>>)
  BY <1>1, <1>2, <1>4, HostType DEF Handles
<1>6. Introduced'
  BY <1>1, StaysIntroduced DEF Main, SameGuests
<1>7. RefusedWhenCutOff'
  BY DEF Main, RefusedWhenCutOff
<1> QED
  BY <1>5, <1>6, <1>7, HostHandles

\* handlePrompt keeps the invariant: it refuses no writer whose hello came first.
LEMMA PromptHandled ==
  ASSUME Main, up # <<>>, Head(up).t = "prompt", up' = Tail(up), HandlePrompt(Head(up))
  PROVE  Main'
<1>1. Framework /\ Typed
  BY DEF Main, Framework
<1>2. PICK m \in UpFrames : m = Head(up)
  BY <1>1, HeadFacts
<1>3. PICK p \in Nat : p = m.from /\ p # NoPeer
  BY <1>1, <1>2, HeadFacts
<1>4. CASE p \in host.writers
  BY <1>2, <1>3, <1>4, IdleSafe DEF HandlePrompt
<1>5. CASE p \notin host.writers
  <2>1. PICK r : r = [late |-> m.late, gone |-> \A g \in Guests : guest[g].peer # p]
    OBVIOUS
  <2>2. r \in [late : BOOLEAN, gone : BOOLEAN]
    <3>1. m.late \in BOOLEAN
      BY <1>2 DEF UpFrames
    <3>2. (\A g \in Guests : guest[g].peer # p) \in BOOLEAN
      OBVIOUS
    <3> QED
      BY <2>1, <3>1, <3>2
  <2>3. PICK h : h = [host EXCEPT !.refused = @ \cup {r}]
    OBVIOUS
  <2>4. PICK F : F = <<ErrorFrame(p)>>
    OBVIOUS
  <2>5. Send(h, F)
    BY <1>2, <1>3, <1>5, <2>1, <2>3, <2>4 DEF HandlePrompt
  <2>6. /\ h \in HostStates /\ SameSocket(h) /\ h.log = host.log /\ h.writers = host.writers
        /\ h.asks = host.asks /\ h.asked = host.asked /\ h.refused = host.refused \cup {r}
    BY <1>1, <2>2, <2>3, HostType DEF HostStates, SameSocket
  <2>7. F \in Seq(DownFrames)
    <3>1. ErrorFrame(p) \in DownFrames
      BY DEF ErrorFrame, DownFrames
    <3> QED
      BY <2>4, <3>1, Single
  <2>8. Delivers(F) /\ host' \in HostStates /\ Becomes(h)
    BY <1>1, <2>5, <2>6, <2>7, Sent
  <2>9. /\ host'.room = host.room /\ host'.nextPeer = host.nextPeer /\ host'.open = host.open
        /\ host'.log = host.log /\ host'.writers = host.writers /\ host'.asks = host.asks
        /\ host'.asked = host.asked /\ host'.refused = host.refused \cup {r}
    BY <2>6, <2>8 DEF Becomes, SameSocket
  <2>10. \A g \in Guests :
           /\ HelloIn(up, guest[g].peer) => HelloIn(up', guest[g].peer)
           /\ \A id : AnswerIn(up, guest[g].peer, id) => AnswerIn(up', guest[g].peer, id)
    BY <1>1, TailKeeps
  <2>11. \A g \in Guests, a \in Marks : Attends(guest[g], up, host, a) => Attends(guest[g], up', host', a)
    BY <2>9, <2>10 DEF Attends, Attentive
  <2>12. Follows(F) /\ PastFrames(host', F)
    BY <1>1, <1>3, <2>4, <2>8, <2>9, <2>10, <2>11, ErrorFollows
  <2>13. Handles(F)
    BY <1>1, <2>7, <2>8, <2>9, <2>12, HostType DEF Handles
  <2>14. SameGuests
    BY <1>1, <2>8, DeliversSame DEF SameGuests
  <2>15. Introduced'
    BY <1>1, <2>9, <2>14, StaysIntroduced DEF Main
  <2>16. r.late \/ r.gone
    <3>1. SUFFICES ASSUME NEW g \in Guests, guest[g].peer = p, ~m.late PROVE FALSE
      BY <2>1
    <3>2. InRoom(g) /\ g \in Writers
      BY <1>1, <1>2, <1>3, <3>1, HeadFacts DEF Honest
    <3>3. ~Greeted(g)
      BY <1>5, <3>1, <3>2 DEF Greeted
    <3>4. Heralded(up, p)
      BY <3>1, <3>2, <3>3 DEF Main, Introduced
    <3>5. 1 \in 1 .. Len(up) /\ up[1] = m
      BY <1>1, <1>2, HeadFacts
    <3>6. \E j \in 1 .. 1 - 1 : up[j].t = "hello"
      BY <1>2, <1>3, <3>1, <3>4, <3>5 DEF Heralded
    <3> QED
      BY <3>6
  <2>17. RefusedWhenCutOff'
    BY <2>9, <2>16 DEF Main, RefusedWhenCutOff
  <2> QED
    BY <2>13, <2>15, <2>17, HostHandles
<1> QED
  BY <1>4, <1>5

\* handleUiResponse keeps the invariant, whether the dialog is still open or not.
LEMMA AnswerHandled ==
  ASSUME Main, up # <<>>, Head(up).t = "answer", up' = Tail(up), HandleUiResponse(Head(up))
  PROVE  Main'
<1>1. Framework /\ Typed
  BY DEF Main, Framework
<1>2. PICK m \in UpFrames : m = Head(up)
  BY <1>1, HeadFacts
<1>3. PICK p \in Nat : p = m.from /\ p # NoPeer
  BY <1>1, <1>2, HeadFacts
<1>4. \A g \in Guests :
        /\ HelloIn(up, guest[g].peer) => HelloIn(up', guest[g].peer)
        /\ \A id : (guest[g].peer # p \/ id # m.id) /\ AnswerIn(up, guest[g].peer, id)
                     => AnswerIn(up', guest[g].peer, id)
  BY <1>1, <1>2, <1>3, TailKeeps
<1>5. CASE p \in host.writers /\ m.id \notin host.asks
  BY <1>2, <1>3, <1>5, IdleSafe DEF HandleUiResponse
<1>6. CASE p \notin host.writers
  <2>1. PICK F : F = <<ErrorFrame(p)>>
    OBVIOUS
  <2>2. Send(host, F)
    BY <1>2, <1>3, <1>6, <2>1 DEF HandleUiResponse
  <2>3. F \in Seq(DownFrames)
    <3>1. ErrorFrame(p) \in DownFrames
      BY DEF ErrorFrame, DownFrames
    <3> QED
      BY <2>1, <3>1, Single
  <2>4. Delivers(F) /\ host' \in HostStates /\ Becomes(host)
    BY <1>1, <2>2, <2>3, Sent, HostType DEF SameSocket
  <2>5. \A g \in Guests, a \in Marks :
          Attends(guest[g], up, host, a) /\ guest[g].peer \in host.writers => Attends(guest[g], up', host', a)
    BY <1>4, <1>6, <2>4 DEF Attends, Attentive, Becomes
  <2>6. Follows(F) /\ PastFrames(host', F)
    BY <1>1, <1>3, <1>4, <2>1, <2>4, <2>5, ErrorFollows DEF Becomes
  <2>7. Handles(F)
    BY <1>1, <2>3, <2>4, <2>6, HostType DEF Handles, Becomes
  <2>8. SameGuests
    BY <1>1, <2>4, DeliversSame DEF SameGuests
  <2>9. Introduced'
    BY <1>1, <2>4, <2>8, StaysIntroduced DEF Main, Becomes
  <2>10. RefusedWhenCutOff'
    BY <2>4 DEF Main, RefusedWhenCutOff, Becomes
  <2> QED
    BY <2>7, <2>9, <2>10, HostHandles
<1>7. CASE p \in host.writers /\ m.id \in host.asks
  <2>1. PICK id \in host.asks : id = m.id
    BY <1>7
  <2>2. Settle(id)
    BY <1>2, <1>3, <1>7, <2>1 DEF HandleUiResponse
  <2>3. \A g \in Guests : Keeping(g, id)
    BY <1>4, <2>1 DEF Keeping
  <2>4. PICK F \in Seq(DownFrames) :
          /\ Delivers(F) /\ Follows(F) /\ PastFrames(host', F) /\ host' \in HostStates
          /\ Becomes([host EXCEPT !.asks = @ \ {id}])
    BY <2>2, <2>3, SettleFollows
  <2>5. PICK h : h = [host EXCEPT !.asks = @ \ {id}]
    OBVIOUS
  <2>6. /\ h.room = host.room /\ h.nextPeer = host.nextPeer /\ h.open = host.open
        /\ h.writers = host.writers /\ h.asks \subseteq host.asks /\ h.asked = host.asked /\ h.refused = host.refused
    BY <1>1, <2>5, HostType DEF HostStates
  <2>7. /\ host'.room = host.room /\ host'.nextPeer = host.nextPeer /\ host'.open = host.open
        /\ host'.writers = host.writers /\ host'.asks \subseteq host.asks /\ host'.asked = host.asked
        /\ host'.refused = host.refused
    BY <2>4, <2>5, <2>6 DEF Becomes
  <2>8. Handles(F)
    BY <1>1, <2>4, <2>7, HostType DEF Handles
  <2>9. SameGuests
    BY <1>1, <2>4, DeliversSame DEF SameGuests
  <2>10. Introduced'
    BY <1>1, <2>7, <2>9, StaysIntroduced DEF Main
  <2>11. RefusedWhenCutOff'
    BY <2>7 DEF Main, RefusedWhenCutOff
  <2> QED
    BY <2>8, <2>10, <2>11, HostHandles
<1> QED
  BY <1>5, <1>6, <1>7

\* The host takes the next frame of its queue, whatever it is.
LEMMA HandleFrameSafe ==
  ASSUME Main, HandleFrame
  PROVE  Main'
<1>1. Framework
  BY DEF Main
<1>2. /\ up # <<>> /\ Head(up).t # "left" /\ up' = Tail(up)
      /\ CASE Head(up).t = "hello"  -> HandleHello(Head(up))
           [] Head(up).t = "prompt" -> HandlePrompt(Head(up))
           [] Head(up).t = "answer" -> HandleUiResponse(Head(up))
  BY DEF HandleFrame
<1>3. Head(up).t \in {"hello", "prompt", "answer"}
  BY <1>1, <1>2, HeadFacts DEF UpFrames
<1>4. CASE Head(up).t = "hello"
  BY <1>2, <1>4, HelloSafe
<1>5. CASE Head(up).t = "prompt"
  BY <1>2, <1>5, PromptHandled
<1>6. CASE Head(up).t = "answer"
  BY <1>2, <1>6, AnswerHandled
<1> QED
  BY <1>3, <1>4, <1>5, <1>6

\* The relay says that a peer has left.
LEMMA HandlePeerLeftSafe ==
  ASSUME Main, HandlePeerLeft
  PROVE  Main'
<1>1. Framework /\ Typed /\ Socket /\ Peers
  BY DEF Main, Framework
<1>2. PICK i \in 1 .. Len(up) :
        /\ up[i].t = "left" /\ up' = RemoveAt(up, i)
        /\ host' = [host EXCEPT !.writers = @ \ {up[i].from}] /\ guest' = guest
  <2>1. DOMAIN up = 1 .. Len(up)
    BY <1>1 DEF Typed
  <2> QED
    BY <2>1 DEF HandlePeerLeft
<1>3. PICK p : p = up[i].from
  OBVIOUS
<1>4. \A g \in Guests : guest[g].peer # p
  BY <1>1, <1>2, <1>3 DEF Peers
<1>5. /\ host'.room = host.room /\ host'.nextPeer = host.nextPeer /\ host'.open = host.open
      /\ host'.log = host.log /\ host'.writers = host.writers \ {p} /\ host'.asks = host.asks
      /\ host'.asked = host.asked /\ host'.refused = host.refused /\ host'.pending = host.pending
      /\ host'.lost = host.lost /\ host'.stalled = host.stalled /\ host' \in HostStates
  BY <1>1, <1>2, <1>3, HostType DEF HostStates
<1>6. PICK q \in Seq(UpFrames) : q = up
  BY <1>1 DEF Typed
<1>7. PICK h : up' \in Seq(UpFrames) /\ Embeds(up', up, (1 .. Len(up)) \ {i}, h)
  BY <1>2, <1>6, EmbedsRemove
<1>8. ASSUME NEW r
      PROVE  /\ HelloIn(up, r) => HelloIn(up', r)
             /\ Heralded(up, r) => Heralded(up', r)
             /\ \A id : AnswerIn(up, r, id) => AnswerIn(up', r, id)
  <2>1. Len(up') \in Nat
    BY <1>7, LenProperties
  <2>2. \A k \in 1 .. Len(up) : up[k].t = "hello" /\ up[k].from = r => k \in (1 .. Len(up)) \ {i}
    BY <1>2
  <2>3. (HelloIn(up, r) => HelloIn(up', r)) /\ (Heralded(up, r) => Heralded(up', r))
    BY <1>7, <2>1, <2>2, EmbedsKeeps
  <2>4. ASSUME NEW id PROVE AnswerIn(up, r, id) => AnswerIn(up', r, id)
    <3>1. \A k \in 1 .. Len(up) : up[k].t = "answer" /\ up[k].from = r /\ up[k].id = id
                                    => k \in (1 .. Len(up)) \ {i}
      BY <1>2
    <3> QED
      BY <1>7, <2>1, <3>1, EmbedsKeeps
  <2> QED
    BY <2>3, <2>4
<1>9. SameGuests
  BY <1>2 DEF SameGuests
<1>10. Peers' /\ HonestGuests'
  BY <1>1, <1>5, <1>7, <1>9, EmbedPeers
<1>11. Delivers(<<>>) /\ <<>> \in Seq(DownFrames) /\ \A k : PastFrames(k, <<>>)
  BY <1>1, <1>2, <1>5, IdleDelivers
<1>12. Follows(<<>>)
  BY <1>1, <1>2, <1>4, <1>5, <1>8, IdleFollows
<1>13. host'.asked \in Nat /\ host.asked <= host'.asked
  BY <1>1, <1>5, HostType
<1>19. NoFuture'
  BY <1>1, <1>5, <1>11, <1>13, HostNoFuture
<1>14. InSync'
  BY <1>1, <1>5, <1>11, <1>12, <1>13, HostSynced DEF Main
<1>15. Typed'
  <2>1. IsFiniteSet(host.writers \ {p}) /\ NoPeer \notin host.writers \ {p}
    BY <1>1, HostType, FS_RemoveElement
  <2> QED
    BY <1>1, <1>2, <1>5, <1>7, <2>1 DEF Typed
<1>16. Socket'
  <2>1. up # <<>>
    BY <1>2, <1>6, EmptySeq
  <2> QED
    BY <1>1, <1>2, <1>5, <2>1 DEF Socket, InRoom
<1>17. Introduced'
  BY <1>2, <1>4, <1>5, <1>8 DEF Main, Introduced, Greeted, InRoom
<1>18. RefusedWhenCutOff'
  BY <1>5 DEF Main, RefusedWhenCutOff
<1> QED
  BY <1>10, <1>14, <1>15, <1>16, <1>17, <1>18, <1>19 DEF Main, Framework

\* A guest that is out.
LEMMA AbsentFacts ==
  /\ Absent \in GuestStates /\ Absent.peer = NoPeer /\ Absent.buffer = <<>>
  /\ \A h : PastGuest(h, Absent)
  /\ \A g : Waiting(<<>>, g)
<1>1. <<>> \in Seq(DownFrames) /\ <<>> \in Seq(Nat) /\ <<>> \in Seq(UpFrames) /\ Len(<<>>) = 0
  OBVIOUS
<1>2. Absent \in GuestStates
  BY <1>1 DEF Absent, GuestStates, NoPeer
<1>3. \A h : PastGuest(h, Absent)
  BY <1>1 DEF Absent, PastGuest, PastFrames
<1>4. \A g : Waiting(<<>>, g)
  BY <1>1 DEF Waiting
<1> QED
  BY <1>2, <1>3, <1>4 DEF Absent

\* Nobody is in the room.
LEMMA EmptyRoom ==
  ASSUME \A g \in Guests : guest'[g].peer = NoPeer, up' = <<>>, host'.nextPeer \in Nat, host'.nextPeer > 0,
         \A g \in Guests : Waiting(guest'[g].buffer, g)
  PROVE  Peers' /\ HonestGuests' /\ Introduced' /\ InSync'
<1>1. \A g \in Guests : ~InRoom(g)'
  BY DEF InRoom
<1>2. Len(up') = 0
  OBVIOUS
<1>3. Peers'
  BY <1>1, <1>2 DEF Peers, NoPeer, InRoom
<1>4. HonestGuests'
  BY <1>1 DEF HonestGuests
<1> QED
  BY <1>1, <1>3, <1>4 DEF Introduced, InSync

\* The host's socket breaks: the room is gone, and everybody in it out.
LEMMA HostDropsSafe ==
  ASSUME Main, HostDrops
  PROVE  Main'
<1>1. Typed /\ Socket /\ Peers /\ HonestGuests /\ NoFuture
  BY DEF Main, Framework
<1>2. /\ host' = [host EXCEPT !.open = FALSE, !.stalled = FALSE] /\ up' = <<>>
      /\ guest' = [g \in Guests |-> IF InRoom(g) THEN Absent ELSE guest[g]]
  BY DEF HostDrops
<1>3. /\ host'.open = FALSE /\ host'.pending = host.pending /\ host'.writers = host.writers
      /\ host'.asks = host.asks /\ host'.asked = host.asked /\ host'.refused = host.refused
      /\ host'.nextPeer = host.nextPeer /\ host'.room = host.room /\ host' \in HostStates
  BY <1>1, <1>2, HostType DEF HostStates
<1>4. guest' \in [Guests -> GuestStates]
  BY <1>1, <1>2, AbsentFacts DEF Typed
<1>5. \A g \in Guests : guest'[g].peer = NoPeer /\ Waiting(guest'[g].buffer, g)
  BY <1>1, <1>2, AbsentFacts DEF HonestGuests, InRoom
<1>6. Peers' /\ HonestGuests' /\ Introduced' /\ InSync'
  <2>1. host'.nextPeer \in Nat /\ host'.nextPeer > 0
    BY <1>1, <1>3, HostType
  <2> QED
    BY <1>2, <1>5, <2>1, EmptyRoom
<1>7. Typed'
  <2>1. <<>> \in Seq(UpFrames)
    OBVIOUS
  <2> QED
    BY <1>1, <1>2, <1>3, <1>4, <2>1 DEF Typed
<1>8. Socket'
  BY <1>1, <1>2, <1>3, <1>5 DEF Socket, InRoom
<1>9. NoFuture'
  <2>1. \A q : PastFrames(host, q) => PastFrames(host', q)
    BY <1>3 DEF PastFrames, PastFrame, Past
  <2>2. \A s : PastGuest(host, s) => PastGuest(host', s)
    BY <1>3, <2>1 DEF PastGuest, Past
  <2>3. ASSUME NEW g \in Guests PROVE PastGuest(host', guest'[g])
    BY <1>1, <1>2, <2>2, AbsentFacts DEF NoFuture
  <2> QED
    BY <1>1, <1>3, <2>1, <2>3 DEF NoFuture
<1>10. RefusedWhenCutOff'
  BY <1>3 DEF Main, RefusedWhenCutOff
<1> QED
  BY <1>6, <1>7, <1>8, <1>9, <1>10 DEF Main, Framework

\* The host opens a new room in which nobody is yet.
LEMMA HostReopensSafe ==
  ASSUME Main, HostReopens
  PROVE  Main'
<1>1. Typed /\ Socket /\ Peers /\ HonestGuests /\ NoFuture
  BY DEF Main, Framework
<1>2. PICK k \in 0 .. Len(host.pending) :
        host' = [host EXCEPT !.open = TRUE, !.room = @ + 1, !.nextPeer = 1, !.lost = {},
                             !.pending = Rest(@, k), !.stalled = k < Len(host.pending)]
  BY DEF HostReopens
<1>3. ~host.open /\ up' = up /\ guest' = guest
  BY DEF HostReopens
<1>4. up = <<>> /\ \A g \in Guests : guest[g].peer = NoPeer
  BY <1>1, <1>3 DEF Socket, InRoom
<1>5. PICK q \in Seq(DownFrames) : q = host.pending
  BY <1>1, HostType
<1>6. PICK n \in Nat : n = Len(q)
  OBVIOUS
<1>7. PICK r \in Seq(DownFrames) : r = Rest(q, k)
  BY <1>2, <1>5, Halves
<1>8. Len(r) = n - k /\ k \in Nat /\ k <= n
  BY <1>2, <1>5, <1>6, <1>7, Halves
<1>9. /\ host'.open /\ host'.pending = r /\ host'.writers = host.writers
      /\ host'.asks = host.asks /\ host'.asked = host.asked /\ host'.refused = host.refused
      /\ host'.nextPeer = 1 /\ host'.room = host.room + 1 /\ host'.stalled = (k < n)
      /\ host' \in HostStates
  <2>1. host.room + 1 \in Nat /\ (k < n) \in BOOLEAN
    BY <1>1, HostType
  <2> QED
    BY <1>1, <1>2, <1>5, <1>6, <1>7, <2>1, HostType DEF HostStates
<1>10. Peers' /\ HonestGuests' /\ Introduced' /\ InSync'
  <2>1. host'.nextPeer \in Nat /\ host'.nextPeer > 0
    BY <1>9
  <2>2. \A g \in Guests : guest'[g].peer = NoPeer /\ Waiting(guest'[g].buffer, g)
    BY <1>1, <1>3, <1>4 DEF HonestGuests
  <2> QED
    BY <1>3, <1>4, <2>1, <2>2, EmptyRoom
<1>11. Typed'
  BY <1>1, <1>3, <1>9 DEF Typed
<1>12. Socket'
  <2>1. ~(k < n) => r = <<>>
    BY <1>8, EmptySeq
  <2>2. n <= MaxBuffered /\ MaxBuffered \in Nat
    BY <1>1, <1>5, <1>6, CollabAssumption DEF Socket
  <2>3. Len(r) <= MaxBuffered
    BY <1>6, <1>8, <2>2
  <2> QED
    BY <1>9, <2>1, <2>3 DEF Socket
<1>13. NoFuture'
  <2>1. \A by \in Connections : Past(host, by) => Past(host', by)
    <3>1. \A by \in Connections : by[1] \in Nat /\ by[2] \in Nat
      BY DEF Connections
    <3>2. host.room \in Nat /\ host'.room = host.room + 1
      BY <1>1, <1>9, HostType
    <3>3. \A by \in Connections : Past(host, by) => by[1] < host.room + 1
      BY <3>1, <3>2 DEF Past
    <3> QED
      BY <3>2, <3>3 DEF Past
  <2>2. PICK h : h = host'
    OBVIOUS
  <2>3. /\ \A s \in Seq(DownFrames) : PastFrames(host, s) => PastFrames(h, s)
        /\ \A s \in GuestStates : PastGuest(host, s) => PastGuest(h, s)
    BY <1>1, <1>9, <2>1, <2>2, PastGrows, HostType
  <2>4. PastFrames(h, q)
    BY <1>1, <1>5, <2>3 DEF NoFuture
  <2>5. PastFrames(h, r)
    <3>1. \A i \in 1 .. Len(r) : r[i] = q[k + i] /\ k + i \in 1 .. Len(q)
      <4>1. \A i \in 1 .. n - k : r[i] = q[k + i]
        BY <1>2, <1>5, <1>6, <1>7, Halves
      <4> QED
        BY <1>6, <1>8, <4>1
    <3> QED
      BY <2>4, <3>1 DEF PastFrames
  <2>6. ASSUME NEW g \in Guests PROVE PastGuest(h, guest[g])
    BY <1>1, <2>3 DEF NoFuture, Typed
  <2> QED
    BY <1>3, <1>9, <2>2, <2>5, <2>6 DEF NoFuture
<1>14. RefusedWhenCutOff'
  BY <1>9 DEF Main, RefusedWhenCutOff
<1> QED
  BY <1>10, <1>11, <1>12, <1>13, <1>14 DEF Main, Framework

\* What the invariant says of one guest.
Fine(g) == /\ InRoom(g) => Sincere(up, g, guest[g].peer)
           /\ Waiting(guest[g].buffer, g)
           /\ PastGuest(host, guest[g])
           /\ InRoom(g) => \/ Greeted(g)
                           \/ HelloIn(up, guest[g].peer) /\ Heralded(up, guest[g].peer)
           /\ InRoom(g) /\ guest[g].peer \notin host.lost =>
                \E a, b : SyncedBy(g, guest[g], Stream(g), up, host, a, b)

\* The part of the invariant about guests, guest by guest.
LEMMA AllFine ==
  (\A g \in Guests : Fine(g)) /\ PastFrames(host, host.pending)
    <=> HonestGuests /\ NoFuture /\ Introduced /\ InSync
BY DEF Fine, HonestGuests, NoFuture, Introduced, InSync

\* A step of a guest leaves what the queue says of the others, and the host.
Unheard(g) ==
  \A k \in Guests \ {g} : InRoom(k) =>
    /\ Sincere(up, k, guest[k].peer) => Sincere(up', k, guest[k].peer)
    /\ HelloIn(up, guest[k].peer) => HelloIn(up', guest[k].peer)
    /\ Heralded(up, guest[k].peer) => Heralded(up', guest[k].peer)
    /\ \A id : AnswerIn(up, guest[k].peer, id) => AnswerIn(up', guest[k].peer, id)

HostSame ==
  /\ host' \in HostStates /\ host'.open = host.open /\ host'.stalled = host.stalled
  /\ host'.pending = host.pending /\ host'.room = host.room /\ host.nextPeer <= host'.nextPeer
  /\ host'.log = host.log /\ host'.writers = host.writers /\ host'.asks = host.asks
  /\ host'.asked = host.asked /\ host'.lost = host.lost /\ host'.refused = host.refused

\* What was past stays past when the host's numbers stay.
LEMMA HostSamePast ==
  ASSUME Typed, HostSame
  PROVE  /\ \A q \in Seq(DownFrames) : PastFrames(host, q) => PastFrames(host', q)
         /\ \A s \in GuestStates : PastGuest(host, s) => PastGuest(host', s)
<1>1. PICK h : h = host'
  OBVIOUS
<1>2. host.nextPeer \in Nat /\ h.nextPeer \in Nat /\ h.room = host.room /\ host.nextPeer <= h.nextPeer
      /\ host.asked \in Nat /\ h.asked = host.asked
  BY <1>1, HostType DEF HostSame, HostStates
<1>3. \A by \in Connections : Past(host, by) => Past(h, by)
  BY <1>2 DEF Past, Connections
<1>4. h.asked \in Nat /\ host.asked <= h.asked
  BY <1>2
<1> QED
  BY <1>1, <1>2, <1>3, <1>4, PastGrows

\* A step of one guest leaves the others as they were.
LEMMA OthersFine ==
  ASSUME Typed, NEW g \in Guests, NEW n, guest' = [guest EXCEPT ![g] = n], HostSame, Unheard(g),
         NEW k \in Guests, k # g, Fine(k)
  PROVE  Fine(k)'
<1>1. guest'[k] = guest[k] /\ guest[k] \in GuestStates
  BY DEF Typed
<1>2. InRoom(k)' <=> InRoom(k)
  BY <1>1 DEF InRoom
<1>3. InRoom(k) => Sincere(up', k, guest[k].peer)
  BY DEF Fine, Unheard
<1>4. PastGuest(host', guest[k])
  BY <1>1, HostSamePast DEF Fine
<1>5. InRoom(k) => \/ Greeted(k)' 
                   \/ HelloIn(up', guest[k].peer) /\ Heralded(up', guest[k].peer)
  BY <1>1 DEF Fine, Unheard, Greeted, HostSame
<1>6. ASSUME InRoom(k), guest[k].peer \notin host'.lost
      PROVE  \E a, b : SyncedBy(k, guest'[k], Stream(k)', up', host', a, b)
  <2>1. PICK a, b : SyncedBy(k, guest[k], Stream(k), up, host, a, b)
    BY <1>6 DEF Fine, HostSame
  <2>2. Stream(k)' = Stream(k) /\ host'.room = host.room
    BY <1>1 DEF Stream, HostSame
  <2>3. k \in Writers => Attends(guest[k], up', host', a)
    BY <1>6, <2>1 DEF SyncedBy, Attends, Attentive, Unheard, HostSame
  <2>4. Caught(k, guest[k].peer, up', host', b)
    BY <1>6, <2>1 DEF SyncedBy, Caught, Unheard, HostSame
  <2>5. a.asks \subseteq 1 .. host'.asked
    BY <2>1 DEF SyncedBy, HostSame
  <2>6. SyncedBy(k, guest'[k], Stream(k)', up', host', a, b)
    BY <1>1, <2>1, <2>2, <2>3, <2>4, <2>5 DEF SyncedBy
  <2> QED
    BY <2>6
<1> QED
  BY <1>1, <1>2, <1>3, <1>4, <1>5, <1>6 DEF Fine

\* A step of one guest keeps the invariant when that guest is fine after it.
LEMMA GuestMoves ==
  ASSUME Main, NEW g \in Guests, NEW n \in GuestStates, guest' = [guest EXCEPT ![g] = n], HostSame,
         up' \in Seq(UpFrames), Unheard(g), Fine(g)', Peers',
         host.open \/ (up' = up /\ n.peer = NoPeer)
  PROVE  Main'
<1>1. Typed /\ Socket /\ Peers /\ HonestGuests /\ NoFuture /\ Introduced /\ InSync
  BY DEF Main, Framework
<1>2. (\A k \in Guests : Fine(k)) /\ PastFrames(host, host.pending)
  BY <1>1, AllFine
<1>3. \A k \in Guests : Fine(k)'
  BY <1>1, <1>2, OthersFine
<1>4. PastFrames(host', host'.pending)
  BY <1>1, <1>2, HostSamePast, HostType DEF HostSame
<1>5. HonestGuests' /\ NoFuture' /\ Introduced' /\ InSync'
  <2>1. HonestGuests' /\ Introduced' /\ InSync'
    BY <1>3 DEF Fine, HonestGuests, Introduced, InSync
  <2>2. NoFuture'
    BY <1>3, <1>4 DEF Fine, NoFuture
  <2> QED
    BY <2>1, <2>2
<1>6. Typed'
  <2>1. host'.nextPeer > 0
    BY <1>1, HostType DEF HostSame, HostStates
  <2>2. guest' \in [Guests -> GuestStates]
    BY <1>1 DEF Typed
  <2> QED
    BY <1>1, <2>1, <2>2 DEF Typed, HostSame
<1>7. Socket'
  <2>1. ASSUME ~host.open PROVE up' = <<>> /\ \A k \in Guests : ~InRoom(k)'
    BY <1>1, <2>1 DEF Socket, InRoom, Typed
  <2> QED
    BY <1>1, <2>1 DEF Socket, HostSame
<1>8. RefusedWhenCutOff'
  BY DEF Main, RefusedWhenCutOff, HostSame
<1> QED
  BY <1>5, <1>6, <1>7, <1>8 DEF Main, Framework
-----------------------------------------------------------------------------
\* A guest that is on its own: the queue and the host are as they were.
LEMMA AtHome ==
  ASSUME Main, NEW g \in Guests, NEW n \in GuestStates, guest' = [guest EXCEPT ![g] = n],
         UNCHANGED <<host, up>>, n.peer = guest[g].peer, n.buffer = guest[g].buffer, PastGuest(host, n),
         \A a, b \in Marks : SyncedBy(g, guest[g], Stream(g), up, host, a, b) =>
           \E c : SyncedBy(g, n, n.inbox \o ForPeer(host.pending, n.peer), up, host, c, b)
  PROVE  Main'
<1>1. Typed /\ Socket /\ Peers /\ HonestGuests /\ NoFuture /\ Introduced /\ InSync
  BY DEF Main, Framework
<1>2. HostSame
  BY <1>1, HostType DEF HostSame
<1>3. guest'[g] = n /\ \A k \in Guests \ {g} : guest'[k] = guest[k]
  BY <1>1 DEF Typed
<1>4. Peers'
  BY <1>1, <1>3 DEF Peers, InRoom
<1>5. Fine(g)'
  <2>1. InRoom(g)' <=> InRoom(g)
    BY <1>3 DEF InRoom
  <2>2. ASSUME InRoom(g), guest[g].peer \notin host.lost
        PROVE  \E a, b : SyncedBy(g, guest'[g], Stream(g)', up', host', a, b)
    <3>1. PICK a, b : SyncedBy(g, guest[g], Stream(g), up, host, a, b)
      BY <1>1, <2>2 DEF InSync
    <3>2. a \in Marks /\ b \in Marks
      BY <1>1, <3>1, SyncedFacts
    <3>3. PICK c : SyncedBy(g, n, n.inbox \o ForPeer(host.pending, n.peer), up, host, c, b)
      BY <3>1, <3>2
    <3> QED
      BY <1>3, <3>3 DEF Stream
  <2>3. InRoom(g) => Sincere(up, g, guest[g].peer)
    BY <1>1 DEF HonestGuests
  <2>4. Waiting(guest[g].buffer, g)
    BY <1>1 DEF HonestGuests
  <2>5. InRoom(g) => Greeted(g) \/ (HelloIn(up, guest[g].peer) /\ Heralded(up, guest[g].peer))
    BY <1>1 DEF Introduced
  <2> QED
    BY <1>3, <2>1, <2>2, <2>3, <2>4, <2>5 DEF Fine, Greeted
<1>6. Unheard(g) /\ up' \in Seq(UpFrames)
  BY <1>1 DEF Unheard, Typed
<1>7. host.open \/ (up' = up /\ n.peer = NoPeer)
  BY <1>1 DEF Socket, InRoom
<1> QED
  BY <1>2, <1>4, <1>5, <1>6, <1>7, GuestMoves

\* What applying a frame leaves alone, and that nothing of the future comes in.
Sound(s, n, f) ==
  /\ n \in GuestStates /\ n.peer = s.peer /\ n.buffer = s.buffer /\ n.inbox = s.inbox
  /\ n.failed = s.failed
  /\ \A h : PastGuest(h, s) /\ PastFrame(h, f) => PastGuest(h, n)

\* A welcome makes a guest that is well formed and of the past.
LEMMA WelcomeSound ==
  ASSUME NEW s \in GuestStates, NEW f \in DownFrames, f.t = "welcome"
  PROVE  Sound(s, BeginWelcome(s, f), f)
<1>1. f.count \in Nat /\ f.by \in Connections
  BY DEF DownFrames
<1>2. PICK x : x = [entries |-> <<>>, count |-> f.count, by |-> f.by]
  OBVIOUS
<1>3. <<>> \in Seq(Nat)
  OBVIOUS
<1>4. x \in Snapshots /\ x.by = f.by /\ x # None
  <2>1. x \in Snapshots /\ x.by = f.by
    BY <1>1, <1>2, <1>3 DEF Snapshots
  <2> QED
    BY <2>1, NoneAssumption
<1>5. CASE f.count = 0
  <2>1. PICK n : n = [s EXCEPT !.loading = x, !.snapshot = None]
    OBVIOUS
  <2>2. n = BeginWelcome(s, f)
    BY <1>2, <1>5, <2>1 DEF BeginWelcome
  <2>3. /\ n \in GuestStates /\ n.peer = s.peer /\ n.buffer = s.buffer /\ n.inbox = s.inbox /\ n.failed = s.failed
        /\ n.loading = x /\ n.snapshot = None /\ n.source = s.source
    BY <1>4, <2>1 DEF GuestStates
  <2> QED
    BY <1>4, <2>2, <2>3 DEF Sound, PastGuest, PastFrame
<1>6. CASE f.count # 0
  <2>1. PICK n : n = [s EXCEPT !.snapshot = x]
    OBVIOUS
  <2>2. n = BeginWelcome(s, f)
    BY <1>2, <1>6, <2>1 DEF BeginWelcome
  <2>3. /\ n \in GuestStates /\ n.peer = s.peer /\ n.buffer = s.buffer /\ n.inbox = s.inbox /\ n.failed = s.failed
        /\ n.loading = s.loading /\ n.snapshot = x /\ n.source = s.source
    BY <1>4, <2>1 DEF GuestStates
  <2> QED
    BY <1>4, <2>2, <2>3 DEF Sound, PastGuest, PastFrame
<1> QED
  BY <1>5, <1>6

\* A chunk does.
LEMMA ChunkSound ==
  ASSUME NEW s \in GuestStates, NEW f \in DownFrames, f.t = "chunk"
  PROVE  Sound(s, ApplyChunk(s, f), f)
<1>1. CASE s.snapshot = None
  BY <1>1 DEF Sound, ApplyChunk
<1>2. CASE s.snapshot # None
  <2>1. s.snapshot \in Snapshots /\ f.entries \in Seq(Nat)
    BY <1>2 DEF GuestStates, DownFrames
  <2>2. PICK es \in Seq(Nat) : es = s.snapshot.entries \o f.entries
    BY <2>1, ConcatProperties DEF Snapshots
  <2>3. PICK x : x = Accumulated(s.snapshot, f)
    OBVIOUS
  <2>4. x = [s.snapshot EXCEPT !.entries = es]
    BY <2>1, <2>2, <2>3 DEF Accumulated, Snapshots
  <2>5. x \in Snapshots /\ x.by = s.snapshot.by
    BY <2>1, <2>4 DEF Snapshots
  <2>6. x # None
    BY <2>5, NoneAssumption
  <2>7. CASE f.final \/ Len(x.entries) >= x.count
    <3>1. PICK n : n = [s EXCEPT !.loading = x, !.snapshot = None]
      OBVIOUS
    <3>2. n = ApplyChunk(s, f)
      BY <1>2, <2>3, <2>7, <3>1 DEF ApplyChunk
    <3>3. /\ n \in GuestStates /\ n.peer = s.peer /\ n.buffer = s.buffer /\ n.inbox = s.inbox /\ n.failed = s.failed
          /\ n.loading = x /\ n.snapshot = None /\ n.source = s.source
      BY <2>5, <3>1 DEF GuestStates
    <3> QED
      BY <1>2, <2>5, <2>6, <3>2, <3>3 DEF Sound, PastGuest
  <2>8. CASE ~(f.final \/ Len(x.entries) >= x.count)
    <3>1. PICK n : n = [s EXCEPT !.snapshot = x]
      OBVIOUS
    <3>2. n = ApplyChunk(s, f)
      BY <1>2, <2>3, <2>8, <3>1 DEF ApplyChunk
    <3>3. /\ n \in GuestStates /\ n.peer = s.peer /\ n.buffer = s.buffer /\ n.inbox = s.inbox /\ n.failed = s.failed
          /\ n.loading = s.loading /\ n.snapshot = x /\ n.source = s.source
      BY <2>5, <3>1 DEF GuestStates
    <3> QED
      BY <1>2, <2>5, <2>6, <3>2, <3>3 DEF Sound, PastGuest
  <2> QED
    BY <2>7, <2>8
<1> QED
  BY <1>1, <1>2

\* Any other frame does.
LEMMA FrameSound ==
  ASSUME NEW s \in GuestStates, NEW f \in DownFrames, f.t \notin {"welcome", "chunk"}
  PROVE  Sound(s, ApplyFrame(s, f), f)
<1>1. PICK n : n = ApplyFrame(s, f)
  OBVIOUS
<1>2. CASE n = s
  BY <1>1, <1>2 DEF Sound
<1>3. CASE f.t = "entry" /\ s.welcomed
  <2>1. f.n \in Nat
    BY <1>3 DEF DownFrames
  <2>2. PICK r \in Seq(Nat) : r = Append(s.replica, f.n)
    BY <2>1, AppendProperties DEF GuestStates
  <2>3. n = [s EXCEPT !.replica = r]
    BY <1>1, <1>3, <2>2 DEF ApplyFrame
  <2>4. /\ n \in GuestStates /\ n.peer = s.peer /\ n.buffer = s.buffer /\ n.inbox = s.inbox /\ n.failed = s.failed
        /\ n.loading = s.loading /\ n.snapshot = s.snapshot /\ n.source = s.source
    BY <2>3 DEF GuestStates
  <2> QED
    BY <1>1, <2>4 DEF Sound, PastGuest
<1>4. CASE f.t \in {"ask", "end"} /\ s.welcomed
  <2>1. f.id \in Nat
    BY <1>4 DEF DownFrames
  <2>2. PICK d \in SUBSET Nat : n = [s EXCEPT !.dialogs = d]
    <3>1. s.dialogs \cup {f.id} \in SUBSET Nat /\ s.dialogs \ {f.id} \in SUBSET Nat
      BY <2>1 DEF GuestStates
    <3>2. CASE f.t = "ask"
      BY <1>1, <1>4, <3>1, <3>2 DEF ApplyFrame
    <3>3. CASE f.t = "end"
      BY <1>1, <1>4, <3>1, <3>3 DEF ApplyFrame
    <3> QED
      BY <1>4, <3>2, <3>3
  <2>3. /\ n \in GuestStates /\ n.peer = s.peer /\ n.buffer = s.buffer /\ n.inbox = s.inbox /\ n.failed = s.failed
        /\ n.loading = s.loading /\ n.snapshot = s.snapshot /\ n.source = s.source
    BY <2>2 DEF GuestStates
  <2> QED
    BY <1>1, <2>3 DEF Sound, PastGuest
<1>5. ~s.welcomed => n = s
  BY <1>1 DEF ApplyFrame, GuestStates
<1>6. s.welcomed /\ f.t = "error" => n = s
  BY <1>1 DEF ApplyFrame
<1>7. f.t \in {"entry", "ask", "end", "error"}
  BY DEF DownFrames
<1> QED
  BY <1>1, <1>2, <1>3, <1>4, <1>5, <1>6, <1>7

\* A frame applied by a guest that has nothing to load.
LEMMA AppliedSteps ==
  ASSUME NEW s \in GuestStates, NEW f \in DownFrames, s.loading = None
  PROVE  /\ Sound(s, Applied(s, f), f)
         /\ \A e \in Marks, conn \in Connections :
              Matches(s, e, conn) /\ Fits(e, f, conn) => Steps(s, Applied(s, f), e, f, conn)
<1>1. CASE f.t = "welcome"
  <2>1. Applied(s, f) = BeginWelcome(s, f)
    BY <1>1 DEF Applied
  <2> QED
    BY <1>1, <2>1, WelcomeSound, WelcomeSteps
<1>2. CASE f.t = "chunk"
  <2>1. Applied(s, f) = ApplyChunk(s, f)
    BY <1>2 DEF Applied
  <2> QED
    BY <1>2, <2>1, ChunkSound, ChunkSteps
<1>3. CASE f.t \notin {"welcome", "chunk"}
  <2>1. Applied(s, f) = ApplyFrame(s, f)
    BY <1>3 DEF Applied
  <2> QED
    BY <1>3, <2>1, FrameSound, FrameSteps
<1> QED
  BY <1>1, <1>2, <1>3

\* The head of two queues, the first of which is not empty.
LEMMA HeadOfBoth ==
  ASSUME NEW T, NEW q \in Seq(T), NEW r \in Seq(T), q # <<>>
  PROVE  /\ Head(q) \in T /\ Tail(q) \in Seq(T)
         /\ q \o r \in Seq(T) /\ q \o r # <<>>
         /\ Head(q \o r) = Head(q) /\ Tail(q \o r) = Tail(q) \o r
<1>1. Head(q) \in T /\ Tail(q) \in Seq(T) /\ Head(q) = q[1] /\ Len(Tail(q)) = Len(q) - 1
      /\ \A i \in 1 .. Len(q) - 1 : Tail(q)[i] = q[i + 1]
  BY HeadTailProperties
<1>2. PICK n \in Nat : n = Len(q) - 1 /\ Len(q) = n + 1
  BY EmptySeq, LenProperties
<1>3. PICK m \in Nat : m = Len(r)
  OBVIOUS
<1>4. PICK t \in Seq(T) : t = Tail(q)
  BY <1>1
<1>5. PICK s \in Seq(T) : s = q \o r
  BY ConcatProperties
<1>6. Len(s) = n + 1 + m /\ \A i \in 1 .. n + 1 + m : s[i] = IF i <= n + 1 THEN q[i] ELSE r[i - (n + 1)]
  BY <1>2, <1>3, <1>5, ConcatProperties
<1>7. s # <<>> /\ Len(s) = n + m + 1
  BY <1>6, EmptySeq
<1>8. Head(s) = q[1]
  <2>1. 1 \in 1 .. n + 1 + m /\ 1 <= n + 1
    OBVIOUS
  <2>2. Head(s) = s[1]
    BY <1>7, HeadTailProperties
  <2> QED
    BY <1>6, <2>1, <2>2
<1>9. PICK u \in Seq(T) : u = Tail(s) /\ Len(u) = n + m /\ \A i \in 1 .. n + m : u[i] = s[i + 1]
  <2>1. Tail(s) \in Seq(T) /\ Len(Tail(s)) = Len(s) - 1 /\ \A i \in 1 .. Len(s) - 1 : Tail(s)[i] = s[i + 1]
    BY <1>7, HeadTailProperties
  <2>2. Len(s) - 1 = n + m
    BY <1>7
  <2> QED
    BY <2>1, <2>2
<1>10. PICK v \in Seq(T) : v = t \o r /\ Len(v) = n + m
                           /\ \A i \in 1 .. n + m : v[i] = IF i <= n THEN t[i] ELSE r[i - n]
  <2>1. Len(t) = n
    BY <1>1, <1>2, <1>4
  <2>2. PICK v \in Seq(T) : v = t \o r
    BY ConcatProperties
  <2>3. /\ Len(v) = Len(t) + Len(r)
        /\ \A i \in 1 .. Len(t) + Len(r) : v[i] = IF i <= Len(t) THEN t[i] ELSE r[i - Len(t)]
    BY <2>2, ConcatProperties
  <2> QED
    BY <1>3, <2>1, <2>2, <2>3
<1>11. ASSUME NEW i \in 1 .. n + m PROVE u[i] = v[i]
  <2>1. u[i] = s[i + 1] /\ i + 1 \in 1 .. n + 1 + m
    BY <1>9
  <2>2. CASE i <= n
    <3>1. i + 1 <= n + 1 /\ i \in 1 .. n
      BY <2>2
    <3>2. s[i + 1] = q[i + 1] /\ v[i] = t[i]
      BY <1>6, <1>10, <2>1, <2>2, <3>1
    <3>3. t[i] = q[i + 1]
      BY <1>1, <1>2, <1>4, <3>1
    <3> QED
      BY <2>1, <3>2, <3>3
  <2>3. CASE ~(i <= n)
    <3>1. ~(i + 1 <= n + 1) /\ i + 1 - (n + 1) = i - n
      BY <2>3
    <3>2. v[i] = r[i - n]
      BY <1>10, <2>3
    <3>3. s[i + 1] = r[i + 1 - (n + 1)]
      <4>1. PICK k \in 1 .. n + 1 + m : k = i + 1
        BY <2>1
      <4>2. s[k] = IF k <= n + 1 THEN q[k] ELSE r[k - (n + 1)]
        BY <1>6
      <4> QED
        BY <3>1, <4>1, <4>2
    <3> QED
      BY <2>1, <3>1, <3>2, <3>3
  <2> QED
    BY <2>2, <2>3
<1>12. u = v
  BY <1>9, <1>10, <1>11, SeqEqual
<1> QED
  BY <1>1, <1>4, <1>5, <1>7, <1>8, <1>9, <1>10, <1>12

\* The guest takes the head of its inbox.
LEMMA ApplySafe ==
  ASSUME Main, NEW g \in Guests, Apply(g)
  PROVE  Main'
<1>1. Framework /\ Typed /\ NoFuture
  BY DEF Main, Framework
<1>2. guest[g] \in GuestStates /\ guest[g].inbox \in Seq(DownFrames) /\ guest[g].inbox # <<>>
      /\ guest[g].loading = None
  BY <1>1, StreamType DEF Apply
<1>3. PICK q \in Seq(DownFrames) : q = Tail(guest[g].inbox)
  BY <1>2, HeadTailProperties
<1>4. PICK f \in DownFrames : f = Head(guest[g].inbox)
  BY <1>2, HeadTailProperties
<1>5. PICK s : s = [guest[g] EXCEPT !.inbox = q]
  OBVIOUS
<1>6. /\ s \in GuestStates /\ s.loading = None /\ s.inbox = q /\ s.peer = guest[g].peer
      /\ s.buffer = guest[g].buffer /\ s.snapshot = guest[g].snapshot /\ s.source = guest[g].source
      /\ s.welcomed = guest[g].welcomed /\ s.replica = guest[g].replica /\ s.dialogs = guest[g].dialogs
      /\ s.failed = guest[g].failed
  BY <1>2, <1>5 DEF GuestStates
<1>7. PICK n : n = Applied(s, f)
  OBVIOUS
<1>8. guest' = [guest EXCEPT ![g] = n] /\ host' = host /\ up' = up
  <2>1. PICK s0 : s0 = guest[g]
    OBVIOUS
  <2>2. guest' = [guest EXCEPT ![g] = Applied([s0 EXCEPT !.inbox = Tail(s0.inbox)], Head(s0.inbox))]
    BY <2>1 DEF Apply
  <2>3. n = Applied([s0 EXCEPT !.inbox = Tail(s0.inbox)], Head(s0.inbox))
    BY <1>3, <1>4, <1>5, <1>7, <2>1
  <2> QED
    BY <2>2, <2>3 DEF Apply
<1>9. Sound(s, n, f)
  BY <1>6, <1>7, AppliedSteps
<1>10. n \in GuestStates /\ n.peer = guest[g].peer /\ n.buffer = guest[g].buffer /\ n.inbox = q
      /\ n.failed = guest[g].failed
  BY <1>6, <1>9 DEF Sound
<1>11. PastGuest(host, guest[g])
  BY <1>1 DEF NoFuture
<1>12. PastFrame(host, f)
  <2>1. f = guest[g].inbox[1] /\ 1 \in 1 .. Len(guest[g].inbox)
    BY <1>2, <1>4, HeadTailProperties, EmptySeq, LenProperties
  <2> QED
    BY <1>11, <2>1 DEF PastGuest, PastFrames
<1>13. PastGuest(host, n)
  <2>1. PastFrames(host, q)
    <3>1. Len(q) = Len(guest[g].inbox) - 1 /\ \A i \in 1 .. Len(q) : q[i] = guest[g].inbox[i + 1]
      BY <1>2, <1>3, HeadTailProperties
    <3>2. \A i \in 1 .. Len(q) : i + 1 \in 1 .. Len(guest[g].inbox)
      BY <1>2, <3>1, LenProperties
    <3> QED
      BY <1>11, <3>1, <3>2 DEF PastGuest, PastFrames
  <2>2. PastGuest(host, s)
    BY <1>6, <1>11, <2>1 DEF PastGuest
  <2> QED
    BY <1>9, <1>12, <2>2 DEF Sound
<1>14. ASSUME NEW a \in Marks, NEW b \in Marks, SyncedBy(g, guest[g], Stream(g), up, host, a, b)
       PROVE  \E c : SyncedBy(g, n, n.inbox \o ForPeer(host.pending, n.peer), up, host, c, b)
  <2>1. PICK conn \in Connections : conn = Connection(g)
    BY <1>1, StreamType, HostType DEF Connection, Connections
  <2>2. PICK r \in Seq(DownFrames) : r = ForPeer(host.pending, guest[g].peer)
    BY <1>1, StreamType
  <2>3. Head(Stream(g)) = f /\ Tail(Stream(g)) = q \o r /\ Stream(g) # <<>> /\ Stream(g) \in Seq(DownFrames)
    BY <1>2, <1>3, <1>4, <2>2, HeadOfBoth, ZenonT(60) DEF Stream
  <2>4. Leads(Stream(g), a, b, conn) /\ Agrees(guest[g], a, conn) /\ Caught(g, guest[g].peer, up, host, b)
        /\ (g \in Writers => Attends(guest[g], up, host, a))
    BY <1>1, <1>14, <2>1, SyncedFacts
  <2>5. PICK c : c = After(a, f, conn)
    OBVIOUS
  <2>6. Fits(a, f, conn) /\ Leads(q \o r, c, b, conn)
    BY <2>3, <2>4, <2>5, LeadsTail
  <2>7. ~s.failed => Matches(s, a, conn)
    BY <1>2, <1>6, <2>4 DEF Agrees, Matches
  <2>8. ~s.failed => Steps(s, n, a, f, conn)
    BY <1>6, <1>7, <2>6, <2>7, AppliedSteps
  <2>9. Agrees(n, c, conn)
    BY <1>6, <1>10, <2>5, <2>8 DEF Steps, Agrees
  <2>10. g \in Writers => Attends(n, up, host, c)
    <3>1. g \in Writers /\ ~s.failed => Attentive(s, up, host, a)
      BY <1>2, <1>6, <2>4 DEF Attends, Attentive
    <3> QED
      BY <1>6, <1>10, <2>5, <2>8, <3>1 DEF Steps, Attends
  <2>11. c.asks \subseteq 1 .. host.asked
    <3>1. a.asks \subseteq 1 .. host.asked
      BY <1>14 DEF SyncedBy
    <3> QED
      BY <1>12, <2>5, <3>1 DEF After, PastFrame, Marks
  <2>12. SyncedBy(g, n, q \o r, up, host, c, b)
    BY <1>10, <2>1, <2>4, <2>6, <2>9, <2>10, <2>11 DEF SyncedBy, Connection
  <2> QED
    BY <1>10, <2>2, <2>12
<1> QED
  BY <1>8, <1>10, <1>13, <1>14, AtHome

\* The snapshot's load ends, and what came meanwhile is applied after it.
LEMMA LoadedSafe ==
  ASSUME Main, NEW g \in Guests, Loaded(g)
  PROVE  Main'
<1>1. Framework /\ Typed /\ NoFuture
  BY DEF Main, Framework
<1>2. PICK s \in GuestStates : s = guest[g]
  BY <1>1, StreamType
<1>3. PICK x \in Snapshots : x = s.loading /\ x # None
  BY <1>2 DEF Loaded, GuestStates
<1>4. PICK n : n = [s EXCEPT !.replica = x.entries, !.source = x.by, !.loading = None,
                             !.dialogs = {}, !.welcomed = TRUE, !.link = "joined"]
  OBVIOUS
<1>5. guest' = [guest EXCEPT ![g] = n] /\ host' = host /\ up' = up
  <2>1. guest' = [guest EXCEPT ![g].replica = x.entries, ![g].source = x.by, ![g].loading = None,
                               ![g].dialogs = {}, ![g].welcomed = TRUE, ![g].link = "joined"]
    BY <1>2, <1>3 DEF Loaded
  <2> QED
    BY <1>1, <1>2, <1>4, <2>1, ZenonT(60) DEF Typed, Loaded
<1>6. x.entries \in Seq(Nat) /\ x.by \in Connections
  BY DEF Snapshots
<1>7. /\ n \in GuestStates /\ n.peer = s.peer /\ n.buffer = s.buffer /\ n.inbox = s.inbox
      /\ n.snapshot = s.snapshot /\ n.source = x.by /\ n.loading = None /\ n.replica = x.entries
      /\ n.dialogs = {} /\ n.welcomed /\ n.failed = s.failed
  BY <1>2, <1>4, <1>6 DEF GuestStates
<1>8. PastGuest(host, n)
  <2>1. PastGuest(host, s)
    BY <1>1, <1>2 DEF NoFuture
  <2> QED
    BY <1>3, <1>7, <2>1 DEF PastGuest
<1>9. ASSUME NEW a \in Marks, NEW b \in Marks, SyncedBy(g, guest[g], Stream(g), up, host, a, b)
      PROVE  \E c : SyncedBy(g, n, n.inbox \o ForPeer(host.pending, n.peer), up, host, c, b)
  <2>1. PICK conn : conn = <<host.room, s.peer>>
    OBVIOUS
  <2>2. Agrees(s, a, conn)
    BY <1>2, <1>9, <2>1 DEF SyncedBy
  <2>3. CASE s.failed
    <3>1. Agrees(n, a, conn) /\ Attends(n, up, host, a)
      BY <1>7, <2>3 DEF Agrees, Attends
    <3>2. SyncedBy(g, n, Stream(g), up, host, a, b)
      BY <1>2, <1>7, <1>9, <2>1, <3>1 DEF SyncedBy
    <3> QED
      BY <1>2, <1>7, <3>2 DEF Stream
  <2>4. CASE ~s.failed /\ ~a.known
    <3>1. Matches(n, a, conn)
      BY <1>3, <1>7, <2>2, <2>4 DEF Agrees, Matches
    <3>2. Attentive(n, up, host, a)
      BY <2>4 DEF Attentive
    <3>3. SyncedBy(g, n, Stream(g), up, host, a, b)
      BY <1>2, <1>7, <1>9, <2>1, <3>1, <3>2 DEF SyncedBy, Agrees, Attends
    <3> QED
      BY <1>2, <1>7, <3>3 DEF Stream
  <2>5. CASE ~s.failed /\ a.known
    <3>0. Matches(s, a, conn)
      BY <2>2, <2>5 DEF Agrees
    <3>1. /\ ~Collecting(a) /\ s.snapshot = None /\ a.asks = {}
          /\ x = [entries |-> Upto(a.log), count |-> a.log, by |-> conn]
      BY <1>3, <2>5, <3>0 DEF Matches
    <3>2. Matches(n, a, conn)
      BY <1>7, <2>5, <3>1 DEF Matches
    <3>3. Attentive(n, up, host, a)
      BY <3>1 DEF Attentive
    <3>4. SyncedBy(g, n, Stream(g), up, host, a, b)
      BY <1>2, <1>7, <1>9, <2>1, <3>2, <3>3 DEF SyncedBy, Agrees, Attends
    <3> QED
      BY <1>2, <1>7, <3>4 DEF Stream
  <2> QED
    BY <2>3, <2>4, <2>5
<1> QED
  BY <1>2, <1>5, <1>7, <1>8, <1>9, AtHome

\* A guest that is not in the room has nothing to be in step with.
LEMMA OutFine ==
  ASSUME Typed, NEW g \in Guests, NEW n, guest' = [guest EXCEPT ![g] = n], n.peer = NoPeer,
         Waiting(n.buffer, g), PastGuest(host', n)
  PROVE  Fine(g)'
<1>1. guest'[g] = n /\ ~InRoom(g)'
  BY DEF Typed, InRoom
<1> QED
  BY <1>1 DEF Fine

\* A guest outside the room stays there.
LEMMA StaysOut ==
  ASSUME Main, NEW g \in Guests, NEW n \in GuestStates, guest' = [guest EXCEPT ![g] = n],
         UNCHANGED <<host, up>>, ~InRoom(g), n.peer = NoPeer, Waiting(n.buffer, g), PastGuest(host, n)
  PROVE  Main'
<1>1. Typed /\ Peers
  BY DEF Main, Framework
<1>2. HostSame
  BY <1>1, HostType DEF HostSame
<1>3. \A k \in Guests : guest'[k].peer = guest[k].peer
  BY <1>1 DEF Typed, InRoom
<1>4. Peers'
  BY <1>1, <1>3 DEF Peers, InRoom
<1>5. Fine(g)'
  BY <1>1, OutFine
<1>6. Unheard(g) /\ up' \in Seq(UpFrames)
  BY <1>1 DEF Unheard, Typed
<1> QED
  BY <1>2, <1>4, <1>5, <1>6, GuestMoves

\* A guest that finds no room is out.
LEMMA NoSuchRoomSafe ==
  ASSUME Main, NEW g \in Guests, NoSuchRoom(g)
  PROVE  Main'
BY AbsentFacts, StaysOut DEF NoSuchRoom

\* What a guest sends carries the number of its connection.
LEMMA FromFacts ==
  ASSUME NEW p \in Nat, NEW q \in Seq(UpFrames)
  PROVE  /\ From(p, q) \in Seq(UpFrames) /\ Len(From(p, q)) = Len(q)
         /\ \A i \in 1 .. Len(q) :
              /\ From(p, q)[i].from = p /\ From(p, q)[i].t = q[i].t
              /\ q[i].t = "hello" => From(p, q)[i].write = q[i].write
              /\ q[i].t = "prompt" => From(p, q)[i].late = q[i].late
              /\ q[i].t = "answer" => From(p, q)[i].id = q[i].id
<1>1. PICK n \in Nat : n = Len(q)
  OBVIOUS
<1>2. PICK r : r = From(p, q)
  OBVIOUS
<1>3. r = [i \in 1 .. n |-> [q[i] EXCEPT !.from = p]]
  BY <1>1, <1>2 DEF From
<1>4. ASSUME NEW i \in 1 .. n
      PROVE  /\ r[i] \in UpFrames /\ r[i].from = p /\ r[i].t = q[i].t
             /\ q[i].t = "hello" => r[i].write = q[i].write
             /\ q[i].t = "prompt" => r[i].late = q[i].late
             /\ q[i].t = "answer" => r[i].id = q[i].id
  <2>1. PICK m \in UpFrames : m = q[i]
    BY <1>1, ElementOfSeq
  <2>2. r[i] = [m EXCEPT !.from = p]
    BY <1>3, <2>1
  <2>3. CASE m \in [from : Nat, t : {"hello"}, write : BOOLEAN]
    BY <2>1, <2>2, <2>3 DEF UpFrames
  <2>4. CASE m \in [from : Nat, t : {"prompt"}, late : BOOLEAN]
    BY <2>1, <2>2, <2>4 DEF UpFrames
  <2>5. CASE m \in [from : Nat, t : {"answer"}, id : Nat]
    BY <2>1, <2>2, <2>5 DEF UpFrames
  <2>6. CASE m \in [from : Nat, t : {"left"}]
    BY <2>1, <2>2, <2>6 DEF UpFrames
  <2> QED
    BY <2>3, <2>4, <2>5, <2>6 DEF UpFrames
<1>5. r \in Seq(UpFrames) /\ Len(r) = n
  <2>1. r \in [1 .. n -> UpFrames]
    BY <1>3, <1>4
  <2> QED
    BY <2>1, LenProperties
<1> QED
  BY <1>1, <1>2, <1>4, <1>5

\* A guest sends honest frames over a connection of its own: the one it has, or a new one.
Speaking(g, n, p, q) ==
  /\ n \in GuestStates /\ guest' = [guest EXCEPT ![g] = n] /\ n.peer = p
  /\ p \in Nat /\ p # NoPeer /\ p < host'.nextPeer
  /\ p = guest[g].peer \/ p = host.nextPeer
  /\ HostSame /\ host.open
  /\ q \in Seq(UpFrames) /\ up' = up \o From(p, q)
  /\ \A i \in 1 .. Len(q) : Honest(g, q[i])
  /\ Waiting(n.buffer, g) /\ PastGuest(host', n)

\* What a guest adds to the queue to the host leaves what is already there.
LEMMA Heard ==
  ASSUME Main, NEW g \in Guests, NEW n, NEW p, NEW q, Speaking(g, n, p, q)
  PROVE  /\ up' \in Seq(UpFrames) /\ Peers' /\ Unheard(g) /\ Sincere(up', g, p)
         /\ HelloIn(up, p) => HelloIn(up', p)
         /\ \A id : AnswerIn(up, p, id) => AnswerIn(up', p, id)
         /\ Heralded(up, p) /\ HelloIn(up, p) => Heralded(up', p)
<1>1. Typed /\ Peers /\ HonestGuests
  BY DEF Main, Framework
<1>2. /\ guest'[g] = n /\ n.peer = p /\ (\A k \in Guests \ {g} : guest'[k] = guest[k])
      /\ p \in Nat /\ p # NoPeer /\ p < host'.nextPeer /\ host.nextPeer <= host'.nextPeer
      /\ p = guest[g].peer \/ p = host.nextPeer
      /\ host.nextPeer \in Nat /\ host'.nextPeer \in Nat
      /\ q \in Seq(UpFrames)
  BY <1>1, HostType DEF Speaking, HostSame, HostStates, Typed
<1>3. PICK r \in Seq(UpFrames) : /\ r = From(p, q) /\ Len(r) = Len(q)
                                 /\ \A i \in 1 .. Len(q) :
                                      /\ r[i].from = p /\ r[i].t = q[i].t
                                      /\ q[i].t = "hello" => r[i].write = q[i].write
  BY <1>2, FromFacts
<1>4. PICK u \in Seq(UpFrames) : u = up
  BY <1>1 DEF Typed
<1>5. PICK m \in Nat : m = Len(u)
  OBVIOUS
<1>6. PICK w \in Seq(UpFrames) :
        /\ w = u \o r
        /\ \A i \in 1 .. Len(w) : \/ \E j \in 1 .. Len(u) : w[i] = u[j]
                                  \/ \E j \in 1 .. Len(r) : w[i] = r[j]
  <2>1. PICK w \in Seq(UpFrames) : w = u \o r
    BY ConcatProperties
  <2>2. /\ Len(w) = Len(u) + Len(r)
        /\ \A i \in 1 .. Len(u) + Len(r) : w[i] = IF i <= Len(u) THEN u[i] ELSE r[i - Len(u)]
    BY <2>1, ConcatProperties
  <2>3. PICK l \in Nat : l = Len(r)
    OBVIOUS
  <2>4. ASSUME NEW i \in 1 .. m + l
        PROVE  (\E j \in 1 .. m : w[i] = u[j]) \/ (\E j \in 1 .. l : w[i] = r[j])
    <3>1. CASE i <= m
      <4>1. i \in 1 .. m /\ w[i] = u[i]
        BY <1>5, <2>2, <2>3, <3>1
      <4> QED
        BY <4>1
    <3>2. CASE ~(i <= m)
      <4>1. i - m \in 1 .. l /\ w[i] = r[i - m]
        BY <1>5, <2>2, <2>3, <3>2
      <4> QED
        BY <4>1
    <3> QED
      BY <3>1, <3>2
  <2>5. Len(w) = m + l
    BY <1>5, <2>2, <2>3
  <2>6. \A i \in 1 .. Len(w) : (\E j \in 1 .. Len(u) : w[i] = u[j]) \/ (\E j \in 1 .. Len(r) : w[i] = r[j])
    BY <1>5, <2>3, <2>4, <2>5
  <2> QED
    BY <2>1, <2>6
<1>7. w = up'
  BY <1>3, <1>4, <1>6 DEF Speaking
<1>8. \A i \in 1 .. Len(r) : r[i].from = p /\ r[i].t # "left" /\ Honest(g, r[i])
  <2>1. ASSUME NEW i \in 1 .. Len(r) PROVE r[i].from = p /\ r[i].t # "left" /\ Honest(g, r[i])
    <3>1. i \in 1 .. Len(q)
      BY <1>3
    <3>2. Honest(g, q[i])
      BY <3>1 DEF Speaking
    <3>3. r[i].from = p /\ r[i].t = q[i].t /\ (q[i].t = "hello" => r[i].write = q[i].write)
      BY <1>3, <3>1
    <3> QED
      BY <3>2, <3>3 DEF Honest
  <2> QED
    BY <2>1
<1>9. \A k \in Guests \ {g} : InRoom(k) => guest[k].peer # p
  BY <1>1, <1>2 DEF Peers, InRoom
<1>10. Peers'
  <2>1. \A k \in Guests : guest'[k].peer < host'.nextPeer
    <3>1. ASSUME NEW k \in Guests PROVE guest'[k].peer < host'.nextPeer
      <4>1. guest[k].peer \in Nat /\ guest[k].peer < host.nextPeer
        BY <1>1, StreamType DEF Peers
      <4>2. CASE k = g
        BY <1>2, <4>2
      <4>3. CASE k # g
        <5>1. guest'[k] = guest[k]
          BY <1>2, <4>3
        <5>2. PICK x \in Nat : x = guest[k].peer
          BY <4>1
        <5>3. x < host.nextPeer
          BY <4>1, <5>2
        <5>4. x < host'.nextPeer
          BY <1>2, <5>3
        <5> QED
          BY <5>1, <5>2, <5>4
      <4> QED
        BY <4>2, <4>3
    <3> QED
      BY <3>1
  <2>2. ASSUME NEW k \in Guests, NEW j \in Guests, InRoom(k)', guest'[k].peer = guest'[j].peer PROVE k = j
    BY <1>1, <1>2, <1>9, <2>2 DEF Peers, InRoom
  <2>3. ASSUME NEW i \in 1 .. Len(w)
        PROVE  /\ w[i].from \in 1 .. host'.nextPeer - 1
               /\ w[i].t = "left" => \A k \in Guests : guest'[k].peer # w[i].from
    <3>1. CASE \E j \in 1 .. Len(u) : w[i] = u[j]
      <4>1. PICK j \in 1 .. Len(u) : w[i] = u[j]
        BY <3>1
      <4>2. /\ w[i].from \in 1 .. host.nextPeer - 1
            /\ w[i].t = "left" => \A k \in Guests : guest[k].peer # w[i].from
        BY <1>1, <1>4, <4>1 DEF Peers
      <4>3. w[i].from \in 1 .. host'.nextPeer - 1 /\ w[i].from # host.nextPeer
        <5>1. PICK a \in Nat, b \in Nat : a = host.nextPeer /\ b = host'.nextPeer /\ a <= b
          BY <1>2
        <5>2. PICK x \in 1 .. a - 1 : x = w[i].from
          BY <4>2, <5>1
        <5>3. x \in 1 .. b - 1 /\ x # a
          BY <5>1
        <5> QED
          BY <5>1, <5>2, <5>3
      <4>4. ASSUME w[i].t = "left", NEW k \in Guests PROVE guest'[k].peer # w[i].from
        BY <1>2, <4>2, <4>3, <4>4
      <4> QED
        BY <4>3, <4>4
    <3>2. CASE \E j \in 1 .. Len(r) : w[i] = r[j]
      BY <1>2, <1>8, <3>2 DEF NoPeer
    <3> QED
      BY <1>6, <3>1, <3>2
  <2> QED
    BY <1>7, <2>1, <2>2, <2>3 DEF Peers
<1>11. Unheard(g)
  <2>1. ASSUME NEW k \in Guests \ {g}, InRoom(k)
        PROVE  /\ Sincere(u, k, guest[k].peer) => Sincere(w, k, guest[k].peer)
               /\ HelloIn(u, guest[k].peer) => HelloIn(w, guest[k].peer)
               /\ Heralded(u, guest[k].peer) => Heralded(w, guest[k].peer)
               /\ \A id : AnswerIn(u, guest[k].peer, id) => AnswerIn(w, guest[k].peer, id)
    <3>1. guest[k].peer # p
      BY <1>9, <2>1
    <3>2. Sincere(r, k, guest[k].peer) /\ Heralded(r, guest[k].peer)
      BY <1>8, <3>1 DEF Sincere, Heralded
    <3> QED
      BY <1>6, <3>2, AddsKeeps
  <2> QED
    BY <1>4, <1>7, <2>1 DEF Unheard
<1>12. Sincere(w, g, p)
  <2>1. Sincere(u, g, p)
    <3>1. CASE p = guest[g].peer
      BY <1>1, <1>2, <1>4, <3>1 DEF HonestGuests, InRoom
    <3>2. CASE p = host.nextPeer
      BY <1>1, <1>2, <1>4, <3>2 DEF Peers, Sincere
    <3> QED
      BY <1>2, <3>1, <3>2
  <2>2. Sincere(r, g, p)
    BY <1>8 DEF Sincere
  <2> QED
    BY <1>6, <2>1, <2>2, AddsKeeps
<1>13. /\ HelloIn(u, p) => HelloIn(w, p)
       /\ \A id : AnswerIn(u, p, id) => AnswerIn(w, p, id)
       /\ Heralded(u, p) /\ HelloIn(u, p) => Heralded(w, p)
  BY <1>6, AddsKeeps
<1> QED
  BY <1>4, <1>7, <1>10, <1>11, <1>12, <1>13

\* A guest step that sends keeps the invariant when the guest has been greeted, or its hello
\* stands first.
LEMMA Speaks ==
  ASSUME Main, NEW g \in Guests, NEW n, NEW p, NEW q, Speaking(g, n, p, q),
         Greeted(g)' \/ (HelloIn(up', p) /\ Heralded(up', p)),
         p \notin host'.lost => \E a, b : SyncedBy(g, n, n.inbox \o ForPeer(host.pending, p), up', host', a, b)
  PROVE  Main'
<1>1. Typed
  BY DEF Main, Framework
<1>2. /\ n \in GuestStates /\ guest' = [guest EXCEPT ![g] = n] /\ n.peer = p /\ p # NoPeer
      /\ HostSame /\ host.open /\ Waiting(n.buffer, g) /\ PastGuest(host', n)
  BY DEF Speaking
<1>3. up' \in Seq(UpFrames) /\ Peers' /\ Unheard(g) /\ Sincere(up', g, p)
  BY Heard
<1>4. guest'[g] = n
  BY <1>1, <1>2 DEF Typed
<1>5. Stream(g)' = n.inbox \o ForPeer(host.pending, p)
  BY <1>2, <1>4 DEF Stream, HostSame
<1>6. Fine(g)'
  BY <1>2, <1>3, <1>4, <1>5 DEF Fine
<1> QED
  BY <1>2, <1>3, <1>6, GuestMoves

\* A frame that has waited for a connection.
LEMMA LateFacts ==
  ASSUME NEW m \in UpFrames
  PROVE  /\ Late(m) \in UpFrames /\ Late(m).t = m.t
         /\ m.t = "hello" => Late(m).write = m.write
         /\ m.t = "prompt" => Late(m).late
<1>1. CASE m \in [from : Nat, t : {"hello"}, write : BOOLEAN]
  BY <1>1 DEF UpFrames, Late
<1>2. CASE m \in [from : Nat, t : {"prompt"}, late : BOOLEAN]
  BY <1>2 DEF UpFrames, Late
<1>3. CASE m \in [from : Nat, t : {"answer"}, id : Nat]
  BY <1>3 DEF UpFrames, Late
<1>4. CASE m \in [from : Nat, t : {"left"}]
  BY <1>4 DEF UpFrames, Late
<1> QED
  BY <1>1, <1>2, <1>3, <1>4 DEF UpFrames

\* Adding one more to what waits.
LEMMA WaitingAppend ==
  ASSUME NEW q \in Seq(UpFrames), NEW g, NEW m \in UpFrames, Waiting(q, g), Honest(g, m), m.t = "prompt" => m.late
  PROVE  Append(q, m) \in Seq(UpFrames) /\ Waiting(Append(q, m), g)
<1>1. PICK w \in Seq(UpFrames) : w = Append(q, m)
  BY AppendProperties
<1>2. PICK n \in Nat : n = Len(q)
  OBVIOUS
<1>3. Len(w) = n + 1 /\ (\A i \in 1 .. n : w[i] = q[i]) /\ w[n + 1] = m
  BY <1>1, <1>2, AppendProperties
<1>4. ASSUME NEW i \in 1 .. n + 1 PROVE Honest(g, w[i]) /\ (w[i].t = "prompt" => w[i].late)
  <2>1. CASE i <= n
    BY <1>2, <1>3, <2>1 DEF Waiting
  <2>2. CASE i = n + 1
    BY <1>3, <2>2
  <2> QED
    BY <2>1, <2>2
<1> QED
  BY <1>1, <1>3, <1>4 DEF Waiting

\* A guest prompts or answers, to the host or to its buffer.
Utters(g, d, m) ==
  /\ m \in UpFrames /\ Honest(g, m) /\ d \subseteq guest[g].dialogs
  /\ \A id \in guest[g].dialogs \ d : m.t = "answer" /\ m.id = id
  /\ GuestSends([guest[g] EXCEPT !.dialogs = d], g, m) /\ UNCHANGED host

\* A message in a joined guest's connection, or in its buffer when the connection is broken.
LEMMA UttersSafe ==
  ASSUME Main, NEW g \in Guests, NEW d, NEW m, Utters(g, d, m)
  PROVE  Main'
<1>1. Typed /\ Socket /\ Peers /\ HonestGuests /\ NoFuture /\ Introduced /\ InSync
  BY DEF Main, Framework
<1>2. PICK s \in GuestStates : s = guest[g]
  BY <1>1, StreamType
<1>3. PICK n : n = [s EXCEPT !.dialogs = d]
  OBVIOUS
<1>4. m \in UpFrames /\ Honest(g, m) /\ d \in SUBSET Nat /\ host' = host
  BY <1>2 DEF Utters, GuestStates
<1>5. /\ n \in GuestStates /\ n.peer = s.peer /\ n.buffer = s.buffer /\ n.inbox = s.inbox
      /\ n.snapshot = s.snapshot /\ n.loading = s.loading /\ n.source = s.source
      /\ n.welcomed = s.welcomed /\ n.replica = s.replica /\ n.dialogs = d
      /\ n.failed = s.failed
  BY <1>3, <1>4 DEF GuestStates
<1>6. PastGuest(host, n)
  BY <1>1, <1>2, <1>5 DEF NoFuture, PastGuest
<1>7. Waiting(s.buffer, g) /\ s.buffer \in Seq(UpFrames)
  BY <1>1, <1>2 DEF HonestGuests, GuestStates
<1>8. GuestSends(n, g, m)
  BY <1>2, <1>3 DEF Utters
<1>9. CASE InRoom(g)
  <2>1. PICK p \in Nat : p = s.peer /\ p # NoPeer
    BY <1>2, <1>9 DEF InRoom, GuestStates
  <2>2. PICK q \in Seq(UpFrames) : q = <<m>> /\ Len(q) = 1 /\ q[1] = m
    BY <1>4, Single
  <2>3. guest' = [guest EXCEPT ![g] = n] /\ up' = up \o From(p, q)
    BY <1>5, <1>8, <1>9, <2>1, <2>2 DEF GuestSends
  <2>4. HostSame /\ host.open
    BY <1>1, <1>4, <1>9, HostType DEF HostSame, Socket
  <2>5. p < host.nextPeer
    BY <1>1, <1>2, <2>1 DEF Peers
  <2>6. \A i \in 1 .. Len(q) : Honest(g, q[i])
    BY <1>4, <2>2
  <2>7. Speaking(g, n, p, q)
    BY <1>2, <1>4, <1>5, <1>6, <1>7, <2>1, <2>3, <2>4, <2>5, <2>6 DEF Speaking
  <2>8. /\ HelloIn(up, p) => HelloIn(up', p)
        /\ \A id : AnswerIn(up, p, id) => AnswerIn(up', p, id)
        /\ Heralded(up, p) /\ HelloIn(up, p) => Heralded(up', p)
    BY <2>7, Heard
  <2>9. guest'[g] = n
    BY <1>1, <2>3 DEF Typed
  <2>10. Greeted(g)' \/ (HelloIn(up', p) /\ Heralded(up', p))
    <3>1. Greeted(g) \/ (HelloIn(up, p) /\ Heralded(up, p))
      BY <1>1, <1>2, <1>9, <2>1 DEF Introduced
    <3> QED
      BY <1>2, <1>4, <1>5, <2>1, <2>8, <2>9, <3>1 DEF Greeted
  <2>11. ASSUME p \notin host'.lost
         PROVE  \E a, b : SyncedBy(g, n, n.inbox \o ForPeer(host.pending, p), up', host', a, b)
    <3>1. PICK a, b : SyncedBy(g, guest[g], Stream(g), up, host, a, b)
      BY <1>1, <1>2, <1>4, <1>9, <2>1, <2>11 DEF InSync
    <3>2. PICK conn : conn = <<host.room, p>>
      OBVIOUS
    <3>3. /\ Agrees(s, a, conn) /\ (g \in Writers => Attends(s, up, host, a)) /\ Caught(g, p, up, host, b)
          /\ a.asks \subseteq 1 .. host.asked /\ Leads(n.inbox \o ForPeer(host.pending, p), a, b, conn)
      BY <1>2, <1>5, <2>1, <3>1, <3>2 DEF SyncedBy, Stream
    <3>4. Agrees(n, a, conn)
      <4>1. d \subseteq s.dialogs
        BY <1>2 DEF Utters
      <4> QED
        BY <1>5, <3>3, <4>1 DEF Agrees, Matches
    <3>5. ASSUME NEW id, AnswerIn(up, p, id) \/ id \in s.dialogs \ d PROVE AnswerIn(up', p, id)
      <4>1. CASE AnswerIn(up, p, id)
        BY <2>8, <4>1
      <4>2. CASE id \in s.dialogs \ d
        <5>1. m.t = "answer" /\ m.id = id
          BY <1>2, <4>2 DEF Utters
        <5>2. PICK r \in Seq(UpFrames) : r = From(p, q) /\ Len(r) = 1 /\ r[1].from = p /\ r[1].t = "answer" /\ r[1].id = id
          <6>1. From(p, q) \in Seq(UpFrames) /\ Len(From(p, q)) = 1
            BY <2>2, FromFacts
          <6>2. 1 \in 1 .. Len(q) /\ q[1].t = "answer" /\ q[1].id = id
            BY <2>2, <5>1
          <6>3. From(p, q)[1].from = p /\ From(p, q)[1].t = "answer" /\ From(p, q)[1].id = id
            BY <6>2, FromFacts
          <6> QED
            BY <6>1, <6>3
        <5>3. AnswerIn(r, p, id)
          BY <5>2 DEF AnswerIn
        <5>4. up \in Seq(UpFrames)
          BY <1>1 DEF Typed
        <5> QED
          BY <2>3, <5>2, <5>3, <5>4, AddsKeeps
      <4> QED
        BY <3>5, <4>1, <4>2
    <3>6. g \in Writers => Attends(n, up', host', a)
      BY <1>4, <1>5, <2>1, <3>3, <3>5 DEF Attends, Attentive
    <3>7. Caught(g, p, up', host', b)
      BY <1>4, <2>8, <3>3 DEF Caught
    <3>8. SyncedBy(g, n, n.inbox \o ForPeer(host.pending, p), up', host', a, b)
      BY <1>4, <1>5, <2>1, <3>2, <3>3, <3>4, <3>6, <3>7 DEF SyncedBy
    <3> QED
      BY <3>8
  <2> QED
    BY <2>7, <2>10, <2>11, Speaks
<1>10. CASE ~InRoom(g)
  <2>1. PICK l \in UpFrames : l = Late(m) /\ Honest(g, l) /\ (l.t = "prompt" => l.late)
    BY <1>4, LateFacts DEF Honest
  <2>2. PICK w \in Seq(UpFrames) : w = Append(s.buffer, l) /\ Waiting(w, g)
    BY <1>7, <2>1, WaitingAppend
  <2>3. PICK o : o = [n EXCEPT !.buffer = w]
    OBVIOUS
  <2>4. guest' = [guest EXCEPT ![g] = o] /\ up' = up
    BY <1>5, <1>8, <1>10, <2>1, <2>2, <2>3 DEF GuestSends
  <2>5. /\ o \in GuestStates /\ o.peer = n.peer /\ o.buffer = w /\ o.inbox = n.inbox
        /\ o.snapshot = n.snapshot /\ o.loading = n.loading /\ o.source = n.source
    BY <1>5, <2>3 DEF GuestStates
  <2>6. PastGuest(host, o) /\ Waiting(o.buffer, g) /\ o.peer = NoPeer
    BY <1>2, <1>5, <1>6, <1>10, <2>2, <2>5 DEF PastGuest, InRoom
  <2> QED
    BY <1>4, <1>10, <2>4, <2>5, <2>6, StaysOut
<1> QED
  BY <1>9, <1>10

\* A guest prompts.
LEMMA PromptSafe ==
  ASSUME Main, NEW g \in Guests, Prompt(g)
  PROVE  Main'
<1>1. PICK m : m = [from |-> NoPeer, t |-> "prompt", late |-> FALSE]
  OBVIOUS
<1>2. m \in UpFrames /\ Honest(g, m)
  BY <1>1 DEF Prompt, UpFrames, Honest, NoPeer
<1>3. guest[g] \in GuestStates
  BY StreamType DEF Main, Framework
<1>4. guest[g] = [guest[g] EXCEPT !.dialogs = guest[g].dialogs]
  BY <1>3 DEF GuestStates
<1>5. GuestSends([guest[g] EXCEPT !.dialogs = guest[g].dialogs], g, m) /\ host' = host
  BY <1>1, <1>4 DEF Prompt
<1>6. Utters(g, guest[g].dialogs, m)
  BY <1>2, <1>5 DEF Utters
<1> QED
  BY <1>6, UttersSafe

\* A guest answers a dialog it shows, and stops showing it.
LEMMA AnswerSafe ==
  ASSUME Main, NEW g \in Guests, Answer(g)
  PROVE  Main'
<1>1. PICK id \in guest[g].dialogs :
        /\ GuestSends([guest[g] EXCEPT !.dialogs = @ \ {id}], g, [from |-> NoPeer, t |-> "answer", id |-> id])
        /\ host' = host
  BY DEF Answer
<1>2. PICK m : m = [from |-> NoPeer, t |-> "answer", id |-> id]
  OBVIOUS
<1>3. guest[g] \in GuestStates
  BY StreamType DEF Main, Framework
<1>4. m \in UpFrames /\ Honest(g, m) /\ m.t = "answer" /\ m.id = id
  BY <1>2, <1>3 DEF GuestStates, UpFrames, Honest, NoPeer
<1>5. Utters(g, guest[g].dialogs \ {id}, m)
  BY <1>1, <1>2, <1>4 DEF Utters
<1> QED
  BY <1>5, UttersSafe

\* A guest that has just connected knows nothing: what it was sent before is of other
\* connections.
LEMMA FreshSynced ==
  ASSUME Typed, Socket, NoFuture, NEW g \in Guests, NEW n \in GuestStates, NEW p \in Nat, p = host.nextPeer,
         n.peer = p, n.snapshot = None, n.inbox = guest[g].inbox, n.loading = guest[g].loading,
         n.source = guest[g].source, NEW q, HelloIn(q, p), NEW h, h.room = host.room
  PROVE  SyncedBy(g, n, n.inbox \o ForPeer(host.pending, p), q, h, Unaware, Unaware)
<1>1. PICK s \in GuestStates : s = guest[g]
  BY StreamType
<1>2. host.room \in Nat /\ host.nextPeer \in Nat /\ host.pending \in Seq(DownFrames)
  BY HostType
<1>3. PICK conn \in Connections : conn = <<host.room, p>>
  BY <1>2 DEF Connections
<1>4. ~Past(host, conn)
  BY <1>2, <1>3 DEF Past
<1>5. PastGuest(host, s) /\ PastFrames(host, host.pending)
  BY <1>1 DEF NoFuture
<1>6. PICK F \in Seq(DownFrames) : F = ForPeer(host.pending, p) /\ PastFrames(host, F)
  BY <1>2, <1>5, ForPeerType, PastForPeer
<1>7. s.inbox \in Seq(DownFrames) /\ PastFrames(host, s.inbox)
  BY <1>5 DEF GuestStates, PastGuest
<1>8. PICK r \in Seq(DownFrames) : r = s.inbox \o F
  BY <1>7, ConcatProperties
<1>9. PastFrames(host, r)
  BY <1>6, <1>7, <1>8, PastConcat
<1>10. \A i \in 1 .. Len(r) : r[i].t = "welcome" => r[i].by # conn
  BY <1>4, <1>9 DEF PastFrames, PastFrame
<1>11. Leads(r, Unaware, Unaware, conn)
  BY <1>10, LeadsUnaware
<1>12. Agrees(n, Unaware, conn)
  <2>1. s.source # conn
    BY <1>3, <1>4, <1>5, NoneAssumption DEF PastGuest
  <2>2. s.loading # None => s.loading.by # conn
    BY <1>4, <1>5 DEF PastGuest
  <2> QED
    BY <1>1, <2>1, <2>2 DEF Agrees, Matches, Unaware
<1>13. Attends(n, q, h, Unaware) /\ Caught(g, p, q, h, Unaware)
  BY DEF Attends, Attentive, Caught, Unaware
<1>14. Unaware.asks \subseteq 1 .. h.asked
  BY DEF Unaware
<1> QED
  BY <1>1, <1>3, <1>6, <1>8, <1>11, <1>12, <1>13, <1>14 DEF SyncedBy

\* What a socket sends when it opens.
LEMMA OpeningFacts ==
  ASSUME NEW g \in Guests, NEW b \in Seq(UpFrames), Waiting(b, g)
  PROVE  /\ b \o <<Hello(g)>> \in Seq(UpFrames)
         /\ \A i \in 1 .. Len(b \o <<Hello(g)>>) :
              /\ Honest(g, (b \o <<Hello(g)>>)[i])
              /\ (b \o <<Hello(g)>>)[i].t = "prompt" => (b \o <<Hello(g)>>)[i].late
         /\ \E i \in 1 .. Len(b \o <<Hello(g)>>) : (b \o <<Hello(g)>>)[i].t = "hello"
<1>1. Hello(g) \in UpFrames /\ Honest(g, Hello(g)) /\ Hello(g).t = "hello"
  BY DEF Hello, UpFrames, Honest, NoPeer
<1>2. PICK o \in Seq(UpFrames) : o = <<Hello(g)>> /\ Len(o) = 1 /\ o[1] = Hello(g)
  BY <1>1, Single
<1>3. PICK n \in Nat : n = Len(b)
  OBVIOUS
<1>4. PICK w \in Seq(UpFrames) : w = b \o o
  BY ConcatProperties
<1>5. Len(w) = n + 1 /\ (\A i \in 1 .. n : w[i] = b[i]) /\ w[n + 1] = Hello(g)
  BY <1>2, <1>3, <1>4, ConcatProperties
<1>6. ASSUME NEW i \in 1 .. n + 1 PROVE Honest(g, w[i]) /\ (w[i].t = "prompt" => w[i].late)
  <2>1. CASE i <= n
    BY <1>3, <1>5, <2>1 DEF Waiting
  <2>2. CASE i = n + 1
    BY <1>1, <1>5, <2>2
  <2> QED
    BY <2>1, <2>2
<1>7. n + 1 \in 1 .. Len(w) /\ w[n + 1].t = "hello"
  BY <1>1, <1>5
<1> QED
  BY <1>2, <1>4, <1>5, <1>6, <1>7

\* A connection opens: hello goes first, then what waited, the prompts among it late.
LEMMA ConnectSafe ==
  ASSUME Main, NEW g \in Guests, NEW link \in {"joining", "joined"}, Connect(g, link)
  PROVE  Main'
<1>1. Typed /\ Socket /\ Peers /\ HonestGuests /\ NoFuture
  BY DEF Main, Framework
<1>2. PICK s \in GuestStates : s = guest[g]
  BY <1>1, StreamType
<1>3. PICK p \in Nat : p = host.nextPeer /\ p # NoPeer
  BY <1>1, HostType DEF NoPeer
<1>4. PICK n : n = [OnOpen(s, p) EXCEPT !.link = link]
  OBVIOUS
<1>5. s.buffer \in Seq(UpFrames) /\ Waiting(s.buffer, g)
  BY <1>1, <1>2 DEF GuestStates, HonestGuests
<1>6. PICK q \in Seq(UpFrames) :
        /\ q = s.buffer \o <<Hello(g)>>
        /\ \A i \in 1 .. Len(q) : Honest(g, q[i]) /\ (q[i].t = "prompt" => q[i].late)
        /\ \E i \in 1 .. Len(q) : q[i].t = "hello"
  BY <1>5, OpeningFacts
<1>7. /\ host.open /\ guest' = [guest EXCEPT ![g] = n] /\ up' = up \o From(p, q)
      /\ host' = [host EXCEPT !.nextPeer = p + 1, !.connections = @ + 1]
  BY <1>2, <1>3, <1>4, <1>6 DEF Connect, Opening
<1>8. /\ n \in GuestStates /\ n.peer = p /\ n.buffer = <<>> /\ n.snapshot = None
      /\ n.inbox = s.inbox /\ n.loading = s.loading /\ n.source = s.source
  <2>1. <<>> \in Seq(UpFrames)
    OBVIOUS
  <2> QED
    BY <1>4, <2>1 DEF OnOpen, GuestStates
<1>9. HostSame /\ host'.nextPeer = p + 1
  <2>1. PICK x \in Nat : x = p + 1
    OBVIOUS
  <2>2. PICK y \in Nat : y = host.connections + 1
    BY <1>1, HostType
  <2>3. PICK h \in HostStates : h = host
    BY <1>1, HostType
  <2>4. host' = [h EXCEPT !.nextPeer = x, !.connections = y]
    BY <1>7, <2>1, <2>2, <2>3
  <2>5. host'.nextPeer = x /\ host.nextPeer <= x
    BY <1>3, <2>1, <2>3, <2>4 DEF HostStates
  <2> QED
    BY <2>1, <2>3, <2>4, <2>5 DEF HostSame, HostStates
<1>10. PastGuest(host', n)
  <2>1. PastGuest(host, n)
    BY <1>1, <1>2, <1>8 DEF NoFuture, PastGuest
  <2> QED
    BY <1>1, <1>8, <1>9, <2>1, HostSamePast
<1>11. Speaking(g, n, p, q)
  <2>1. Waiting(n.buffer, g)
    BY <1>8, AbsentFacts
  <2>2. p < host'.nextPeer
    BY <1>9
  <2> QED
    BY <1>3, <1>6, <1>7, <1>8, <1>9, <1>10, <2>1, <2>2 DEF Speaking
<1>12. PICK r \in Seq(UpFrames) : /\ r = From(p, q) /\ Len(r) = Len(q)
                                  /\ \A i \in 1 .. Len(q) :
                                       /\ r[i].from = p /\ r[i].t = q[i].t
                                       /\ q[i].t = "prompt" => r[i].late = q[i].late
  <2>1. From(p, q) \in Seq(UpFrames) /\ Len(From(p, q)) = Len(q)
    BY FromFacts
  <2>2. \A i \in 1 .. Len(q) : /\ From(p, q)[i].from = p /\ From(p, q)[i].t = q[i].t
                               /\ q[i].t = "prompt" => From(p, q)[i].late = q[i].late
    BY FromFacts
  <2> QED
    BY <2>1, <2>2
<1>13. PICK u \in Seq(UpFrames) : u = up
  BY <1>1 DEF Typed
<1>14. HelloIn(r, p) /\ Heralded(r, p)
  <2>1. HelloIn(r, p)
    <3>1. PICK i \in 1 .. Len(q) : q[i].t = "hello"
      BY <1>6
    <3>2. r[i].from = p /\ r[i].t = "hello" /\ i \in 1 .. Len(r)
      BY <1>12, <3>1
    <3> QED
      BY <3>2 DEF HelloIn
  <2>2. ASSUME NEW i \in 1 .. Len(r), r[i].t = "prompt" PROVE r[i].late
    <3>1. i \in 1 .. Len(q) /\ q[i].t = "prompt"
      BY <1>12, <2>2
    <3>2. q[i].late
      BY <1>6, <3>1
    <3> QED
      BY <1>12, <3>1, <3>2
  <2> QED
    BY <2>1, <2>2 DEF Heralded
<1>15. Heralded(u, p)
  BY <1>1, <1>3, <1>13 DEF Peers, Heralded
<1>16. HelloIn(up', p) /\ Heralded(up', p)
  BY <1>7, <1>12, <1>13, <1>14, <1>15, AddsKeeps
<1>17. SyncedBy(g, n, n.inbox \o ForPeer(host.pending, p), up', host', Unaware, Unaware)
  <2>1. PICK w : w = up'
    OBVIOUS
  <2>2. PICK h : h = host' /\ h.room = host.room
    BY <1>9 DEF HostSame
  <2>3. SyncedBy(g, n, n.inbox \o ForPeer(host.pending, p), w, h, Unaware, Unaware)
    BY <1>1, <1>2, <1>3, <1>8, <1>16, <2>1, <2>2, FreshSynced
  <2> QED
    BY <2>1, <2>2, <2>3
<1> QED
  BY <1>11, <1>16, <1>17, Speaks
-----------------------------------------------------------------------------
\* The connection of a guest breaks: of what it sent only the beginning has got through,
\* and the others are heard as before.
LEMMA CutFacts ==
  ASSUME Framework, NEW g \in Guests, InRoom(g), NEW c \in 0 .. Len(up), up' = Cut(g, c),
         NEW n, guest' = [guest EXCEPT ![g] = n], n.peer = NoPeer, UNCHANGED host
  PROVE  up' \in Seq(UpFrames) /\ Peers' /\ Unheard(g)
<1>1. Typed /\ Peers
  BY DEF Framework
<1>2. PICK u \in Seq(UpFrames) : u = up
  BY <1>1 DEF Typed
<1>3. PICK K : K = {i \in DOMAIN u : i <= c \/ ~Mine(g, u[i])}
  OBVIOUS
<1>4. PICK p \in Nat : p = guest[g].peer /\ p # NoPeer /\ p < host.nextPeer
  BY <1>1, StreamType DEF Peers, InRoom
<1>5. PICK m \in UpFrames : m = [from |-> p, t |-> "left"]
  BY DEF UpFrames
<1>6. PICK o \in Seq(UpFrames) : o = Only(u, K)
  BY OnlyType
<1>7. PICK h : Embeds(o, u, K, h)
  BY <1>6, OnlyEmbeds
<1>8. PICK r \in Seq(UpFrames) : r = <<m>> /\ Len(r) = 1 /\ r[1] = m
  BY Single
<1>9. PICK w \in Seq(UpFrames) : w = Append(o, m) /\ w = o \o r
  <2>1. Append(o, m) \in Seq(UpFrames)
    BY AppendProperties
  <2>2. Append(o, m) = o \o <<m>>
    OBVIOUS
  <2> QED
    BY <1>8, <2>1, <2>2
<1>10. up' = w
  BY <1>2, <1>3, <1>4, <1>5, <1>6, <1>9 DEF Cut
<1>11. guest'[g] = n /\ \A k \in Guests \ {g} : guest'[k] = guest[k]
  BY <1>1 DEF Typed
<1>12. \A k \in Guests \ {g} : InRoom(k) => guest[k].peer # p
  BY <1>1, <1>4 DEF Peers
<1>13. Unheard(g)
  <2>1. ASSUME NEW k \in Guests \ {g}, InRoom(k), NEW x, x = guest[k].peer
        PROVE  /\ Sincere(u, k, x) => Sincere(w, k, x)
               /\ HelloIn(u, x) => HelloIn(w, x)
               /\ Heralded(u, x) => Heralded(w, x)
               /\ \A id : AnswerIn(u, x, id) => AnswerIn(w, x, id)
    <3>1. x # p
      BY <1>12, <2>1
    <3>2. \A i \in 1 .. Len(u) : u[i].from = x => i \in K
      BY <1>3, <1>4, <3>1, LenProperties DEF Mine
    <3>3. Len(o) \in Nat
      OBVIOUS
    <3>4. Sincere(u, k, x) => Sincere(o, k, x)
      BY <1>7, <3>3, EmbedsKeeps
    <3>5. (HelloIn(u, x) => HelloIn(o, x)) /\ (Heralded(u, x) => Heralded(o, x))
      BY <1>7, <3>2, <3>3, EmbedsKeeps
    <3>6. ASSUME NEW id PROVE AnswerIn(u, x, id) => AnswerIn(o, x, id)
      <4>1. \A i \in 1 .. Len(u) : u[i].t = "answer" /\ u[i].from = x /\ u[i].id = id => i \in K
        BY <3>2
      <4> QED
        BY <1>7, <3>3, <4>1, EmbedsKeeps
    <3>7. Sincere(r, k, x) /\ Heralded(r, x)
      BY <1>5, <1>8, <3>1 DEF Sincere, Heralded
    <3>8. Sincere(o, k, x) => Sincere(w, k, x)
      BY <1>9, <3>7, AddsKeeps
    <3>9. HelloIn(o, x) => HelloIn(w, x)
      BY <1>9, AddsKeeps
    <3>10. Heralded(o, x) => Heralded(w, x)
      BY <1>9, <3>7, AddsKeeps
    <3>11. \A id : AnswerIn(o, x, id) => AnswerIn(w, x, id)
      BY <1>9, AddsKeeps
    <3> QED
      BY <3>4, <3>5, <3>6, <3>8, <3>9, <3>10, <3>11
  <2> QED
    BY <1>2, <1>10, <2>1 DEF Unheard
<1>14. Peers'
  <2>1. \A k \in Guests : guest'[k].peer < host'.nextPeer
    BY <1>1, <1>4, <1>11, HostType DEF Peers, NoPeer
  <2>2. ASSUME NEW k \in Guests, NEW j \in Guests, InRoom(k)', guest'[k].peer = guest'[j].peer PROVE k = j
    BY <1>1, <1>11, <2>2 DEF Peers, InRoom
  <2>3. Len(w) = Len(o) + 1 /\ (\A i \in 1 .. Len(o) : w[i] = o[i]) /\ w[Len(o) + 1] = m
    <3>1. PICK l \in Nat : l = Len(o)
      OBVIOUS
    <3>2. w = Append(o, m)
      BY <1>9
    <3> QED
      BY <3>1, <3>2, AppendProperties
  <2>4. ASSUME NEW i \in 1 .. Len(w)
        PROVE  /\ w[i].from \in 1 .. host'.nextPeer - 1
               /\ w[i].t = "left" => \A k \in Guests : guest'[k].peer # w[i].from
    <3>1. CASE i <= Len(o)
      <4>0. i \in 1 .. Len(o) /\ w[i] = o[i]
        <5>1. Len(o) \in Nat
          OBVIOUS
        <5> QED
          BY <2>3, <3>1, <5>1
      <4>1. PICK j \in 1 .. Len(u) : w[i] = u[j]
        BY <1>7, <4>0 DEF Embeds
      <4>2. /\ u[j].from \in 1 .. host.nextPeer - 1
            /\ u[j].t = "left" => \A k \in Guests : guest[k].peer # u[j].from
        BY <1>1, <1>2 DEF Peers
      <4> QED
        BY <1>11, <4>1, <4>2 DEF NoPeer
    <3>2. CASE ~(i <= Len(o))
      <4>1. w[i] = m
        BY <2>3, <3>2
      <4>2. p \in 1 .. host.nextPeer - 1
        <5>1. PICK a \in Nat : a = host.nextPeer
          BY <1>1, HostType
        <5>2. p # 0 /\ p < a
          BY <1>4, <5>1 DEF NoPeer
        <5>3. p \in 1 .. a - 1
          BY <5>2
        <5> QED
          BY <5>1, <5>3
      <4> QED
        BY <1>4, <1>5, <1>11, <1>12, <4>1, <4>2 DEF InRoom
    <3> QED
      BY <3>1, <3>2
  <2> QED
    BY <1>10, <2>1, <2>2, <2>4 DEF Peers
<1> QED
  BY <1>10, <1>13, <1>14

\* What a guest had not yet sent waits for its next connection.
LEMMA LateWaits ==
  ASSUME NEW k \in Seq(UpFrames), NEW g, \A i \in 1 .. Len(k) : Honest(g, k[i])
  PROVE  /\ [i \in DOMAIN k |-> Late(k[i])] \in Seq(UpFrames)
         /\ Waiting([i \in DOMAIN k |-> Late(k[i])], g)
<1>1. PICK n \in Nat : n = Len(k) /\ DOMAIN k = 1 .. n
  BY LenProperties
<1>2. PICK r : r = [i \in 1 .. n |-> Late(k[i])]
  OBVIOUS
<1>3. ASSUME NEW i \in 1 .. n PROVE r[i] \in UpFrames /\ Honest(g, r[i]) /\ (r[i].t = "prompt" => r[i].late)
  <2>1. PICK m \in UpFrames : m = k[i] /\ Honest(g, m)
    BY <1>1, ElementOfSeq
  <2>2. r[i] = Late(m)
    BY <1>2, <2>1
  <2> QED
    BY <2>1, <2>2, LateFacts DEF Honest
<1>4. r \in Seq(UpFrames) /\ Len(r) = n
  <2>1. r \in [1 .. n -> UpFrames]
    BY <1>2, <1>3
  <2> QED
    BY <2>1, LenProperties
<1>5. Waiting(r, g)
  BY <1>3, <1>4 DEF Waiting
<1> QED
  BY <1>1, <1>2, <1>4, <1>5

\* What the relay had not passed on of a broken connection is as honest as it was.
LEMMA UnsentFacts ==
  ASSUME Typed, HonestGuests, NEW g \in Guests, InRoom(g), NEW c
  PROVE  /\ Unsent(g, c) \in Seq(UpFrames)
         /\ \A i \in 1 .. Len(Unsent(g, c)) : Honest(g, Unsent(g, c)[i])
<1>1. PICK u \in Seq(UpFrames) : u = up
  BY DEF Typed
<1>2. PICK K : K = {i \in DOMAIN u : i > c /\ Mine(g, u[i])}
  OBVIOUS
<1>3. PICK o \in Seq(UpFrames) : o = Only(u, K)
  BY OnlyType
<1>4. PICK h : Embeds(o, u, K, h)
  BY <1>3, OnlyEmbeds
<1>5. o = Unsent(g, c)
  BY <1>1, <1>2, <1>3 DEF Unsent
<1>6. ASSUME NEW i \in 1 .. Len(o) PROVE Honest(g, o[i])
  <2>1. h[i] \in 1 .. Len(u) /\ o[i] = u[h[i]] /\ h[i] \in K
    BY <1>4 DEF Embeds
  <2>2. u[h[i]].from = guest[g].peer
    BY <1>2, <2>1 DEF Mine
  <2> QED
    BY <1>1, <2>1, <2>2 DEF HonestGuests, Sincere
<1> QED
  BY <1>3, <1>5, <1>6

\* A guest in the room loses its connection.
LEMMA DropsOut ==
  ASSUME Main, NEW g \in Guests, InRoom(g), NEW c \in 0 .. Len(up), up' = Cut(g, c),
         NEW n \in GuestStates, guest' = [guest EXCEPT ![g] = n], n.peer = NoPeer, UNCHANGED host,
         Waiting(n.buffer, g), PastGuest(host, n)
  PROVE  Main'
<1>1. Framework /\ Typed /\ Socket
  BY DEF Main, Framework
<1>2. up' \in Seq(UpFrames) /\ Peers' /\ Unheard(g)
  BY <1>1, CutFacts
<1>3. HostSame
  BY <1>1, HostType DEF HostSame
<1>4. Fine(g)'
  BY <1>1, OutFine
<1>5. host.open
  BY <1>1 DEF Socket
<1> QED
  BY <1>2, <1>3, <1>4, <1>5, GuestMoves

\* A guest's connection breaks at any point of what it has sent.
LEMMA GuestDropsSafe ==
  ASSUME Main, NEW g \in Guests, GuestDrops(g)
  PROVE  Main'
<1>1. Typed /\ HonestGuests /\ NoFuture
  BY DEF Main, Framework
<1>2. PICK c \in 0 .. Len(up) :
        /\ up' = Cut(g, c)
        /\ \/ /\ guest[g].link = "joining"
              /\ guest' = [guest EXCEPT ![g] = Absent]
           \/ /\ guest[g].link = "joined"
              /\ \E arrived \in IF guest[g].loading = None THEN {0} ELSE 0 .. Len(guest[g].inbox),
                    kept \in {<<>>, Unsent(g, c)} :
                   guest' = [guest EXCEPT ![g].peer = NoPeer,
                                          ![g].inbox = SubSeq(@, 1, arrived),
                                          ![g].buffer = [i \in DOMAIN kept |-> Late(kept[i])]]
  BY DEF GuestDrops
<1>3. InRoom(g) /\ host' = host
  BY DEF GuestDrops
<1>4. CASE guest' = [guest EXCEPT ![g] = Absent]
  BY <1>2, <1>3, <1>4, AbsentFacts, DropsOut, ZenonT(60)
<1>5. CASE \E arrived \in IF guest[g].loading = None THEN {0} ELSE 0 .. Len(guest[g].inbox),
              kept \in {<<>>, Unsent(g, c)} :
             guest' = [guest EXCEPT ![g].peer = NoPeer,
                                    ![g].inbox = SubSeq(@, 1, arrived),
                                    ![g].buffer = [i \in DOMAIN kept |-> Late(kept[i])]]
  <2>1. PICK s \in GuestStates : s = guest[g]
    BY <1>1, StreamType
  <2>2. PICK q \in Seq(DownFrames) : q = s.inbox
    BY DEF GuestStates
  <2>3. PICK arrived \in IF guest[g].loading = None THEN {0} ELSE 0 .. Len(guest[g].inbox),
             kept \in {<<>>, Unsent(g, c)} :
               guest' = [guest EXCEPT ![g].peer = NoPeer,
                                      ![g].inbox = SubSeq(@, 1, arrived),
                                      ![g].buffer = [i \in DOMAIN kept |-> Late(kept[i])]]
    BY <1>5
  <2>4. arrived \in 0 .. Len(q)
    BY <2>1, <2>2, <2>3, LenProperties
  <2>5. PICK r \in Seq(DownFrames) :
          r = SubSeq(q, 1, arrived) /\ Len(r) = arrived /\ \A i \in 1 .. arrived : r[i] = q[i]
    <3>1. SubSeq(q, 1, arrived) \in Seq(DownFrames) /\ Len(SubSeq(q, 1, arrived)) = arrived
      BY <2>4, Halves
    <3>2. \A i \in 1 .. arrived : SubSeq(q, 1, arrived)[i] = q[i]
      BY <2>4, Halves
    <3> QED
      BY <3>1, <3>2
  <2>6. PICK k \in Seq(UpFrames) : k = kept /\ \A i \in 1 .. Len(k) : Honest(g, k[i])
    <3>1. CASE kept = <<>>
      <4>1. <<>> \in Seq(UpFrames) /\ \A i \in 1 .. Len(<<>>) : Honest(g, <<>>[i])
        BY EmptySeq
      <4> QED
        BY <3>1, <4>1
    <3>2. CASE kept = Unsent(g, c)
      BY <1>1, <1>3, <3>2, UnsentFacts
    <3> QED
      BY <2>3, <3>1, <3>2
  <2>7. PICK b \in Seq(UpFrames) : b = [i \in DOMAIN k |-> Late(k[i])] /\ Waiting(b, g)
    BY <2>6, LateWaits
  <2>8. PICK n : n = [s EXCEPT !.peer = NoPeer, !.inbox = r, !.buffer = b]
    OBVIOUS
  <2>9. guest' = [guest EXCEPT ![g] = n]
    BY <1>1, <2>1, <2>2, <2>3, <2>5, <2>6, <2>7, <2>8 DEF Typed
  <2>10. /\ n \in GuestStates /\ n.peer = NoPeer /\ n.inbox = r /\ n.buffer = b
         /\ n.snapshot = s.snapshot /\ n.loading = s.loading /\ n.source = s.source
    BY <2>8 DEF GuestStates, NoPeer
  <2>11. PastGuest(host, n)
    <3>1. PastGuest(host, s)
      BY <1>1, <2>1 DEF NoFuture
    <3>2. PastFrames(host, r)
      <4>1. \A i \in 1 .. Len(r) : r[i] = q[i] /\ i \in 1 .. Len(q)
        BY <2>4, <2>5
      <4> QED
        BY <2>2, <3>1, <4>1 DEF PastGuest, PastFrames
    <3> QED
      BY <2>10, <3>1, <3>2 DEF PastGuest
  <2> QED
    BY <1>2, <1>3, <2>7, <2>9, <2>10, <2>11, DropsOut
<1> QED
  BY <1>2, <1>4, <1>5

\* A guest leaves; the relay tells the host after all it has said.
LEMMA GoesOutSafe ==
  ASSUME Main, NEW g \in Guests, GoesOut(g), host' = host
  PROVE  Main'
<1>1. guest' = [guest EXCEPT ![g] = Absent] /\ host' = host
  BY DEF GoesOut
<1>2. CASE InRoom(g)
  <2>1. PICK c \in 0 .. Len(up) : up' = Cut(g, c)
    BY <1>2 DEF GoesOut
  <2> QED
    BY <1>1, <1>2, <2>1, AbsentFacts, DropsOut
<1>3. CASE ~InRoom(g)
  BY <1>1, <1>3, AbsentFacts, StaysOut DEF GoesOut
<1> QED
  BY <1>2, <1>3

\* A snapshot cannot be loaded: the join is over, or a guest that stays has failed.
LEMMA LoadFailsSafe ==
  ASSUME Main, NEW g \in Guests, LoadFails(g)
  PROVE  Main'
<1>1. Framework /\ Typed /\ NoFuture
  BY DEF Main, Framework
<1>2. PICK s \in GuestStates : s = guest[g]
  BY <1>1, StreamType
<1>3. PICK x \in Snapshots : x = s.loading /\ x # None
  BY <1>2 DEF LoadFails, GuestStates
<1>4. host' = host
  BY DEF LoadFails
<1>5. CASE GoesOut(g)
  BY <1>4, <1>5, GoesOutSafe
<1>6. CASE /\ up' = up
           /\ \E gs \in Unloaded(guest[g]) :
                guest' = [guest EXCEPT ![g] =
                            [gs EXCEPT !.loading = None, !.failed = @ \/ gs.loading.by = Connection(g)]]
  <2>1. PICK gs \in Unloaded(s) :
          guest' = [guest EXCEPT ![g] =
                      [gs EXCEPT !.loading = None, !.failed = @ \/ gs.loading.by = Connection(g)]]
    BY <1>2, <1>6
  <2>2. x.entries \in Seq(Nat) /\ x.by \in Connections
    BY DEF Snapshots
  <2>3. /\ gs \in GuestStates /\ gs.peer = s.peer /\ gs.buffer = s.buffer /\ gs.inbox = s.inbox
        /\ gs.snapshot = s.snapshot /\ gs.source \in {s.source, x.by} /\ gs.loading = x
        /\ gs.failed = s.failed
    <3>1. CASE gs = s
      BY <1>3, <3>1
    <3>2. CASE gs = [s EXCEPT !.dialogs = {}]
      BY <1>3, <3>2 DEF GuestStates
    <3>3. CASE gs = [s EXCEPT !.dialogs = {}, !.replica = x.entries, !.source = x.by]
      BY <1>3, <2>2, <3>3 DEF GuestStates
    <3> QED
      BY <1>3, <2>1, <3>1, <3>2, <3>3 DEF Unloaded
  <2>4. PICK conn : conn = Connection(g)
    OBVIOUS
  <2>5. PICK n : n = [gs EXCEPT !.loading = None, !.failed = s.failed \/ x.by = conn]
    OBVIOUS
  <2>6. guest' = [guest EXCEPT ![g] = n]
    BY <2>1, <2>3, <2>4, <2>5
  <2>7. (s.failed \/ x.by = conn) \in BOOLEAN
    BY DEF GuestStates
  <2>8. /\ n \in GuestStates /\ n.peer = s.peer /\ n.buffer = s.buffer /\ n.inbox = s.inbox
        /\ n.snapshot = s.snapshot /\ n.source \in {s.source, x.by} /\ n.loading = None
        /\ ~n.failed => ~s.failed /\ x.by # conn
    BY <2>3, <2>5, <2>7 DEF GuestStates
  <2>9. PastGuest(host, n)
    <3>1. PastGuest(host, s)
      BY <1>1, <1>2 DEF NoFuture
    <3> QED
      BY <1>3, <2>8, <3>1 DEF PastGuest
  <2>10. ASSUME NEW a \in Marks, NEW b \in Marks, SyncedBy(g, guest[g], Stream(g), up, host, a, b)
         PROVE  \E c : SyncedBy(g, n, n.inbox \o ForPeer(host.pending, n.peer), up, host, c, b)
    <3>1. conn = <<host.room, s.peer>>
      BY <1>2, <2>4 DEF Connection
    <3>2. ASSUME ~n.failed PROVE Matches(n, a, conn) /\ Attentive(n, up, host, a)
      <4>1. Matches(s, a, conn) /\ x.by # conn
        BY <1>2, <2>8, <2>10, <3>1, <3>2 DEF SyncedBy, Agrees
      <4>2. ~a.known
        BY <1>3, <4>1 DEF Matches
      <4> QED
        BY <2>8, <4>1, <4>2 DEF Matches, Attentive
    <3>3. SyncedBy(g, n, Stream(g), up, host, a, b)
      BY <1>2, <2>8, <2>10, <3>1, <3>2 DEF SyncedBy, Agrees, Attends
    <3> QED
      BY <1>2, <2>8, <3>3 DEF Stream
  <2> QED
    BY <1>2, <1>4, <1>6, <2>6, <2>8, <2>9, <2>10, AtHome
<1> QED
  BY <1>5, <1>6 DEF LoadFails
-----------------------------------------------------------------------------
\* In the beginning nobody is in the room and nothing is on the way.
LEMMA MainInit ==
  Init => Main
<1> SUFFICES ASSUME Init PROVE Main
  OBVIOUS
<1>1. /\ host = [open |-> TRUE, stalled |-> FALSE, pending |-> <<>>, room |-> 1,
                 nextPeer |-> 1, connections |-> 0, log |-> 0, writers |-> {}, asks |-> {}, asked |-> 0,
                 lost |-> {}, refused |-> {}]
      /\ up = <<>> /\ guest = [g \in Guests |-> Absent]
  BY DEF Init
<1>2. <<>> \in Seq(DownFrames) /\ <<>> \in Seq(UpFrames) /\ Len(<<>>) = 0
  OBVIOUS
<1>3. \A g \in Guests : guest[g] = Absent /\ ~InRoom(g)
  BY <1>1, AbsentFacts DEF InRoom
<1>4. Typed
  <2>1. host \in HostStates /\ host.nextPeer > 0 /\ NoPeer \notin host.writers /\ host.asks \subseteq 1 .. host.asked
    BY <1>1, <1>2 DEF HostStates
  <2>2. IsFiniteSet(host.writers)
    BY <1>1, FS_EmptySet
  <2>3. guest \in [Guests -> GuestStates]
    BY <1>1, AbsentFacts
  <2> QED
    BY <1>1, <1>2, <2>1, <2>2, <2>3 DEF Typed
<1>5. Socket
  <2>1. MaxBuffered \in Nat
    BY CollabAssumption
  <2> QED
    BY <1>1, <1>2, <1>3, <2>1 DEF Socket
<1>6. Peers
  BY <1>1, <1>2, <1>3, AbsentFacts DEF Peers, NoPeer
<1>7. HonestGuests /\ Introduced /\ InSync
  BY <1>3, AbsentFacts DEF HonestGuests, Introduced, InSync
<1>8. NoFuture
  BY <1>1, <1>2, <1>3, AbsentFacts DEF NoFuture, PastFrames
<1>9. RefusedWhenCutOff
  BY <1>1 DEF RefusedWhenCutOff
<1> QED
  BY <1>4, <1>5, <1>6, <1>7, <1>8, <1>9 DEF Main, Framework

\* The inductive step: every action keeps Main.
LEMMA MainStep ==
  Main /\ [Next]_vars => Main'
<1> SUFFICES ASSUME Main, [Next]_vars PROVE Main'
  OBVIOUS
<1>1. CASE EntryAppended
  BY <1>1, EntryAppendedSafe
<1>2. CASE Ask
  BY <1>2, AskSafe
<1>3. CASE HandleFrame
  BY <1>3, HandleFrameSafe
<1>4. CASE HandlePeerLeft
  BY <1>4, HandlePeerLeftSafe
<1>5. CASE Stalls
  BY <1>5, StallsSafe
<1>6. CASE Drains
  BY <1>6, DrainsSafe
<1>7. CASE HostDrops
  BY <1>7, HostDropsSafe
<1>8. CASE HostReopens
  BY <1>8, HostReopensSafe
<1>9. CASE \E id \in host.asks : SettledHere(id)
  BY <1>9, SettledHereSafe
<1>10. ASSUME NEW g \in Guests,
              \/ Join(g) \/ Reconnect(g) \/ NoSuchRoom(g) \/ GuestDrops(g)
              \/ Leave(g) \/ Apply(g) \/ Loaded(g) \/ LoadFails(g) \/ Prompt(g) \/ Answer(g)
       PROVE  Main'
  <2>1. CASE Join(g)
    BY <2>1, ConnectSafe DEF Join
  <2>2. CASE Reconnect(g)
    BY <2>2, ConnectSafe DEF Reconnect
  <2>3. CASE NoSuchRoom(g)
    BY <2>3, NoSuchRoomSafe
  <2>4. CASE GuestDrops(g)
    BY <2>4, GuestDropsSafe
  <2>5. CASE Leave(g)
    BY <2>5, GoesOutSafe DEF Leave
  <2>6. CASE Apply(g)
    BY <2>6, ApplySafe
  <2>7. CASE Loaded(g)
    BY <2>7, LoadedSafe
  <2>8. CASE Prompt(g)
    BY <2>8, PromptSafe
  <2>9. CASE Answer(g)
    BY <2>9, AnswerSafe
  <2>10. CASE LoadFails(g)
    BY <2>10, LoadFailsSafe
  <2> QED
    BY <1>10, <2>1, <2>2, <2>3, <2>4, <2>5, <2>6, <2>7, <2>8, <2>9, <2>10
<1>11. CASE UNCHANGED vars
  <2>1. host' = host /\ up' = up /\ guest' = guest
    BY <1>11 DEF vars
  <2>2. Typed /\ HonestGuests /\ NoFuture /\ Peers /\ Socket
    BY DEF Main, Framework
  <2>3. Typed' /\ HonestGuests' /\ Peers' /\ Socket'
    BY <2>1, <2>2 DEF Typed, HonestGuests, Peers, Socket, InRoom
  <2>4. NoFuture' /\ RefusedWhenCutOff'
    BY <2>1, <2>2 DEF Main, NoFuture, RefusedWhenCutOff
  <2>5. Introduced' /\ InSync'
    BY <2>1 DEF Main, Introduced, InSync, Greeted, InRoom, Stream
  <2> QED
    BY <2>3, <2>4, <2>5 DEF Main, Framework
<1> QED
  BY <1>1, <1>2, <1>3, <1>4, <1>5, <1>6, <1>7, <1>8, <1>9, <1>10, <1>11 DEF Next

\* The inductive invariant holds in every reachable state: every guest in the room that the
\* host has not given up and whose hello it has handled is led by the frames on their way to the host's log and
\* open dialogs (host.ts:280-457, guest.ts:361-525, relay-client.ts:72-143).
THEOREM CollabInvariant == Spec => []Main
<1>1. Init => Main
  BY MainInit
<1>2. Main /\ [Next]_vars => Main'
  BY MainStep
<1> QED
  BY <1>1, <1>2, PTL DEF Spec

\* What a guest knows at the end of its stream, for the guests the invariants speak of.
LEMMA InStep ==
  ASSUME Main, NEW g \in Guests, InRoom(g), guest[g].peer \notin host.lost
  PROVE  \E a, b : /\ a \in Marks /\ b \in Marks /\ (a.known => b.known)
                   /\ Leads(Stream(g), a, b, Connection(g)) /\ Agrees(guest[g], a, Connection(g))
                   /\ g \in Writers => Attends(guest[g], up, host, a)
                   /\ Caught(g, guest[g].peer, up, host, b)
<1>1. Typed
  BY DEF Main, Framework
<1>2. PICK a, b : SyncedBy(g, guest[g], Stream(g), up, host, a, b)
  BY DEF Main, InSync
<1> QED
  BY <1>1, <1>2, SyncedFacts

\* With nothing under way the guest is at the end of its stream.
LEMMA AtTheEnd ==
  ASSUME Main, NEW g \in Guests, InRoom(g), guest[g].peer \notin host.lost, Quiet(g)
  PROVE  \E a : /\ a \in Marks /\ Agrees(guest[g], a, Connection(g))
                /\ g \in Writers => Attends(guest[g], up, host, a)
                /\ Caught(g, guest[g].peer, up, host, a)
<1>1. PICK a, b : /\ a \in Marks /\ b \in Marks
                  /\ Leads(Stream(g), a, b, Connection(g)) /\ Agrees(guest[g], a, Connection(g))
                  /\ g \in Writers => Attends(guest[g], up, host, a)
                  /\ Caught(g, guest[g].peer, up, host, b)
  BY InStep
<1>2. Stream(g) = <<>>
  BY ForPeerNil, ConcatEmptySeq DEF Stream, Quiet
<1>3. a = b
  BY <1>1, <1>2, LeadsNowhere
<1> QED
  BY <1>1, <1>3

\* A guest agrees with its mark, so its replica is a beginning of the log.
LEMMA MainNoGap ==
  Main => NoGap
<1> SUFFICES ASSUME Main, NEW g \in Guests, Synced(g), NEW i \in DOMAIN guest[g].replica
             PROVE  guest[g].replica[i] = i
  BY DEF NoGap
<1>1. InRoom(g) /\ guest[g].peer \notin host.lost /\ guest[g].welcomed /\ guest[g].source = Connection(g)
  BY DEF Synced
<1>2. PICK a : a \in Marks /\ Matches(guest[g], a, Connection(g))
  BY <1>1, InStep DEF Synced, Agrees
<1>3. guest[g].replica = Upto(a.log)
  BY <1>1, <1>2 DEF Matches
<1> QED
  BY <1>3 DEF Upto

\* With nothing on the way the mark is the host's.
LEMMA MainDialogsMatch ==
  Main => DialogsMatch
<1> SUFFICES ASSUME Main, NEW g \in Writers, Synced(g), Quiet(g),
                    NEW answered, answered = {up[i].id : i \in {j \in DOMAIN up :
                                                up[j].t = "answer" /\ up[j].from = guest[g].peer}}
             PROVE  guest[g].dialogs \subseteq host.asks /\ host.asks \ guest[g].dialogs \subseteq answered
  BY DEF DialogsMatch
<1>1. g \in Guests
  BY CollabAssumption
<1>2. InRoom(g) /\ guest[g].peer \notin host.lost /\ guest[g].source = Connection(g)
  BY DEF Synced
<1>3. PICK a : /\ a \in Marks /\ Matches(guest[g], a, Connection(g))
               /\ Attentive(guest[g], up, host, a) /\ Caught(g, guest[g].peer, up, host, a)
  BY <1>1, <1>2, AtTheEnd DEF Synced, Agrees, Attends
<1>4. a.known /\ ~Collecting(a) /\ guest[g].loading = None
  BY <1>2, <1>3 DEF Matches, Caught, Collecting, Quiet
<1>5. a.asks = host.asks /\ guest[g].dialogs \subseteq a.asks
  BY <1>3, <1>4 DEF Caught, Matches
<1>6. ASSUME NEW id \in host.asks \ guest[g].dialogs PROVE id \in answered
  <2>1. AnswerIn(up, guest[g].peer, id)
    BY <1>3, <1>4, <1>5 DEF Attentive
  <2>2. DOMAIN up = 1 .. Len(up)
    BY DEF Main, Framework, Typed
  <2> QED
    BY <2>1, <2>2 DEF AnswerIn
<1> QED
  BY <1>5, <1>6

\* With nothing on the way the mark is the host's, and the guest agrees with the mark.
LEMMA MainNothingMissing ==
  Main => NothingMissing
<1> SUFFICES ASSUME Main, NEW g \in Guests, InRoom(g), guest[g].peer \notin host.lost, Quiet(g),
                    ~guest[g].failed, \A i \in DOMAIN up : ~(Mine(g, up[i]) /\ up[i].t = "hello")
             PROVE  guest[g].welcomed /\ guest[g].replica = [n \in 1 .. host.log |-> n]
  BY DEF NothingMissing
<1>1. PICK a : a \in Marks /\ Matches(guest[g], a, Connection(g)) /\ Caught(g, guest[g].peer, up, host, a)
  BY AtTheEnd DEF Agrees
<1>2. DOMAIN up = 1 .. Len(up)
  BY DEF Main, Framework, Typed
<1>3. ~HelloIn(up, guest[g].peer)
  BY <1>2 DEF HelloIn, Mine
<1>4. a.known /\ ~Collecting(a) /\ a.log = host.log
  BY <1>1, <1>3 DEF Caught, Collecting
<1>5. guest[g].loading = None
  BY DEF Quiet
<1>6. guest[g].source = Connection(g) /\ guest[g].welcomed /\ guest[g].replica = Upto(a.log)
  BY <1>1, <1>4, <1>5 DEF Matches
<1> QED
  BY <1>4, <1>6 DEF Upto

\* What a synced guest shows is a beginning of the host's log: nothing is missing between the
\* snapshot and the live frames and nothing is there twice (host.ts:280-330, guest.ts:361-431).
THEOREM NoGapHolds == Spec => []NoGap
BY CollabInvariant, MainNoGap, PTL

\* A guest that has seen all it was sent shows the dialogs the host is asking, but for those it
\* has answered itself (host.ts:173-193, guest.ts:640-648).
THEOREM DialogsMatchHolds == Spec => []DialogsMatch
BY CollabInvariant, MainDialogsMatch, PTL

\* A guest with the write token is refused as read-only only for a prompt it wrote while
\* disconnected, or when it has gone (host.ts:468-498).
THEOREM RefusedWhenCutOffHolds == Spec => []RefusedWhenCutOff
<1>1. Main => RefusedWhenCutOff
  BY DEF Main
<1> QED
  BY CollabInvariant, <1>1, PTL

\* A guest that has introduced itself and has seen all it was sent shows the whole of the host's
\* log, unless the host dropped a frame of it or it failed to load the snapshot of the connection
\* it has (host.ts:397-457, guest.ts:285-297, 381-431).
THEOREM NothingMissingHolds == Spec => []NothingMissing
BY CollabInvariant, MainNothingMissing, PTL
==============================================================================
