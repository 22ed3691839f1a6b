--------------------------- MODULE CollabSession ---------------------------
(***************************************************************************)
(* A live session shared through a relay (collab/host.ts, guest.ts,        *)
(* relay-client.ts): the host's log of entries is replicated to guests by  *)
(* a snapshot and the live frames behind it; guests prompt, and answer     *)
(* what the host asks. Either connection may break; a host that loses its  *)
(* own loses the room.                                                     *)
(*                                                                         *)
(* The relay is external: it forwards a host frame to one peer or to all,  *)
(* guest frames to the host, numbers the peers of a room, and tells the    *)
(* host who left. What has been handed to an open socket is in the inbox   *)
(* of the guests that were in the room.                                    *)
(***************************************************************************)
EXTENDS Naturals, Sequences, FiniteSets, SequencesExt

CONSTANTS Guests,
          Writers,      \* the guests whose link carries the write token
          None,
          Chunk,        \* entries per snapshot-chunk (SNAPSHOT_CHUNK_BYTES)
          MaxBuffered,  \* MAX_PENDING_SENDS
          MaxEntries, MaxAsks, MaxPrompts, MaxConnections, MaxRooms  \* bounds

ASSUME CollabAssumption ==
  /\ Writers \subseteq Guests
  /\ {Chunk, MaxBuffered} \subseteq Nat \ {0}
  /\ {MaxEntries, MaxAsks, MaxPrompts, MaxConnections, MaxRooms} \subseteq Nat

\* A connection is a room and a peer; a snapshot remembers which one it was sent to.
Connections == Nat \X Nat
Snapshots == [entries : Seq(Nat), count : Nat, by : Connections]

ASSUME NoneAssumption == None \notin Connections \cup Snapshots

VARIABLES host,   \* the host and its socket
          up,     \* what the relay brings to the host, in order of arrival
          guest   \* every guest with its socket

vars == <<host, up, guest>>

Everyone == 0  \* the address of a broadcast
NoPeer == 0

Absent == [link |-> "out", peer |-> NoPeer, inbox |-> <<>>, welcomed |-> FALSE,
           snapshot |-> None, loading |-> None, replica |-> <<>>, source |-> None,
           failed |-> FALSE, dialogs |-> {}, buffer |-> <<>>]

Init ==
  /\ host = [open |-> TRUE, stalled |-> FALSE, pending |-> <<>>, room |-> 1,
             nextPeer |-> 1, connections |-> 0, log |-> 0, writers |-> {}, asks |-> {}, asked |-> 0,
             lost |-> {}, refused |-> {}]
  /\ up = <<>>
  /\ guest = [g \in Guests |-> Absent]

InRoom(g) == guest[g].peer # NoPeer
Connection(g) == <<host.room, guest[g].peer>>
Rest(q, k) == SubSeq(q, k + 1, Len(q))

\* What is left of a queue when only the positions in K are kept.
Only(q, K) ==
  LET kept[i \in 0 .. Len(q)] == IF i = 0 THEN <<>>
                                 ELSE IF i \in K THEN Append(kept[i - 1], q[i]) ELSE kept[i - 1]
  IN  kept[Len(q)]
-----------------------------------------------------------------------------
(***************************************************************************)
(* The host's socket (CollabSocket.send). Frames behind a closed or slow   *)
(* socket are buffered, and dropped when the buffer is full. "lost" is a   *)
(* history variable: the peers that miss a frame.                          *)
(***************************************************************************)
Addressees(h, frames) ==
  UNION {IF f.to = Everyone THEN 1 .. h.nextPeer - 1 ELSE {f.to} : f \in ToSet(frames)}

Buffer(h, frames) ==
  LET all == h.pending \o frames
      kept == CHOOSE k \in {Len(all), MaxBuffered} : k <= Len(all) /\ k <= MaxBuffered
  IN [h EXCEPT !.pending = SubSeq(all, 1, kept),
               !.lost = @ \cup Addressees(h, Rest(all, kept))]

ForPeer(frames, p) == Only(frames, {i \in DOMAIN frames : frames[i].to \in {Everyone, p}})

Forward(gs, frames) ==
  [g \in Guests |-> IF gs[g].peer = NoPeer THEN gs[g]
                   ELSE [gs[g] EXCEPT !.inbox = @ \o ForPeer(frames, gs[g].peer)]]

\* Faulty: frames overtake those in the buffer.
SendPast(h, frames) ==
  IF h.open THEN host' = h /\ guest' = Forward(guest, frames)
            ELSE host' = Buffer(h, frames) /\ UNCHANGED guest

Send(h, frames) ==
  IF h.open /\ ~h.stalled
  THEN host' = h /\ guest' = Forward(guest, frames)
  ELSE host' = Buffer(h, frames) /\ UNCHANGED guest

\* The relay reads slower than the host writes; then it catches up.
Stalls ==
  /\ host.open /\ ~host.stalled
  /\ host' = [host EXCEPT !.stalled = TRUE]
  /\ UNCHANGED <<up, guest>>

Drains ==
  /\ host.open /\ host.stalled
  /\ host' = [host EXCEPT !.stalled = FALSE, !.pending = <<>>]
  /\ guest' = Forward(guest, host.pending)
  /\ UNCHANGED up
-----------------------------------------------------------------------------
(***************************************************************************)
(* The host (CollabHost).                                                  *)
(***************************************************************************)
Welcome(h, p) == [to |-> p, t |-> "welcome", count |-> h.log, by |-> <<h.room, p>>]

\* The i-th part of a log of n entries.
Part(n, i) == [k \in 1 .. IF i * Chunk <= n THEN Chunk ELSE n - (i - 1) * Chunk
                 |-> (i - 1) * Chunk + k]

Chunks(h, p) ==
  LET count == IF h.log = 0 THEN 1 ELSE (h.log + Chunk - 1) \div Chunk
  IN [i \in 1 .. count |->
        [to |-> p, t |-> "chunk", entries |-> Part(h.log, i), final |-> i = count]]

ErrorFrame(p) == [to |-> p, t |-> "error"]
DialogFrame(p, t, id) == [to |-> p, t |-> t, id |-> id]
ToWriters(h, t, id) ==
  LET ps == SetToSeq(h.writers) IN [i \in DOMAIN ps |-> DialogFrame(ps[i], t, id)]
Pending(h, p) ==
  LET ids == SetToSeq(h.asks) IN [i \in DOMAIN ids |-> DialogFrame(p, "ask", ids[i])]

\* An entry is appended to the session: onEntryAppended.
EntryAppended ==
  /\ host.log < MaxEntries
  /\ Send([host EXCEPT !.log = @ + 1],
          <<[to |-> Everyone, t |-> "entry", n |-> host.log + 1]>>)
  /\ UNCHANGED up

\* requestGuestUi, beside the same dialog at the host.
Ask ==
  /\ host.asked < MaxAsks /\ host.writers # {}
  /\ Send([host EXCEPT !.asks = @ \cup {host.asked + 1}, !.asked = @ + 1],
          ToWriters(host, "ask", host.asked + 1))
  /\ UNCHANGED up

\* Faulty: only the one who answered is told.
SettleSilently(id) == Send([host EXCEPT !.asks = @ \ {id}], <<>>)

Settle(id) == Send([host EXCEPT !.asks = @ \ {id}], ToWriters(host, "end", id))

\* Answered at the host, or the turn that asked was aborted.
SettledHere(id) == id \in host.asks /\ Settle(id) /\ UNCHANGED up

HandleHello(m) ==
  Send([host EXCEPT !.writers = IF m.write THEN @ \cup {m.from} ELSE @ \ {m.from}],
       <<Welcome(host, m.from)>> \o Chunks(host, m.from)
         \o (IF m.write THEN Pending(host, m.from) ELSE <<>>))

HandlePrompt(m) ==
  IF m.from \in host.writers
  THEN UNCHANGED <<host, guest>>  \* the session runs it
  ELSE LET gone == \A g \in Guests : guest[g].peer # m.from
       IN Send([host EXCEPT !.refused = @ \cup {[late |-> m.late, gone |-> gone]}],
               <<ErrorFrame(m.from)>>)

HandleUiResponse(m) ==
  IF m.from \notin host.writers THEN Send(host, <<ErrorFrame(m.from)>>)
  ELSE IF m.id \in host.asks THEN Settle(m.id)
  ELSE UNCHANGED <<host, guest>>

HandleFrame ==
  /\ up # <<>> /\ Head(up).t # "left"
  /\ up' = Tail(up)
  /\ CASE Head(up).t = "hello"  -> HandleHello(Head(up))
       [] Head(up).t = "prompt" -> HandlePrompt(Head(up))
       [] Head(up).t = "answer" -> HandleUiResponse(Head(up))

\* A control message is plain text: it passes frames still being decrypted.
HandlePeerLeft ==
  \E i \in DOMAIN up :
    /\ up[i].t = "left" /\ \A j \in 1 .. i - 1 : up[j].t # "left"
    /\ up' = RemoveAt(up, i)
    /\ host' = [host EXCEPT !.writers = @ \ {up[i].from}]
    /\ UNCHANGED guest

\* The relay closes the room of a host it lost (4001): its guests are out.
HostDrops ==
  /\ host.open
  /\ host' = [host EXCEPT !.open = FALSE, !.stalled = FALSE]
  /\ up' = <<>>
  /\ guest' = [g \in Guests |-> IF InRoom(g) THEN Absent ELSE guest[g]]

\* A new room, empty when the buffer begins to drain.
HostReopens ==
  /\ ~host.open /\ host.room < MaxRooms
  /\ \E k \in 0 .. Len(host.pending) :
       host' = [host EXCEPT !.open = TRUE, !.room = @ + 1, !.nextPeer = 1, !.lost = {},
                            !.pending = Rest(@, k), !.stalled = k < Len(host.pending)]
  /\ UNCHANGED <<up, guest>>
-----------------------------------------------------------------------------
(***************************************************************************)
(* A guest (CollabGuestLink) and its socket.                               *)
(***************************************************************************)
OnOpen(gs, p) ==
  [gs EXCEPT !.peer = p, !.buffer = <<>>, !.snapshot = None, !.welcomed = FALSE,
             !.failed = FALSE]

From(p, frames) == [i \in DOMAIN frames |-> [frames[i] EXCEPT !.from = p]]

\* Faulty: no hello behind a buffer that was flushed.
OpeningFlushOnly(p, buffer, hello) == From(p, IF buffer = <<>> THEN <<hello>> ELSE buffer)

\* The socket flushes its buffer before the guest introduces itself.
Opening(p, buffer, hello) == From(p, buffer \o <<hello>>)

Hello(g) == [from |-> NoPeer, t |-> "hello", write |-> g \in Writers]

Connect(g, link) ==
  /\ host.open /\ host.connections < MaxConnections
  /\ guest' = [guest EXCEPT ![g] = [OnOpen(@, host.nextPeer) EXCEPT !.link = link]]
  /\ up' = up \o Opening(host.nextPeer, guest[g].buffer, Hello(g))
  /\ host' = [host EXCEPT !.nextPeer = @ + 1, !.connections = @ + 1]

Join(g) == guest[g].link = "out" /\ Connect(g, "joining")

Reconnect(g) ==
  /\ guest[g].link = "joined" /\ ~InRoom(g)
  /\ Connect(g, "joined")

\* The relay knows no such room (4004).
NoSuchRoom(g) ==
  /\ guest[g].link = "joined" /\ ~InRoom(g) /\ ~host.open
  /\ guest' = [guest EXCEPT ![g] = Absent]
  /\ UNCHANGED <<host, up>>

\* Of what the guest has sent, all before position c has got through.
Mine(g, m) == m.from = guest[g].peer /\ m.t # "left"
Cut(g, c) == Append(Only(up, {i \in DOMAIN up : i <= c \/ ~Mine(g, up[i])}),
                    [from |-> guest[g].peer, t |-> "left"])
Unsent(g, c) == Only(up, {i \in DOMAIN up : i > c /\ Mine(g, up[i])})
Late(m) == IF m.t = "prompt" THEN [m EXCEPT !.late = TRUE] ELSE m

\* What had arrived is applied by now, or waits behind a snapshot. What had not
\* got through is lost, or buffered if it was still being sealed. A first join
\* that loses its connection fails.
GuestDrops(g) ==
  /\ InRoom(g)
  /\ \E c \in 0 .. Len(up) :
       /\ up' = Cut(g, c)
       /\ \/ /\ guest[g].link = "joining"
             /\ guest' = [guest EXCEPT ![g] = Absent]
          \/ /\ guest[g].link = "joined"
             /\ \E arrived \in IF guest[g].loading = None THEN {0} ELSE 0 .. Len(guest[g].inbox),
                   kept \in {<<>>, Unsent(g, c)} :
                  guest' = [guest EXCEPT ![g].peer = NoPeer,
                                         ![g].inbox = SubSeq(@, 1, arrived),
                                         ![g].buffer = [i \in DOMAIN kept |-> Late(kept[i])]]
  /\ UNCHANGED host

\* The guest closes its socket.
GoesOut(g) ==
  /\ guest' = [guest EXCEPT ![g] = Absent]
  /\ IF InRoom(g) THEN \E c \in 0 .. Len(up) : up' = Cut(g, c) ELSE UNCHANGED up

Leave(g) == guest[g].link = "joined" /\ GoesOut(g) /\ UNCHANGED host

\* Faulty: the snapshot is taken as complete with its first chunk.
AccumulatedFirst(s, f) == [s EXCEPT !.entries = @ \o f.entries, !.count = 0]

Accumulated(s, f) == [s EXCEPT !.entries = @ \o f.entries]

BeginWelcome(gs, f) ==
  LET s == [entries |-> <<>>, count |-> f.count, by |-> f.by] IN
  IF f.count = 0 THEN [gs EXCEPT !.loading = s, !.snapshot = None]
                 ELSE [gs EXCEPT !.snapshot = s]

ApplyChunk(gs, f) ==
  IF gs.snapshot = None THEN gs
  ELSE LET s == Accumulated(gs.snapshot, f) IN
       IF f.final \/ Len(s.entries) >= s.count
       THEN [gs EXCEPT !.loading = s, !.snapshot = None]
       ELSE [gs EXCEPT !.snapshot = s]

ApplyFrame(gs, f) ==
  IF ~gs.welcomed THEN gs
  ELSE CASE f.t = "entry" -> [gs EXCEPT !.replica = Append(@, f.n)]
         [] f.t = "ask"   -> [gs EXCEPT !.dialogs = @ \cup {f.id}]
         [] f.t = "end"   -> [gs EXCEPT !.dialogs = @ \ {f.id}]
         [] OTHER         -> gs

Applied(gs, f) ==
  CASE f.t = "welcome" -> BeginWelcome(gs, f)
    [] f.t = "chunk"   -> ApplyChunk(gs, f)
    [] OTHER           -> ApplyFrame(gs, f)

\* The next link of #applyChain; a snapshot being loaded holds it up.
Apply(g) ==
  /\ guest[g].inbox # <<>> /\ guest[g].loading = None
  /\ guest' = [guest EXCEPT ![g] =
                 Applied([guest[g] EXCEPT !.inbox = Tail(@)], Head(guest[g].inbox))]
  /\ UNCHANGED <<host, up>>

\* #finalizeSnapshot: file written, session switched, dialogs dismissed.
Loaded(g) ==
  /\ guest[g].loading # None
  /\ guest' = [guest EXCEPT ![g].replica = guest[g].loading.entries,
                            ![g].source = guest[g].loading.by,
                            ![g].loading = None, ![g].dialogs = {},
                            ![g].welcomed = TRUE, ![g].link = "joined"]
  /\ UNCHANGED <<host, up>>

\* How far #finalizeSnapshot has got when it throws: before the file is written;
\* when the dialogs are dismissed and the session cannot be switched; or behind that.
Unloaded(gs) ==
  {gs, [gs EXCEPT !.dialogs = {}],
   [gs EXCEPT !.dialogs = {}, !.replica = gs.loading.entries, !.source = gs.loading.by]}

\* A join fails with its snapshot, and the socket is closed. A guest that has joined
\* before only logs the error: it stays connected, without a snapshot of this
\* connection. "failed" is a history variable.
LoadFails(g) ==
  /\ guest[g].loading # None
  /\ \/ guest[g].link = "joining" /\ GoesOut(g)
     \/ /\ guest[g].link = "joined"
        /\ \E gs \in Unloaded(guest[g]) :
             guest' = [guest EXCEPT ![g] =
                         [gs EXCEPT !.loading = None, !.failed = @ \/ gs.loading.by = Connection(g)]]
        /\ UNCHANGED up
  /\ UNCHANGED host

GuestSends(gs, g, m) ==
  IF InRoom(g)
  THEN guest' = [guest EXCEPT ![g] = gs] /\ up' = up \o From(gs.peer, <<m>>)
  ELSE /\ guest' = [guest EXCEPT ![g] = [gs EXCEPT !.buffer = Append(@, Late(m))]]
       /\ UNCHANGED up

OpenPrompts ==
  Cardinality(host.refused) + Cardinality({i \in DOMAIN up : up[i].t = "prompt"})

Prompt(g) ==
  /\ g \in Writers /\ guest[g].link = "joined" /\ OpenPrompts < MaxPrompts
  /\ \A i \in DOMAIN guest[g].buffer : guest[g].buffer[i].t # "prompt"
  /\ GuestSends(guest[g], g, [from |-> NoPeer, t |-> "prompt", late |-> FALSE])
  /\ UNCHANGED host

\* The dialog is answered, or cancelled, by the guest.
Answer(g) ==
  \E id \in guest[g].dialogs :
    /\ GuestSends([guest[g] EXCEPT !.dialogs = @ \ {id}], g,
                  [from |-> NoPeer, t |-> "answer", id |-> id])
    /\ UNCHANGED host

Next ==
  \/ EntryAppended \/ Ask \/ HandleFrame \/ HandlePeerLeft
  \/ Stalls \/ Drains \/ HostDrops \/ HostReopens
  \/ \E id \in host.asks : SettledHere(id)
  \/ \E g \in Guests : \/ Join(g) \/ Reconnect(g) \/ NoSuchRoom(g) \/ GuestDrops(g)
                       \/ Leave(g) \/ Apply(g) \/ Loaded(g) \/ LoadFails(g)
                       \/ Prompt(g) \/ Answer(g)

Spec == Init /\ [][Next]_vars
-----------------------------------------------------------------------------
\* The guest has loaded a snapshot of the connection it has, and the host has
\* dropped none of its frames.
Synced(g) ==
  /\ InRoom(g) /\ guest[g].welcomed /\ ~guest[g].failed
  /\ guest[g].source = Connection(g)
  /\ guest[g].peer \notin host.lost

(***************************************************************************)
(* What a synced guest shows is a beginning of the host's log: no entry is *)
(* missing between the snapshot and the live frames, and none is there     *)
(* twice, wherever the host's socket stalls and whatever is left of an     *)
(* earlier connection.                                                     *)
(***************************************************************************)
NoGap ==
  \A g \in Guests : Synced(g) => \A i \in DOMAIN guest[g].replica : guest[g].replica[i] = i

\* Nothing is under way from the host to this guest.
Quiet(g) ==
  /\ host.pending = <<>> /\ guest[g].inbox = <<>>
  /\ guest[g].loading = None /\ guest[g].snapshot = None

(***************************************************************************)
(* Once a guest has seen all it was sent, it shows what the host is still  *)
(* asking and nothing else, except what it has answered itself.            *)
(***************************************************************************)
DialogsMatch ==
  \A g \in Writers :
    Synced(g) /\ Quiet(g) =>
      LET answered == {up[i].id : i \in {j \in DOMAIN up :
                         up[j].t = "answer" /\ up[j].from = guest[g].peer}}
      IN guest[g].dialogs \subseteq host.asks /\ host.asks \ guest[g].dialogs \subseteq answered

(***************************************************************************)
(* A guest with the write token is refused as read-only only for a prompt  *)
(* written while it was disconnected, which a reopened socket sends before *)
(* the hello (relay-client.ts:180-184), or after it has gone.              *)
(***************************************************************************)
RefusedWhenCutOff == \A r \in host.refused : r.late \/ r.gone

(***************************************************************************)
(* A guest that has introduced itself and has seen all it was sent shows   *)
(* the whole of the host's log: it is not left waiting for a snapshot, and *)
(* no entry appended meanwhile has passed it by. There are two ways to be  *)
(* left behind on a live connection, and no third: the host's buffer has   *)
(* dropped a frame of it, or the guest could not load its snapshot. It is  *)
(* then not welcomed, unless a late load of an earlier connection has said *)
(* so, and drops every live frame until it reconnects, against             *)
(* guest.ts:243-246, by which a welcome (re)syncs the replica.             *)
(***************************************************************************)
NothingMissing ==
  \A g \in Guests :
    /\ InRoom(g) /\ guest[g].peer \notin host.lost
    /\ Quiet(g) /\ \A i \in DOMAIN up : ~(Mine(g, up[i]) /\ up[i].t = "hello")
    => \/ guest[g].welcomed /\ guest[g].replica = [n \in 1 .. host.log |-> n]
       \/ guest[g].failed
=============================================================================
