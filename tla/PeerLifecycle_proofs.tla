------------------------ MODULE PeerLifecycle_proofs ------------------------
(***************************************************************************)
(* Type correctness, GateOrder and DropsOnlyByOverlap for any two devices, *)
(* any number of sightings and failures and any capacity of the channels.  *)
(*                                                                         *)
(* Both rest on the order of a connection's events in the channel:         *)
(* PeerConnected before its messages (the gate), its messages before       *)
(* PeerDisconnected (deliver and superviseConn run one after the other).   *)
(* So when an INDEX finds no entry, its own connection has been joined and *)
(* its own PeerDisconnected has not been handled: another connection's has *)
(* (EntryLost).                                                            *)
(***************************************************************************)
EXTENDS PeerLifecycle, QueueLemmas

\* A connection that nobody dialled has not come anywhere.
Undialled == \A c \in Conn, d \in Device : dialer[c] = None => stage[c][d] = "none"

\* The gate is open exactly when PeerConnected is in the channel or has been handled.
ConnectsOnce ==
    \A c \in Conn, d \in Device :
        /\ stage[c][d] = "open" <=> Connected(c) \in Range(events[d]) \/ c \in joined[d]
        /\ Connected(c) \in Range(events[d]) => c \notin joined[d]

\* The INDEX is sent by an engine that has joined, and it is in the channel when it is
\* said to be.
IndexTrail ==
    \A c \in Conn, d \in Device :
        /\ index[c][d] # "unsent" => c \in joined[Peer(d)]
        /\ Message(c) \in Range(events[d]) <=> index[c][d] = "queued"
        /\ index[c][d] = "queued" => stage[c][d] = "open"

\* PeerDisconnected is emitted by the supervisor alone.
EndsOnce ==
    \A c \in Conn, d \in Device : Disconnected(c) \in Range(events[d]) => gone[c][d] # "no"

\* The events of one connection are in order, but PeerDisconnected may be ahead of
\* PeerConnected.
InOrder ==
    \A d \in Device :
        /\ NoRepeat(events[d])
        /\ \A c \in Conn : /\ Precedes(events[d], Connected(c), Message(c))
                           /\ Precedes(events[d], Message(c), Disconnected(c))

\* A device that has joined c and has no entry has lost it to the end of another
\* connection, or to that of c when nothing of c is left in the channel.
EntryLost ==
    \A c \in Conn, d \in Device :
        c \in joined[d] /\ peers[d] = None =>
            \/ \E b \in Conn \ {c} : gone[b][d] # "no"
            \/ gone[c][d] # "no" /\ index[c][d] # "queued"

Inductive ==
    /\ TypeOK /\ Undialled /\ ConnectsOnce /\ IndexTrail /\ EndsOnce /\ InOrder
    /\ EntryLost /\ DropsOnlyByOverlap

-----------------------------------------------------------------------------
(* Basic facts. *)

LEMMA Peers ==
    ASSUME NEW d \in Device
    PROVE  /\ Peer(d) \in Device /\ Peer(d) # d /\ Peer(Peer(d)) = d
           /\ \A e \in Device : e = d \/ e = Peer(d)
<1>1. PICK a \in Device, b \in Device : a # b /\ Device = {a, b}
  BY PeerAssumption
<1>2. \A e \in Device : Peer(e) \in Device /\ Peer(e) # e
  <2> SUFFICES ASSUME NEW e \in Device PROVE Peer(e) \in Device /\ Peer(e) # e
    OBVIOUS
  <2>1. \E f \in Device : f # e
    BY <1>1
  <2> QED BY <2>1 DEF Peer
<1> QED BY <1>1, <1>2

\* Events of different connections or kinds are different, and there are no others.
LEMMA Events ==
    /\ \A c \in Conn : Connected(c) \in Event /\ Message(c) \in Event /\ Disconnected(c) \in Event
    /\ \A b, c \in Conn :
          /\ Connected(b) # Message(c) /\ Connected(b) # Disconnected(c) /\ Message(b) # Disconnected(c)
          /\ (Connected(b) = Connected(c) => b = c) /\ (Message(b) = Message(c) => b = c)
          /\ (Disconnected(b) = Disconnected(c) => b = c)
    /\ \A ev \in Event :
          /\ ev.conn \in Conn
          /\ ev.kind = "connected" => ev = Connected(ev.conn)
          /\ ev.kind = "message" => ev = Message(ev.conn)
          /\ ev.kind = "disconnected" => ev = Disconnected(ev.conn)
BY DEF Event, Connected, Message, Disconnected

LEMMA NoneIsNoConn == None \notin Conn /\ None \notin Device
BY PeerAssumption DEF None, Conn

\* An update for one device, and for one connection on one device.
LEMMA Update ==
    ASSUME NEW V, NEW f \in [Device -> V], NEW d \in Device, NEW v \in V
    PROVE  [f EXCEPT ![d] = v] \in [Device -> V]
OBVIOUS

LEMMA SideUpdate ==
    ASSUME NEW V, NEW f \in [Conn -> [Device -> V]], NEW c \in Conn, NEW d \in Device, NEW v \in V
    PROVE  /\ [f EXCEPT ![c][d] = v] \in [Conn -> [Device -> V]]
           /\ \A b \in Conn, e \in Device :
                 [f EXCEPT ![c][d] = v][b][e] = IF b = c /\ e = d THEN v ELSE f[b][e]
OBVIOUS

-----------------------------------------------------------------------------
(* What kinds of steps keep. *)

\* A step that concerns neither the channel nor the engine's entries, and neither opens a
\* gate nor shuts one.
LEMMA QuietStep ==
    ASSUME Inductive, TypeOK', Undialled', UNCHANGED <<events, peers, index, joined, gone>>,
           \A c \in Conn, d \in Device : stage'[c][d] = "open" <=> stage[c][d] = "open"
    PROVE  Inductive'
<1>1. ConnectsOnce'
  BY DEF Inductive, ConnectsOnce
<1>2. IndexTrail'
  BY DEF Inductive, IndexTrail
<1>3. EndsOnce' /\ InOrder' /\ EntryLost' /\ DropsOnlyByOverlap'
  BY DEF Inductive, EndsOnce, InOrder, EntryLost, DropsOnlyByOverlap
<1> QED BY <1>1, <1>2, <1>3 DEF Inductive

\* A send on the channel of d, and what it does to the channels.
LEMMA EmitAdds ==
    ASSUME TypeOK, InOrder, NEW d \in Device, NEW ev \in Event, Room(d), emit(d, ev),
           ev \notin Range(events[d])
    PROVE  /\ events' \in [Device -> Seq(Event)] /\ \A e \in Device : Len(events'[e]) <= EventsBuffer
           /\ \A e \in Device : e # d => events'[e] = events[e]
           /\ Range(events'[d]) = Range(events[d]) \cup {ev}
           /\ NoRepeat(events'[d])
           /\ \A x, y : Precedes(events[d], x, y) /\ x # y /\ (ev = x => y \notin Range(events[d]))
                         => Precedes(events'[d], x, y)
<1>1. events[d] \in Seq(Event) /\ NoRepeat(events[d]) /\ Len(events[d]) \in Nat
  BY DEF TypeOK, InOrder
<1>2. events'[d] = Append(events[d], ev) /\ \A e \in Device : e # d => events'[e] = events[e]
  BY DEF emit, TypeOK
<1>3. /\ events'[d] \in Seq(Event) /\ Len(events'[d]) = Len(events[d]) + 1
      /\ Range(events'[d]) = Range(events[d]) \cup {ev}
  BY <1>1, <1>2, RangeAppend
<1>4. /\ NoRepeat(events'[d])
      /\ \A x, y : Precedes(events[d], x, y) /\ x # y /\ (ev = x => y \notin Range(events[d]))
                    => Precedes(events'[d], x, y)
  BY <1>1, <1>2, OrderAppend
<1>5. events' \in [Device -> Seq(Event)] /\ \A e \in Device : Len(events'[e]) <= EventsBuffer
  <2>1. Len(events'[d]) <= EventsBuffer
    BY <1>1, <1>3, PeerAssumption DEF Room
  <2> QED BY <1>2, <1>3, <2>1 DEF emit, TypeOK
<1> QED BY <1>2, <1>3, <1>4, <1>5

-----------------------------------------------------------------------------
(* One lemma per action. *)

LEMMA InitInductive == Init => Inductive
<1> SUFFICES ASSUME Init PROVE Inductive
  OBVIOUS
<1>1. TypeOK
  <2>1. \A d \in Device : events[d] = <<>> /\ hints[d] = <<>>
    BY DEF Init
  <2>2. /\ events \in [Device -> Seq(Event)] /\ hints \in [Device -> Seq({"discovered", "evicted"})]
        /\ \A d \in Device : Len(events[d]) <= EventsBuffer /\ Len(hints[d]) <= HintsBuffer
    BY <2>1, EmptyQueue, PeerAssumption DEF Init
  <2> QED BY <2>2 DEF Init, TypeOK, Stages, Places
<1>2. \A d \in Device : events[d] = <<>> /\ Range(events[d]) = {}
  BY RangeEmpty DEF Init
<1>3. InOrder
  <2>1. \A d \in Device : Len(events[d]) = 0
    BY <1>2, EmptyQueue
  <2>2. \A d \in Device : \A i \in 1 .. Len(events[d]) : FALSE
    BY <2>1
  <2> QED BY <2>2 DEF InOrder, NoRepeat, Precedes
<1>4. Undialled /\ ConnectsOnce /\ IndexTrail /\ EndsOnce
  BY <1>2 DEF Init, Undialled, ConnectsOnce, IndexTrail, EndsOnce
<1>5. EntryLost /\ DropsOnlyByOverlap
  BY DEF Init, EntryLost, DropsOnlyByOverlap
<1> QED BY <1>1, <1>3, <1>4, <1>5 DEF Inductive

\* Discovery and the dial's bookkeeping.
LEMMA DiscoveryKeeps ==
    ASSUME Inductive, NEW d \in Device,
           handleAnnounce(d) \/ sweep(d) \/ DialFails(d) \/ onPeerDiscovered(d) \/ dialDone(d)
    PROVE  Inductive'
<1>1. UNCHANGED <<transport, events, peers, index, joined>>
  BY DEF handleAnnounce, sweep, DialFails, onPeerDiscovered, dialDone
<1>2. /\ hints' \in [Device -> Seq({"discovered", "evicted"})]
      /\ \A e \in Device : Len(hints'[e]) <= HintsBuffer
  <2> DEFINE Hint == {"discovered", "evicted"}
  <2>1. hints[d] \in Seq(Hint) /\ Len(hints[d]) <= HintsBuffer /\ HintsBuffer \in Nat
    BY PeerAssumption DEF Inductive, TypeOK
  <2>2. ASSUME NEW h \in Hint
        PROVE  Append(hints[d], h) \in Seq(Hint) /\ Len(Append(hints[d], h)) = Len(hints[d]) + 1
    BY <2>1
  <2>3. hints[d] # <<>> => Tail(hints[d]) \in Seq(Hint) /\ Len(Tail(hints[d])) = Len(hints[d]) - 1
    BY <2>1
  <2>4. PICK q \in Seq(Hint) : hints' = [hints EXCEPT ![d] = q] /\ Len(q) <= HintsBuffer
    <3>1. CASE handleAnnounce(d) \/ sweep(d)
      <4>1. \E h \in Hint : hints' = [hints EXCEPT ![d] = Append(hints[d], h)]
        BY <3>1 DEF handleAnnounce, sweep, hint
      <4>2. Len(hints[d]) + 1 <= HintsBuffer
        BY <2>1, <3>1 DEF handleAnnounce, sweep, HintRoom
      <4> QED BY <2>2, <4>1, <4>2
    <3>2. CASE DialFails(d) \/ dialDone(d)
      <4>1. hints' = [hints EXCEPT ![d] = hints[d]]
        BY <3>2 DEF DialFails, dialDone, Inductive, TypeOK
      <4> QED BY <2>1, <4>1
    <3>3. CASE onPeerDiscovered(d)
      <4>1. hints[d] # <<>> /\ hints' = [hints EXCEPT ![d] = Tail(hints[d])]
        BY <3>3 DEF onPeerDiscovered
      <4>2. Len(hints[d]) - 1 <= HintsBuffer
        BY <2>1
      <4> QED BY <2>3, <4>1, <4>2
    <3> QED BY <3>1, <3>2, <3>3
  <2> QED BY <2>4 DEF Inductive, TypeOK
<1>3. TypeOK'
  <2>1. known' \in [Device -> BOOLEAN]
    <3>1. known' \in {known, [known EXCEPT ![d] = TRUE], [known EXCEPT ![d] = FALSE]}
      BY DEF handleAnnounce, sweep, DialFails, onPeerDiscovered, dialDone
    <3>2. known \in [Device -> BOOLEAN]
      BY DEF Inductive, TypeOK
    <3> QED BY <3>1, <3>2, Zenon
  <2>2. dialing' \in [Device -> {"no", "dialing", "done"}]
    BY DEF handleAnnounce, sweep, DialFails, onPeerDiscovered, dialDone, Inductive, TypeOK
  <2>3. drops' \in Nat /\ sightings' \in Nat
    BY DEF handleAnnounce, sweep, DialFails, onPeerDiscovered, dialDone, Inductive, TypeOK
  <2> QED BY <1>1, <1>2, <2>1, <2>2, <2>3 DEF transport, Inductive, TypeOK
<1>4. Undialled'
  BY <1>1 DEF transport, Inductive, Undialled
<1> QED BY <1>1, <1>3, <1>4, QuietStep DEF transport

LEMMA DialKeeps ==
    ASSUME Inductive, NEW d \in Device, Dial(d)
    PROVE  Inductive'
<1>1. PICK c \in Conn : /\ dialer[c] = None
                        /\ dialer' = [dialer EXCEPT ![c] = d]
                        /\ stage' = [stage EXCEPT ![c] = [e \in Device |-> "handshake"]]
  BY DEF Dial, Fresh
<1>2. UNCHANGED <<known, hints, dialing, shut, gone, events, peers, index, joined, drops, sightings>>
  BY DEF Dial
<1>3. TypeOK'
  <2>1. dialer' \in [Conn -> Device \cup {None}] /\ stage' \in [Conn -> [Device -> Stages]]
    BY <1>1 DEF Inductive, TypeOK, Stages
  <2> QED BY <1>2, <2>1 DEF Inductive, TypeOK
<1>4. Undialled'
  BY <1>1, NoneIsNoConn DEF Inductive, TypeOK, Undialled
<1>5. \A b \in Conn, e \in Device : stage'[b][e] = "open" <=> stage[b][e] = "open"
  BY <1>1 DEF Inductive, TypeOK, Undialled
<1> QED BY <1>2, <1>3, <1>4, <1>5, QuietStep

\* establish and closeWith, with or without success.
LEMMA ConnectionKeeps ==
    ASSUME Inductive, NEW c \in Conn, NEW d \in Device,
           establish(c, d) \/ establishFails(c, d) \/ closeWith(c, d)
    PROVE  Inductive'
<1>1. UNCHANGED <<known, hints, dialer, gone, events, peers, index, joined, sightings>>
  BY DEF establish, establishFails, closeWith
<1>2. \/ UNCHANGED stage
      \/ stage[c][d] = "handshake" /\ \E x \in {"registered", "failed"} : stage' = [stage EXCEPT ![c][d] = x]
  BY DEF establish, establishFails, closeWith
<1>3. /\ stage' \in [Conn -> [Device -> Stages]]
      /\ \A b \in Conn, e \in Device :
            stage'[b][e] = stage[b][e] \/ (stage[b][e] = "handshake" /\ stage'[b][e] \in {"registered", "failed"})
  <2>1. stage \in [Conn -> [Device -> Stages]] /\ "registered" \in Stages /\ "failed" \in Stages
    BY DEF Inductive, TypeOK, Stages
  <2>2. CASE UNCHANGED stage
    BY <2>1, <2>2
  <2>3. CASE stage[c][d] = "handshake" /\ \E x \in {"registered", "failed"} : stage' = [stage EXCEPT ![c][d] = x]
    BY <2>1, <2>3, SideUpdate
  <2> QED BY <1>2, <2>2, <2>3
<1>4. TypeOK'
  <2>2. shut' \in [Conn -> [Device -> BOOLEAN]]
    <3>1. shut' \in {shut, [shut EXCEPT ![c][d] = TRUE]} /\ shut \in [Conn -> [Device -> BOOLEAN]]
      BY DEF establish, establishFails, closeWith, Inductive, TypeOK
    <3>2. TRUE \in BOOLEAN
      OBVIOUS
    <3>3. [shut EXCEPT ![c][d] = TRUE] \in [Conn -> [Device -> BOOLEAN]]
      BY <3>1, <3>2, SideUpdate, Zenon
    <3> QED BY <3>1, <3>3, Zenon
  <2>3. dialing' \in [Device -> {"no", "dialing", "done"}]
    BY DEF establish, establishFails, closeWith, Returns, Inductive, TypeOK
  <2>4. drops' \in Nat
    BY DEF establish, establishFails, closeWith, Breaks, Ended, Inductive, TypeOK
  <2> QED BY <1>1, <1>3, <2>2, <2>3, <2>4 DEF Inductive, TypeOK
<1>5. Undialled'
  BY <1>1, <1>3 DEF Inductive, Undialled
<1>6. \A b \in Conn, e \in Device : stage'[b][e] = "open" <=> stage[b][e] = "open"
  BY <1>3
<1> QED BY <1>1, <1>4, <1>5, <1>6, QuietStep

\* PeerConnected goes out before the gate opens, so none of the connection's messages is in
\* the channel yet.
LEMMA registerKeeps ==
    ASSUME Inductive, NEW c \in Conn, NEW d \in Device, register(c, d)
    PROVE  Inductive'
<1> DEFINE ev == Connected(c)
<1>1. /\ stage[c][d] = "registered" /\ Room(d) /\ emit(d, ev)
      /\ stage' = [stage EXCEPT ![c][d] = "open"] /\ Returns(c, d)
      /\ UNCHANGED <<known, hints, dialer, shut, gone, peers, index, joined, drops, sightings>>
  BY DEF register
<1>2. /\ stage' \in [Conn -> [Device -> Stages]]
      /\ \A b \in Conn, e \in Device :
            stage'[b][e] = IF b = c /\ e = d THEN "open" ELSE stage[b][e]
  <2>1. stage \in [Conn -> [Device -> Stages]] /\ "open" \in Stages
    BY DEF Inductive, TypeOK, Stages
  <2> QED BY <1>1, <2>1, SideUpdate
<1>3. ev \in Event /\ ev \notin Range(events[d]) /\ c \notin joined[d] /\ Message(c) \notin Range(events[d])
  BY <1>1, Events DEF Inductive, ConnectsOnce, IndexTrail
<1>4. /\ events' \in [Device -> Seq(Event)] /\ \A e \in Device : Len(events'[e]) <= EventsBuffer
      /\ \A e \in Device : e # d => events'[e] = events[e]
      /\ Range(events'[d]) = Range(events[d]) \cup {ev}
      /\ NoRepeat(events'[d])
      /\ \A x, y : Precedes(events[d], x, y) /\ x # y /\ (ev = x => y \notin Range(events[d]))
                    => Precedes(events'[d], x, y)
  BY <1>1, <1>3, EmitAdds DEF Inductive
<1>5. TypeOK'
  <2>1. dialing' \in [Device -> {"no", "dialing", "done"}]
    BY <1>1 DEF Returns, Inductive, TypeOK
  <2> QED BY <1>1, <1>2, <1>4, <2>1 DEF Inductive, TypeOK
<1> HIDE DEF ev
<1>6. Undialled'
  BY <1>1, <1>2 DEF Inductive, Undialled
<1>7. \A b \in Conn : /\ Message(b) # ev /\ Disconnected(b) # ev /\ (Connected(b) = ev <=> b = c)
                      /\ Connected(b) # Message(b) /\ Message(b) # Disconnected(b)
  BY Events DEF ev
<1>8. ConnectsOnce'
  BY <1>1, <1>2, <1>3, <1>4, <1>7 DEF Inductive, ConnectsOnce
<1>9. IndexTrail'
  <2>1. \A b \in Conn, e \in Device :
           /\ Message(b) \in Range(events'[e]) <=> Message(b) \in Range(events[e])
           /\ stage[b][e] = "open" => stage'[b][e] = "open"
    BY <1>2, <1>4, <1>7
  <2> QED BY <1>1, <2>1 DEF Inductive, IndexTrail
<1>10. EndsOnce'
  BY <1>1, <1>4, <1>7 DEF Inductive, EndsOnce
<1>11. InOrder'
  <2>1. ASSUME NEW b \in Conn PROVE /\ Precedes(events'[d], Connected(b), Message(b))
                                    /\ Precedes(events'[d], Message(b), Disconnected(b))
    BY <1>3, <1>4, <1>7 DEF Inductive, InOrder
  <2> QED BY <1>4, <2>1 DEF Inductive, InOrder
<1>12. EntryLost' /\ DropsOnlyByOverlap'
  BY <1>1 DEF Inductive, EntryLost, DropsOnlyByOverlap
<1> QED BY <1>5, <1>6, <1>8, <1>9, <1>10, <1>11, <1>12 DEF Inductive

\* PeerDisconnected goes out once, and what is still on the wire then never comes.
LEMMA superviseConnKeeps ==
    ASSUME Inductive, NEW c \in Conn, NEW d \in Device, superviseConn(c, d)
    PROVE  Inductive'
<1> DEFINE ev == Disconnected(c)
           how == IF stage[c][d] = "open" THEN "late" ELSE "early"
           at == IF index[c][d] = "wire" THEN "lost" ELSE index[c][d]
<1>1. /\ gone[c][d] = "no" /\ Room(d) /\ emit(d, ev)
      /\ gone' = [gone EXCEPT ![c][d] = how]
      /\ index' = [index EXCEPT ![c][d] = at]
      /\ UNCHANGED <<known, hints, dialing, dialer, stage, shut, peers, joined, drops, sightings>>
  BY DEF superviseConn
<1>2. /\ gone' \in [Conn -> [Device -> {"no", "early", "late"}]]
      /\ \A b \in Conn, e \in Device : gone'[b][e] = IF b = c /\ e = d THEN how ELSE gone[b][e]
      /\ how # "no"
  <2>1. gone \in [Conn -> [Device -> {"no", "early", "late"}]] /\ how \in {"no", "early", "late"} /\ how # "no"
    BY DEF Inductive, TypeOK
  <2> QED BY <1>1, <2>1, SideUpdate
<1>3. /\ index' \in [Conn -> [Device -> Places]]
      /\ \A b \in Conn, e \in Device : index'[b][e] = IF b = c /\ e = d THEN at ELSE index[b][e]
  <2>1. index \in [Conn -> [Device -> Places]] /\ at \in Places
    BY DEF Inductive, TypeOK, Places
  <2> QED BY <1>1, <2>1, SideUpdate
<1>4. \A b \in Conn, e \in Device :
         /\ index'[b][e] = "queued" <=> index[b][e] = "queued"
         /\ index'[b][e] = "unsent" <=> index[b][e] = "unsent"
         /\ index'[b][e] = "dropped" <=> index[b][e] = "dropped"
  BY <1>3
<1>5. ev \in Event /\ ev \notin Range(events[d])
  BY <1>1, Events DEF Inductive, EndsOnce
<1>6. /\ events' \in [Device -> Seq(Event)] /\ \A e \in Device : Len(events'[e]) <= EventsBuffer
      /\ \A e \in Device : e # d => events'[e] = events[e]
      /\ Range(events'[d]) = Range(events[d]) \cup {ev}
      /\ NoRepeat(events'[d])
      /\ \A x, y : Precedes(events[d], x, y) /\ x # y /\ (ev = x => y \notin Range(events[d]))
                    => Precedes(events'[d], x, y)
  BY <1>1, <1>5, EmitAdds DEF Inductive
<1>7. TypeOK'
  BY <1>1, <1>2, <1>3, <1>6 DEF Inductive, TypeOK
<1> HIDE DEF ev, how, at
<1>8. \A b \in Conn : /\ Message(b) # ev /\ Connected(b) # ev /\ (Disconnected(b) = ev <=> b = c)
                      /\ Connected(b) # Message(b) /\ Message(b) # Disconnected(b)
  BY Events DEF ev
<1>9. Undialled'
  BY <1>1 DEF Inductive, Undialled
<1>10. ConnectsOnce'
  BY <1>1, <1>6, <1>8 DEF Inductive, ConnectsOnce
<1>11. IndexTrail'
  BY <1>1, <1>4, <1>6, <1>8 DEF Inductive, IndexTrail
<1>12. EndsOnce'
  BY <1>2, <1>6, <1>8 DEF Inductive, EndsOnce
<1>13. InOrder'
  <2>1. ASSUME NEW b \in Conn PROVE /\ Precedes(events'[d], Connected(b), Message(b))
                                    /\ Precedes(events'[d], Message(b), Disconnected(b))
    BY <1>6, <1>8 DEF Inductive, InOrder
  <2> QED BY <1>6, <2>1 DEF Inductive, InOrder
<1>14. \A b \in Conn, e \in Device : gone[b][e] # "no" => gone'[b][e] # "no"
  BY <1>2
<1>15. EntryLost'
  BY <1>1, <1>4, <1>14 DEF Inductive, EntryLost
<1>16. DropsOnlyByOverlap'
  BY <1>4, <1>14 DEF Inductive, DropsOnlyByOverlap
<1> QED BY <1>7, <1>9, <1>10, <1>11, <1>12, <1>13, <1>15, <1>16 DEF Inductive

\* The reader delivers while its connection is not known to have ended.
LEMMA deliverKeeps ==
    ASSUME Inductive, NEW c \in Conn, NEW d \in Device, deliver(c, d)
    PROVE  Inductive'
<1> DEFINE ev == Message(c)
<1>1. /\ index[c][d] = "wire" /\ gone[c][d] = "no" /\ stage[c][d] = "open" /\ Room(d) /\ emit(d, ev)
      /\ index' = [index EXCEPT ![c][d] = "queued"]
      /\ UNCHANGED <<known, hints, dialing, dialer, stage, shut, gone, peers, joined, drops, sightings>>
  BY DEF deliver, Gate, transport
<1>2. /\ index' \in [Conn -> [Device -> Places]]
      /\ \A b \in Conn, e \in Device : index'[b][e] = IF b = c /\ e = d THEN "queued" ELSE index[b][e]
  <2>1. index \in [Conn -> [Device -> Places]] /\ "queued" \in Places
    BY DEF Inductive, TypeOK, Places
  <2> QED BY <1>1, <2>1, SideUpdate
<1>3. ev \in Event /\ ev \notin Range(events[d]) /\ Disconnected(c) \notin Range(events[d])
  BY <1>1, Events DEF Inductive, IndexTrail, EndsOnce
<1>4. /\ events' \in [Device -> Seq(Event)] /\ \A e \in Device : Len(events'[e]) <= EventsBuffer
      /\ \A e \in Device : e # d => events'[e] = events[e]
      /\ Range(events'[d]) = Range(events[d]) \cup {ev}
      /\ NoRepeat(events'[d])
      /\ \A x, y : Precedes(events[d], x, y) /\ x # y /\ (ev = x => y \notin Range(events[d]))
                    => Precedes(events'[d], x, y)
  BY <1>1, <1>3, EmitAdds DEF Inductive
<1>5. TypeOK'
  BY <1>1, <1>2, <1>4 DEF Inductive, TypeOK
<1> HIDE DEF ev
<1>6. \A b \in Conn : /\ Connected(b) # ev /\ Disconnected(b) # ev /\ (Message(b) = ev <=> b = c)
                      /\ Connected(b) # Message(b) /\ Message(b) # Disconnected(b)
  BY Events DEF ev
<1>7. Undialled'
  BY <1>1 DEF Inductive, Undialled
<1>8. ConnectsOnce'
  BY <1>1, <1>4, <1>6 DEF Inductive, ConnectsOnce
<1>9. IndexTrail'
  BY <1>1, <1>2, <1>4, <1>6 DEF Inductive, IndexTrail
<1>10. EndsOnce'
  BY <1>1, <1>4, <1>6 DEF Inductive, EndsOnce
<1>11. InOrder'
  <2>1. ASSUME NEW b \in Conn PROVE /\ Precedes(events'[d], Connected(b), Message(b))
                                    /\ Precedes(events'[d], Message(b), Disconnected(b))
    BY <1>3, <1>4, <1>6 DEF Inductive, InOrder
  <2> QED BY <1>4, <2>1 DEF Inductive, InOrder
<1>12. EntryLost'
  BY <1>1, <1>2 DEF Inductive, EntryLost
<1>13. DropsOnlyByOverlap'
  BY <1>1, <1>2 DEF Inductive, DropsOnlyByOverlap
<1> QED BY <1>5, <1>7, <1>8, <1>9, <1>10, <1>11, <1>12, <1>13 DEF Inductive

\* A receive from the channel of d, and what it does to the channels.
LEMMA TakeRemoves ==
    ASSUME TypeOK, InOrder, NEW d \in Device, events[d] # <<>>,
           events' = [events EXCEPT ![d] = Tail(@)], NEW ev, ev = Head(events[d])
    PROVE  /\ events' \in [Device -> Seq(Event)] /\ \A e \in Device : Len(events'[e]) <= EventsBuffer
           /\ \A e \in Device : e # d => events'[e] = events[e]
           /\ ev \in Event /\ Range(events[d]) = Range(events'[d]) \cup {ev} /\ ev \notin Range(events'[d])
           /\ NoRepeat(events'[d])
           /\ \A x, y : Precedes(events[d], x, y) =>
                 Precedes(events'[d], x, y) /\ (ev = y => x \notin Range(events[d]))
<1>1. events[d] \in Seq(Event) /\ NoRepeat(events[d]) /\ Len(events[d]) \in Nat
  BY DEF TypeOK, InOrder
<1>2. events'[d] = Tail(events[d]) /\ \A e \in Device : e # d => events'[e] = events[e]
  BY DEF TypeOK
<1>3. /\ events'[d] \in Seq(Event) /\ ev \in Event /\ Len(events'[d]) = Len(events[d]) - 1
      /\ Range(events[d]) = Range(events'[d]) \cup {ev}
  BY <1>1, <1>2, RangeTail
<1>4. /\ NoRepeat(events'[d]) /\ ev \notin Range(events'[d])
      /\ \A x, y : Precedes(events[d], x, y) =>
            Precedes(events'[d], x, y) /\ (ev = y => x \notin Range(events[d]))
  BY <1>1, <1>2, OrderTail
<1>5. events' \in [Device -> Seq(Event)] /\ \A e \in Device : Len(events'[e]) <= EventsBuffer
  <2>1. Len(events'[d]) <= EventsBuffer
    BY <1>1, <1>3, PeerAssumption DEF TypeOK
  <2> QED BY <1>2, <1>3, <2>1 DEF TypeOK
<1> QED BY <1>2, <1>3, <1>4, <1>5

LEMMA handleTransportEventKeeps ==
    ASSUME Inductive, NEW d \in Device, handleTransportEvent(d)
    PROVE  Inductive'
<1> DEFINE ev == Head(events[d])
           c == ev.conn
<1>1. /\ events[d] # <<>> /\ events' = [events EXCEPT ![d] = Tail(@)] /\ Handle(d, ev)
      /\ UNCHANGED <<known, hints, dialing, dialer, stage, shut, gone, drops, sightings>>
  BY DEF handleTransportEvent, transport
<1>2. /\ events' \in [Device -> Seq(Event)] /\ \A e \in Device : Len(events'[e]) <= EventsBuffer
      /\ \A e \in Device : e # d => events'[e] = events[e]
      /\ ev \in Event /\ Range(events[d]) = Range(events'[d]) \cup {ev} /\ ev \notin Range(events'[d])
      /\ NoRepeat(events'[d])
      /\ \A x, y : Precedes(events[d], x, y) =>
            Precedes(events'[d], x, y) /\ (ev = y => x \notin Range(events[d]))
  BY <1>1, TakeRemoves DEF Inductive
<1> HIDE DEF ev
<1>3. c \in Conn
  BY <1>2, Events
<1> HIDE DEF c
<1>4. Undialled'
  BY <1>1 DEF Inductive, Undialled
<1>5. EndsOnce'
  BY <1>1, <1>2 DEF Inductive, EndsOnce
<1>6. InOrder'
  BY <1>2 DEF Inductive, InOrder
<1>7. CASE ev = Connected(c) /\ onPeerConnected(d, c)
  <2> DEFINE e == Peer(d)
             at == IF shut[c][d] \/ gone[c][e] # "no" THEN "lost" ELSE "wire"
  <2>1. e \in Device /\ e # d /\ Peer(e) = d /\ \A f \in Device : f = d \/ f = e
    BY Peers
  <2>2. /\ peers' = [peers EXCEPT ![d] = c] /\ joined' = [joined EXCEPT ![d] = @ \cup {c}]
        /\ index' = [index EXCEPT ![c][e] = at]
    BY <1>7 DEF onPeerConnected
  <2> HIDE DEF e
  <2>3. /\ peers' \in [Device -> Conn \cup {None}] /\ joined' \in [Device -> SUBSET Conn]
        /\ peers'[d] = c /\ peers'[e] = peers[e]
        /\ joined'[d] = joined[d] \cup {c} /\ joined'[e] = joined[e]
    BY <1>3, <2>1, <2>2 DEF Inductive, TypeOK
  <2>4. /\ index' \in [Conn -> [Device -> Places]] /\ at \in {"lost", "wire"}
        /\ \A b \in Conn, f \in Device : index'[b][f] = IF b = c /\ f = e THEN at ELSE index[b][f]
    <3>1. index \in [Conn -> [Device -> Places]] /\ at \in Places /\ at \in {"lost", "wire"}
      BY DEF Inductive, TypeOK, Places
    <3> QED BY <1>3, <2>1, <2>2, <3>1, SideUpdate
  <2> HIDE DEF at
  <2>5. TypeOK'
    BY <1>1, <1>2, <2>3, <2>4 DEF Inductive, TypeOK
  <2>6. \A b \in Conn : Message(b) # ev /\ Disconnected(b) # ev /\ (Connected(b) = ev <=> b = c)
    BY <1>3, <1>7, Events
  <2>7. c \notin joined[d] /\ stage[c][d] = "open" /\ Connected(c) \in Range(events[d])
    BY <1>2, <1>3, <1>7 DEF Inductive, ConnectsOnce
  <2>8. index[c][e] = "unsent"
    BY <1>3, <2>1, <2>7 DEF Inductive, IndexTrail
  <2>9. ConnectsOnce'
    <3>1. \A b \in Conn : /\ Connected(b) \in Range(events'[d]) <=> Connected(b) \in Range(events[d]) /\ b # c
                          /\ b \in joined'[d] <=> b \in joined[d] \/ b = c
      BY <1>2, <2>3, <2>6
    <3>2. \A b \in Conn : /\ stage'[b][d] = "open" <=> Connected(b) \in Range(events'[d]) \/ b \in joined'[d]
                          /\ Connected(b) \in Range(events'[d]) => b \notin joined'[d]
      BY <1>1, <2>7, <3>1 DEF Inductive, ConnectsOnce
    <3>3. \A b \in Conn : /\ stage'[b][e] = "open" <=> Connected(b) \in Range(events'[e]) \/ b \in joined'[e]
                          /\ Connected(b) \in Range(events'[e]) => b \notin joined'[e]
      BY <1>1, <1>2, <2>1, <2>3 DEF Inductive, ConnectsOnce
    <3> QED BY <2>1, <3>2, <3>3 DEF ConnectsOnce
  <2>10. \A b \in Conn, f \in Device :
            /\ Message(b) \in Range(events'[f]) <=> Message(b) \in Range(events[f])
            /\ index'[b][f] = "queued" <=> index[b][f] = "queued"
            /\ index'[b][f] = "dropped" => index[b][f] = "dropped"
    BY <1>2, <2>4, <2>6, <2>8
  <2>11. IndexTrail'
    <3>1. \A b \in Conn, f \in Device : index'[b][f] # "unsent" => b \in joined'[Peer(f)]
      <4>1. \A b \in Conn : index'[b][d] # "unsent" => b \in joined'[e]
        BY <2>1, <2>3, <2>4 DEF Inductive, IndexTrail, e
      <4>2. \A b \in Conn : index'[b][e] # "unsent" => b \in joined'[d]
        BY <2>1, <2>3, <2>4 DEF Inductive, IndexTrail
      <4> QED BY <2>1, <4>1, <4>2 DEF e
    <3> QED BY <1>1, <2>10, <3>1 DEF Inductive, IndexTrail
  <2>12. EntryLost'
    <3>1. \A b \in Conn : b \in joined'[e] /\ peers'[e] = None =>
             (\E a \in Conn \ {b} : gone'[a][e] # "no") \/ (gone'[b][e] # "no" /\ index'[b][e] # "queued")
      <4> SUFFICES ASSUME NEW b \in Conn, b \in joined[e], peers[e] = None, index[b][e] = "queued"
                   PROVE  \E a \in Conn \ {b} : gone[a][e] # "no"
        <5>1. EntryLost
          BY DEF Inductive
        <5> QED BY <1>1, <2>1, <2>3, <2>10, <5>1 DEF EntryLost
      <4> QED BY <2>1 DEF Inductive, EntryLost
    <3> QED BY <1>3, <2>1, <2>3, <3>1, NoneIsNoConn DEF EntryLost
  <2>13. DropsOnlyByOverlap'
    BY <1>1, <2>10 DEF Inductive, DropsOnlyByOverlap
  <2> QED BY <1>4, <1>5, <1>6, <2>5, <2>9, <2>11, <2>12, <2>13 DEF Inductive
<1>8. CASE ev = Message(c) /\ handleMessage(d, c)
  <2> DEFINE at == IF peers[d] = None THEN "dropped" ELSE "handled"
  <2>1. index' = [index EXCEPT ![c][d] = at] /\ UNCHANGED <<peers, joined>>
    BY <1>8 DEF handleMessage
  <2>2. /\ index' \in [Conn -> [Device -> Places]] /\ at \in {"dropped", "handled"}
        /\ \A b \in Conn, f \in Device : index'[b][f] = IF b = c /\ f = d THEN at ELSE index[b][f]
    <3>1. index \in [Conn -> [Device -> Places]] /\ at \in Places /\ at \in {"dropped", "handled"}
      BY DEF Inductive, TypeOK, Places
    <3> QED BY <1>3, <2>1, <3>1, SideUpdate
  <2>3. TypeOK'
    BY <1>1, <1>2, <2>1, <2>2 DEF Inductive, TypeOK
  <2>4. \A b \in Conn : Connected(b) # ev /\ Disconnected(b) # ev /\ (Message(b) = ev <=> b = c)
    BY <1>3, <1>8, Events
  <2>5. index[c][d] = "queued" /\ stage[c][d] = "open" /\ c \in joined[Peer(d)]
    BY <1>2, <1>3, <1>8 DEF Inductive, IndexTrail
  <2>6. c \in joined[d]
    <3>1. Connected(c) \notin Range(events[d])
      BY <1>2, <1>3, <1>8 DEF Inductive, InOrder
    <3> QED BY <1>3, <2>5, <3>1 DEF Inductive, ConnectsOnce
  <2>7. ConnectsOnce'
    BY <1>1, <1>2, <2>1, <2>4 DEF Inductive, ConnectsOnce
  <2>8. IndexTrail'
    <3>1. \A b \in Conn, f \in Device : Message(b) \in Range(events'[f]) <=>
              Message(b) \in Range(events[f]) /\ ~(b = c /\ f = d)
      BY <1>2, <2>4
    <3> QED BY <1>1, <2>1, <2>2, <2>5, <3>1 DEF Inductive, IndexTrail
  <2>9. EntryLost'
    BY <1>1, <2>1, <2>2 DEF Inductive, EntryLost
  <2>10. DropsOnlyByOverlap'
    <3>1. peers[d] = None => \E b \in Conn \ {c} : gone[b][d] # "no"
      BY <1>3, <2>5, <2>6 DEF Inductive, EntryLost
    <3>2. index'[c][d] = "dropped" => peers[d] = None
      BY <1>3, <2>2
    <3> HIDE DEF at
    <3> QED BY <1>1, <2>2, <3>1, <3>2 DEF Inductive, DropsOnlyByOverlap
  <2> QED BY <1>4, <1>5, <1>6, <2>3, <2>7, <2>8, <2>9, <2>10 DEF Inductive
<1>9. CASE ev = Disconnected(c) /\ removePeer(d, c)
  <2>1. peers' = [peers EXCEPT ![d] = None] /\ UNCHANGED <<joined, index>>
    BY <1>9 DEF removePeer
  <2>2. TypeOK' /\ \A e \in Device : e # d => peers'[e] = peers[e]
    BY <1>1, <1>2, <2>1 DEF Inductive, TypeOK
  <2>3. \A b \in Conn : Connected(b) # ev /\ Message(b) # ev
    BY <1>3, <1>9, Events
  <2>4. ConnectsOnce' /\ IndexTrail'
    <3>1. \A b \in Conn, f \in Device :
             /\ Message(b) \in Range(events'[f]) <=> Message(b) \in Range(events[f])
             /\ Connected(b) \in Range(events'[f]) <=> Connected(b) \in Range(events[f])
      BY <1>2, <2>3
    <3> QED BY <1>1, <2>1, <3>1 DEF Inductive, ConnectsOnce, IndexTrail
  <2>5. gone[c][d] # "no" /\ index[c][d] # "queued"
    <3>1. Message(c) \notin Range(events[d]) /\ Disconnected(c) \in Range(events[d])
      BY <1>2, <1>3, <1>9 DEF Inductive, InOrder
    <3> QED BY <1>3, <3>1 DEF Inductive, IndexTrail, EndsOnce
  <2>6. EntryLost'
    BY <1>1, <1>3, <2>1, <2>2, <2>5 DEF Inductive, EntryLost
  <2>7. DropsOnlyByOverlap'
    BY <1>1, <2>1 DEF Inductive, DropsOnlyByOverlap
  <2> QED BY <1>4, <1>5, <1>6, <2>2, <2>4, <2>6, <2>7 DEF Inductive
<1> QED BY <1>1, <1>2, <1>7, <1>8, <1>9, Events DEF Handle, c

-----------------------------------------------------------------------------
(* The theorems. *)

LEMMA StepInductive == Inductive /\ [Next]_vars => Inductive'
<1> SUFFICES ASSUME Inductive, [Next]_vars PROVE Inductive'
  OBVIOUS
<1>1. CASE UNCHANGED vars
  <2>1. TypeOK' /\ Undialled' /\ UNCHANGED <<events, peers, index, joined, gone, stage>>
    BY <1>1 DEF vars, transport, Inductive, TypeOK, Undialled
  <2> QED BY <2>1, QuietStep
<1>2. ASSUME NEW d \in Device, Step(d) \/ Failure(d) PROVE Inductive'
  <2>1. CASE handleAnnounce(d) \/ sweep(d) \/ DialFails(d) \/ onPeerDiscovered(d) \/ dialDone(d)
    BY <2>1, DiscoveryKeeps
  <2>2. CASE Dial(d)
    BY <2>2, DialKeeps
  <2>3. CASE handleTransportEvent(d)
    BY <2>3, handleTransportEventKeeps
  <2>4. ASSUME NEW c \in Conn, establish(c, d) \/ establishFails(c, d) \/ closeWith(c, d)
        PROVE  Inductive'
    BY <2>4, ConnectionKeeps
  <2>5. ASSUME NEW c \in Conn, register(c, d) \/ superviseConn(c, d) \/ deliver(c, d)
        PROVE  Inductive'
    BY <2>5, registerKeeps, superviseConnKeeps, deliverKeeps
  <2> QED BY <1>2, <2>1, <2>2, <2>3, <2>4, <2>5 DEF Step, Failure
<1> QED BY <1>1, <1>2 DEF Next

\* The inductive invariant of the connections: the order of a connection's events in the
\* channel, what they say of its stage, and how an entry is lost.
THEOREM PeerInvariant == Spec => []Inductive
BY InitInductive, StepInductive, PTL DEF Spec

\* Type correctness, the events channel within its capacity included.
THEOREM PeerTypes == Spec => []TypeOK
<1>1. Inductive => TypeOK
  BY DEF Inductive
<1> QED BY <1>1, PeerInvariant, PTL

\* The delivery gate of register orders a connection's messages after its PeerConnected.
THEOREM GateOrders == Spec => []GateOrder
<1>1. Inductive => GateOrder
  <2> SUFFICES ASSUME Inductive, NEW d \in Device, NEW i \in 1 .. Len(events[d]),
                      events[d][i].kind = "message", events[d][i].conn \notin joined[d]
               PROVE  \E j \in 1 .. i - 1 : events[d][j] = Connected(events[d][i].conn)
    BY DEF GateOrder
  <2> DEFINE q == events[d]
             c == q[i].conn
  <2>1. q \in Seq(Event) /\ Len(q) \in Nat /\ DOMAIN q = 1 .. Len(q)
    BY DEF Inductive, TypeOK
  <2>2. q[i] \in Event /\ q[i] \in Range(q)
    BY <2>1 DEF Range
  <2>3. c \in Conn /\ q[i] = Message(c)
    BY <2>2, Events
  <2> HIDE DEF q, c
  <2>4. Message(c) \in Range(q) /\ Precedes(q, Connected(c), Message(c))
    BY <2>2, <2>3 DEF Inductive, InOrder, q
  <2>5. Connected(c) \in Range(q)
    BY <2>3, <2>4 DEF Inductive, IndexTrail, ConnectsOnce, q, c
  <2>6. PICK j \in 1 .. Len(q) : q[j] = Connected(c)
    BY <2>1, <2>5 DEF Range
  <2>7. j < i
    BY <2>3, <2>4, <2>6 DEF Precedes, q
  <2>8. j \in 1 .. i - 1
    BY <2>1, <2>6, <2>7 DEF q
  <2> QED BY <2>6, <2>8 DEF q, c
<1> QED BY <1>1, PeerInvariant, PTL

\* handleMessage finds no entry only when another connection of the device has ended.
THEOREM DropsNeedOverlap == Spec => []DropsOnlyByOverlap
<1>1. Inductive => DropsOnlyByOverlap
  BY DEF Inductive
<1> QED BY <1>1, PeerInvariant, PTL
=============================================================================
