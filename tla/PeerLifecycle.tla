--------------------------- MODULE PeerLifecycle ----------------------------
(***************************************************************************)
(* How two devices find each other and come to have each other in e.peers: *)
(* the discovery registry (internal/discovery), onPeerDiscovered and the   *)
(* dial goroutine, the transport's establish, register, reader and         *)
(* supervisor (internal/transport), and the engine's handling of the       *)
(* events they emit. Both devices may dial at once, so there may be two    *)
(* connections between them; e.peers is keyed by device.                   *)
(*                                                                         *)
(* The INDEX stands for the messages of a connection: it is sent once,     *)
(* when the sender's engine handles PeerConnected.                         *)
(***************************************************************************)
EXTENDS Integers, Sequences

CONSTANTS
    Device,        \* the two devices
    EventsBuffer,  \* capacity of the transport's events channel (64 in the code)
    HintsBuffer,   \* capacity of the discovery's events channel (32 in the code)
    MaxDrops,      \* bound: connections that fail, dials included
    MaxSightings   \* bound: first sightings, of both devices together

None == 0

ASSUME PeerAssumption ==
    /\ \E a, b \in Device : a # b /\ Device = {a, b}
    /\ None \notin Device
    /\ EventsBuffer \in Nat \ {0} /\ HintsBuffer \in Nat \ {0}
    /\ MaxDrops \in Nat /\ MaxSightings \in Nat

\* A first sighting is one hint, and a hint causes at most one dial.
Conn == 1 .. MaxSightings
Peer(d) == CHOOSE e \in Device : e # d

VARIABLES
    known,     \* registry.peers has the other device
    hints,     \* discovery events towards the engine
    dialing,   \* e.dialing: no dial, one running, or one whose dialDone is pending
    dialer,    \* per connection: who dialled it (None: not opened)
    stage,     \* per connection and side: how far establish has come
    shut,      \* per connection and side: closeWith has run
    gone,      \* per connection and side: PeerDisconnected was emitted, and in time
    events,    \* the transport's events channel
    peers,     \* e.peers: the connection of the entry for the other device
    index,     \* per connection and receiver: where the INDEX is
    joined,    \* history: connections whose PeerConnected the engine has handled
    drops,     \* failures so far
    sightings  \* first sightings so far

transport == <<dialer, stage, shut, gone>>
vars == <<known, hints, dialing, transport, events, peers, index, joined, drops, sightings>>

Stages == {"none", "handshake", "failed", "registered", "open"}
Places == {"unsent", "wire", "queued", "handled", "dropped", "lost"}

Connected(c) == [kind |-> "connected", conn |-> c]
Message(c) == [kind |-> "message", conn |-> c]
Disconnected(c) == [kind |-> "disconnected", conn |-> c]
Event == [kind : {"connected", "message", "disconnected"}, conn : Conn]

TypeOK ==
    /\ known \in [Device -> BOOLEAN]
    /\ hints \in [Device -> Seq({"discovered", "evicted"})]
    /\ \A d \in Device : Len(hints[d]) <= HintsBuffer
    /\ dialing \in [Device -> {"no", "dialing", "done"}]
    /\ dialer \in [Conn -> Device \cup {None}]
    /\ stage \in [Conn -> [Device -> Stages]]
    /\ shut \in [Conn -> [Device -> BOOLEAN]]
    /\ gone \in [Conn -> [Device -> {"no", "early", "late"}]]
    /\ events \in [Device -> Seq(Event)] /\ \A d \in Device : Len(events[d]) <= EventsBuffer
    /\ peers \in [Device -> Conn \cup {None}]
    /\ index \in [Conn -> [Device -> Places]]
    /\ joined \in [Device -> SUBSET Conn]
    /\ drops \in Nat /\ sightings \in Nat

Init ==
    /\ known = [d \in Device |-> FALSE]
    /\ hints = [d \in Device |-> <<>>]
    /\ dialing = [d \in Device |-> "no"]
    /\ dialer = [c \in Conn |-> None]
    /\ stage = [c \in Conn |-> [d \in Device |-> "none"]]
    /\ shut = [c \in Conn |-> [d \in Device |-> FALSE]]
    /\ gone = [c \in Conn |-> [d \in Device |-> "no"]]
    /\ events = [d \in Device |-> <<>>]
    /\ peers = [d \in Device |-> None]
    /\ index = [c \in Conn |-> [d \in Device |-> "unsent"]]
    /\ joined = [d \in Device |-> {}]
    /\ drops = 0 /\ sightings = 0

-----------------------------------------------------------------------------
(* Discovery: registry.run.                                                 *)

hint(d, h) == hints' = [hints EXCEPT ![d] = Append(@, h)]
HintRoom(d) == Len(hints[d]) < HintsBuffer

\* handleAnnounce: only a first sighting is a hint (the address does not change here).
handleAnnounce(d) ==
    /\ ~known[d] /\ sightings < MaxSightings /\ HintRoom(d)
    /\ known' = [known EXCEPT ![d] = TRUE]
    /\ sightings' = sightings + 1
    /\ hint(d, "discovered")
    /\ UNCHANGED <<dialing, transport, events, peers, index, joined, drops>>

\* sweep: the other device was not heard for longer than the eviction timeout. (An
\* eviction that the bound lets no sighting follow would change nothing.)
sweep(d) ==
    /\ known[d] /\ sightings < MaxSightings /\ HintRoom(d)
    /\ known' = [known EXCEPT ![d] = FALSE]
    /\ hint(d, "evicted")
    /\ UNCHANGED <<dialing, transport, events, peers, index, joined, drops, sightings>>

-----------------------------------------------------------------------------
(* Transport.                                                               *)

Fresh == {c \in Conn : dialer[c] = None}

\* Mutant of Room: one event too many.
Room_OneMore(d) == Len(events[d]) <= EventsBuffer

Room(d) == Len(events[d]) < EventsBuffer
emit(d, ev) == events' = [events EXCEPT ![d] = Append(@, ev)]

\* The dial that runs on d has not opened its connection yet.
Unopened(d) ==
    /\ dialing[d] = "dialing"
    /\ \A c \in Conn : dialer[c] = d => stage[c][d] \notin {"handshake", "registered"}

\* Dial reaches the other device's listener: both sides run establish.
Dial(d) ==
    /\ Unopened(d)
    /\ \E c \in Fresh :
          /\ \A b \in Fresh : c <= b
          /\ dialer' = [dialer EXCEPT ![c] = d]
          /\ stage' = [stage EXCEPT ![c] = [e \in Device |-> "handshake"]]
    /\ UNCHANGED <<known, hints, dialing, shut, gone, events, peers, index, joined, drops, sightings>>

\* Dial returns on the device that dialled c; the goroutine reports dialDone.
Returns(c, d) == dialing' = IF dialer[c] = d THEN [dialing EXCEPT ![d] = "done"] ELSE dialing

DialFails(d) ==
    /\ Unopened(d) /\ drops < MaxDrops
    /\ drops' = drops + 1
    /\ dialing' = [dialing EXCEPT ![d] = "done"]
    /\ UNCHANGED <<known, hints, transport, events, peers, index, joined, sightings>>

\* The network fails under side d, or the other side has ended the connection.
Ended(c, d) == (shut[c][Peer(d)] \/ stage[c][Peer(d)] = "failed") /\ UNCHANGED drops
Breaks(c, d) == Ended(c, d) \/ (drops < MaxDrops /\ drops' = drops + 1)

\* establish on side d: the handshake and the HELLO exchange succeed; newConn starts the
\* reader and the writer, register records the connection and starts its supervisor.
establish(c, d) ==
    /\ stage[c][d] = "handshake"
    /\ stage' = [stage EXCEPT ![c][d] = "registered"]
    /\ UNCHANGED <<known, hints, dialing, dialer, shut, gone, events, peers, index, joined, drops, sightings>>

establishFails(c, d) ==
    /\ stage[c][d] = "handshake"
    /\ Breaks(c, d)
    /\ stage' = [stage EXCEPT ![c][d] = "failed"]
    /\ Returns(c, d)
    /\ UNCHANGED <<known, hints, dialer, shut, gone, events, peers, index, joined, sightings>>

\* The rest of register: PeerConnected goes out, then the delivery gate opens.
register(c, d) ==
    /\ stage[c][d] = "registered" /\ Room(d)
    /\ emit(d, Connected(c))
    /\ stage' = [stage EXCEPT ![c][d] = "open"]
    /\ Returns(c, d)
    /\ UNCHANGED <<known, hints, dialer, shut, gone, peers, index, joined, drops, sightings>>

Established(c, d) == stage[c][d] \in {"registered", "open"}

\* closeWith: a read, write or outbound-overflow error, or EOF.
closeWith(c, d) ==
    /\ Established(c, d) /\ ~shut[c][d]
    /\ Breaks(c, d)
    /\ shut' = [shut EXCEPT ![c][d] = TRUE]
    /\ UNCHANGED <<known, hints, dialing, dialer, stage, gone, events, peers, index, joined, sightings>>

\* Mutant of superviseConn: an event that does not fit is dropped.
superviseConn_Sheds(c, d) ==
    /\ Established(c, d) /\ shut[c][d] /\ gone[c][d] = "no"
    /\ IF Room(d) THEN emit(d, Disconnected(c)) ELSE UNCHANGED events
    /\ gone' = [gone EXCEPT ![c][d] = IF stage[c][d] = "open" THEN "late" ELSE "early"]
    /\ index' = [index EXCEPT ![c][d] = IF @ = "wire" THEN "lost" ELSE @]
    /\ UNCHANGED <<known, hints, dialing, dialer, stage, shut, peers, joined, drops, sightings>>

\* superviseConn: reader and writer have exited, PeerDisconnected goes out. It does not
\* wait for register, so it may overtake PeerConnected.
superviseConn(c, d) ==
    /\ Established(c, d) /\ shut[c][d] /\ gone[c][d] = "no" /\ Room(d)
    /\ emit(d, Disconnected(c))
    /\ gone' = [gone EXCEPT ![c][d] = IF stage[c][d] = "open" THEN "late" ELSE "early"]
    /\ index' = [index EXCEPT ![c][d] = IF @ = "wire" THEN "lost" ELSE @]
    /\ UNCHANGED <<known, hints, dialing, dialer, stage, shut, peers, joined, drops, sightings>>

\* Mutant of Gate: the reader does not wait for register.
Gate_Open(c, d) == Established(c, d)

\* c.registered is closed.
Gate(c, d) == stage[c][d] = "open"

\* Mutant of deliver: a message that does not fit is dropped.
deliver_Sheds(c, d) ==
    /\ index[c][d] = "wire" /\ gone[c][d] = "no" /\ Gate(c, d)
    /\ IF Room(d) THEN emit(d, Message(c)) ELSE UNCHANGED events
    /\ index' = [index EXCEPT ![c][d] = IF Room(d) THEN "queued" ELSE "lost"]
    /\ UNCHANGED <<known, hints, dialing, transport, peers, joined, drops, sightings>>

\* deliver: the reader waits for the gate, then for room in the events channel.
deliver(c, d) ==
    /\ index[c][d] = "wire" /\ gone[c][d] = "no" /\ Gate(c, d) /\ Room(d)
    /\ emit(d, Message(c))
    /\ index' = [index EXCEPT ![c][d] = "queued"]
    /\ UNCHANGED <<known, hints, dialing, transport, peers, joined, drops, sightings>>

-----------------------------------------------------------------------------
(* The engine's loop.                                                       *)

\* onPeerDiscovered: dial unless there is an entry or a dial. PeerEvicted is ignored.
onPeerDiscovered(d) ==
    /\ hints[d] # <<>>
    /\ hints' = [hints EXCEPT ![d] = Tail(@)]
    /\ dialing' = IF Head(hints[d]) = "discovered" /\ peers[d] = None /\ dialing[d] = "no"
                  THEN [dialing EXCEPT ![d] = "dialing"] ELSE dialing
    /\ UNCHANGED <<known, transport, events, peers, index, joined, drops, sightings>>

dialDone(d) ==
    /\ dialing[d] = "done"
    /\ dialing' = [dialing EXCEPT ![d] = "no"]
    /\ UNCHANGED <<known, hints, transport, events, peers, index, joined, drops, sightings>>

\* onPeerConnected: addPeer replaces the entry, whatever it was; the INDEX is sent on the
\* new connection. The roots of the two HELLOs differ here.
onPeerConnected(d, c) ==
    /\ peers' = [peers EXCEPT ![d] = c]
    /\ joined' = [joined EXCEPT ![d] = @ \cup {c}]
    /\ index' = [index EXCEPT ![c][Peer(d)] =
                    IF shut[c][d] \/ gone[c][Peer(d)] # "no" THEN "lost" ELSE "wire"]

\* removePeer: by device, so it removes the entry of another connection as well.
removePeer(d, c) ==
    /\ peers' = [peers EXCEPT ![d] = None]
    /\ UNCHANGED <<joined, index>>

\* handleMessage: dropped when the device has no entry.
handleMessage(d, c) ==
    /\ index' = [index EXCEPT ![c][d] = IF peers[d] = None THEN "dropped" ELSE "handled"]
    /\ UNCHANGED <<peers, joined>>

\* The case of the event at the head of the channel.
Handle(d, ev) ==
    \/ ev.kind = "connected" /\ onPeerConnected(d, ev.conn)
    \/ ev.kind = "message" /\ handleMessage(d, ev.conn)
    \/ ev.kind = "disconnected" /\ removePeer(d, ev.conn)

\* Mutant of handleTransportEvent: the loop dials by itself and takes no event meanwhile.
handleTransportEvent_Dials(d) ==
    /\ events[d] # <<>> /\ dialing[d] # "dialing"
    /\ events' = [events EXCEPT ![d] = Tail(@)]
    /\ Handle(d, Head(events[d]))
    /\ UNCHANGED <<known, hints, dialing, transport, drops, sightings>>

\* The loop takes an event; it never waits for a dial.
handleTransportEvent(d) ==
    /\ events[d] # <<>>
    /\ events' = [events EXCEPT ![d] = Tail(@)]
    /\ Handle(d, Head(events[d]))
    /\ UNCHANGED <<known, hints, dialing, transport, drops, sightings>>

-----------------------------------------------------------------------------
\* What the daemons do by themselves: every goroutine runs, an announcement is heard, the
\* end of a connection on one side reaches the other.
Step(d) ==
    \/ handleAnnounce(d) \/ Dial(d) \/ onPeerDiscovered(d) \/ dialDone(d)
    \/ handleTransportEvent(d)
    \/ \E c \in Conn :
          \/ establish(c, d) \/ register(c, d) \/ superviseConn(c, d) \/ deliver(c, d)
          \/ Ended(c, d) /\ (establishFails(c, d) \/ closeWith(c, d))

\* What the network does to them.
Failure(d) ==
    \/ sweep(d) \/ DialFails(d)
    \/ \E c \in Conn : establishFails(c, d) \/ closeWith(c, d)

Next == \E d \in Device : Step(d) \/ Failure(d)

Spec == Init /\ [][Next]_vars

\* Each device keeps running. Every step uses up something the bounds limit, so no step
\* of a device can starve another one of it.
FairSpec == Spec /\ \A d \in Device : WF_vars(Step(d))

-----------------------------------------------------------------------------
(* Properties. *)

\* The delivery gate: a message of a connection reaches the engine only after that
\* connection's PeerConnected, though reader and register run concurrently.
GateOrder ==
    \A d \in Device : \A i \in 1 .. Len(events[d]) :
        events[d][i].kind = "message" =>
            \/ events[d][i].conn \in joined[d]
            \/ \E j \in 1 .. i - 1 : events[d][j] = Connected(events[d][i].conn)

\* handleMessage drops an INDEX for want of an entry only when another connection of the
\* same device has ended: one connection by itself never loses its INDEX.
DropsOnlyByOverlap ==
    \A c \in Conn, d \in Device :
        index[c][d] = "dropped" => \E b \in Conn \ {c} : gone[b][d] # "no"

\* While nothing fails, discovery alone brings the devices together for good: each has
\* an entry for the other and has handled its INDEX, however their dials cross.
FirstContact ==
    <>[](drops > 0 \/ \A d \in Device :
            peers[d] # None /\ \E c \in Conn : index[c][d] = "handled")

\* No dial hangs, for good: the goroutine that dials waits for room in the events channel,
\* which only the loop makes, and the loop never waits for the dial.
DialSettles == <>[](\A d \in Device : dialing[d] = "no")

\* An entry whose connection is closed is removed in the end, unless PeerDisconnected
\* overtook PeerConnected: superviseConn does not wait for register to have emitted.
DeadEntriesReaped ==
    <>[](\A c \in Conn, d \in Device :
            peers[d] = c /\ shut[c][d] => gone[c][d] = "early")
=============================================================================
