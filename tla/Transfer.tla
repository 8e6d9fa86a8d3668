------------------------------ MODULE Transfer ------------------------------
(***************************************************************************)
(* The block transfer of internal/reconcile/transfer.go: pullers that ask  *)
(* the other device for one block at a time, its server, the table that    *)
(* routes a RESPONSE to the request waiting for it, timeouts, lost         *)
(* connections, files that change on either side meanwhile.                *)
(*                                                                         *)
(* A puller belongs to a peerState and so to a connection. Current is the  *)
(* one e.peers holds; the others belong to peerStates that a later         *)
(* connection of the same device has replaced without cancelling them.     *)
(***************************************************************************)
EXTENDS Integers, Sequences

CONSTANTS
    Path,             \* the files
    Content,          \* their possible contents: sequences of bytes
    Puller,           \* peerStates of the receiving side, named by their connection
    Current,          \* the one in e.peers
    BlockSize,        \* 32 KiB in the code
    MaxChunkLen,      \* 16 MiB in the code
    ServeQueueDepth,  \* capacity of serveQ (64 in the code)
    MaxFetches,       \* bound: fetches, of all pullers together
    MaxEdits,         \* bound: user edits, on both sides together
    Absent

\* A request, an answer to one, and the state of one materialise.
Requests == [by : Puller, id : Nat \ {0}, path : Path, off : Nat, len : Nat]
Answers == [req : Requests, ok : BOOLEAN, data : Seq(Int)]
Ended == {"ok", "failed"}
Pulls == [path : Path, want : Content, phase : {"check", "copy", "net", "wait"} \cup Ended,
          from : Path, got : Seq(Int), blk : Nat, req : Requests \cup {Absent},
          ch : Answers \cup {Absent}, clean : BOOLEAN]

ASSUME TransferAssumption ==
    /\ Current \in Puller
    /\ Content \subseteq Seq(Int)
    /\ Absent \notin Content /\ Absent \notin Answers /\ Absent \notin Pulls
    /\ Absent \notin [path : Path, want : Content, state : {"busy"} \cup Ended]
    /\ BlockSize \in Nat \ {0}
    /\ MaxChunkLen \in Nat /\ BlockSize <= MaxChunkLen
    /\ ServeQueueDepth \in Nat
    /\ MaxFetches \in Nat
    /\ MaxEdits \in Nat

VARIABLES
    src,       \* the serving side's files
    dst,       \* the receiving side's files
    pull,      \* per puller: Absent, or its current or last materialise
    nextReq,   \* ps.nextReq: the last request id, counted per peerState
    fetches,   \* fetches begun
    toServer,  \* requests on the wire and in the server's events channel
    serveQ,    \* ps.serveQ of the serving side's peerState
    toClient,  \* responses on the wire and in the client's events channel
    alive,     \* connections that are up
    replyOn,   \* the connection of the peerState the server has for this device
    peered,    \* the receiving side still has the Current peerState
    serving,   \* the serving side still has its peerState
    edits      \* user edits made

net == <<toServer, serveQ, toClient>>
conns == <<alive, replyOn, peered, serving>>
vars == <<src, dst, pull, nextReq, fetches, net, conns, edits>>

TypeOK ==
    /\ src \in [Path -> Content \cup {Absent}] /\ dst \in [Path -> Content \cup {Absent}]
    /\ pull \in [Puller -> Pulls \cup {Absent}]
    /\ nextReq \in [Puller -> Nat]
    /\ toServer \in [Puller -> Seq(Requests)]
    /\ serveQ \in Seq(Requests) /\ Len(serveQ) <= ServeQueueDepth
    /\ toClient \in Seq(Answers)
    /\ alive \subseteq Puller /\ replyOn \in Puller
    /\ peered \in BOOLEAN /\ serving \in BOOLEAN
    /\ fetches \in Nat /\ edits \in Nat

-----------------------------------------------------------------------------
(* Blocks. *)

\* Mutant of numBlocks: a partial last block is forgotten.
numBlocks_Floor(size) == size \div BlockSize

numBlocks(size) == (size + BlockSize - 1) \div BlockSize

\* The length the puller asks for at an offset of a file of that size.
BlockLen(size, off) ==
    LET clamp(n) == IF n > MaxChunkLen THEN MaxChunkLen ELSE n
    IN  clamp(IF size - off < BlockSize THEN size - off ELSE BlockSize)

validateRequest(len, off, size) ==
    /\ len # 0 /\ len <= MaxChunkLen
    /\ off <= size /\ off + len <= size

Chunk(c, off, len) == SubSeq(c, off + 1, off + len)

-----------------------------------------------------------------------------
(* Messages. A response names the whole request for the properties; the     *)
(* code reads no more of it than the id.                                    *)

Request(s, id, p, off, len) == [by |-> s, id |-> id, path |-> p, off |-> off, len |-> len]
Answer(r, ok, data) == [req |-> r, ok |-> ok, data |-> data]
Decline(r) == Answer(r, FALSE, <<>>)

\* Conn.Send of a response: nothing is sent on a closed connection.
Reply(r) == IF replyOn \in alive THEN Append(toClient, r) ELSE toClient

Running(s) == pull[s] # Absent /\ pull[s].phase \notin Ended
Waiting(s) == Running(s) /\ pull[s].phase = "wait"

\* Mutant of NextRequest: the id is the number of the block.
NextRequest_PerFile(s) ==
    LET x == pull[s]
        off == x.blk * BlockSize
    IN  Request(s, x.blk + 1, x.path, off, BlockLen(Len(x.want), off))

\* What the puller asks for next.
NextRequest(s) ==
    LET x == pull[s]
        off == x.blk * BlockSize
    IN  Request(s, nextReq[s] + 1, x.path, off, BlockLen(Len(x.want), off))

Ends(s, how) == pull' = [pull EXCEPT ![s].phase = how, ![s].ch = Absent]

-----------------------------------------------------------------------------
Init ==
    /\ src \in [Path -> Content]
    /\ dst = [p \in Path |-> Absent]
    /\ pull = [s \in Puller |-> Absent]
    /\ nextReq = [s \in Puller |-> 0]
    /\ fetches = 0
    /\ toServer = [s \in Puller |-> <<>>]
    /\ serveQ = <<>>
    /\ toClient = <<>>
    /\ alive = Puller
    /\ replyOn \in Puller
    /\ peered = TRUE
    /\ serving = TRUE
    /\ edits = 0

\* The other side advertises what it has at p and pullLoop takes the task; an edit that
\* comes in between is one that comes right after.
Begin(s) ==
    /\ ~Running(s)
    /\ fetches < MaxFetches
    /\ fetches' = fetches + 1
    /\ \E p \in {q \in Path : src[q] # Absent} :
          pull' = [pull EXCEPT ![s] =
                    [path |-> p, want |-> src[p], phase |-> "check", from |-> p, got |-> <<>>,
                     blk |-> 0, req |-> Absent, ch |-> Absent, clean |-> TRUE]]
    /\ UNCHANGED <<src, dst, nextReq, net, conns, edits>>

\* materialise: nothing to do, or another file of that content to copy, or the network.
\* localSource only looks at recorded files and takes the first, so it may miss one.
Check(s) ==
    /\ Running(s) /\ pull[s].phase = "check"
    /\ \/ dst[pull[s].path] = pull[s].want /\ Ends(s, "ok")
       \/ /\ dst[pull[s].path] # pull[s].want
          /\ \/ pull' = [pull EXCEPT ![s].phase = "net"]
             \/ \E q \in Path \ {pull[s].path} :
                   /\ dst[q] = pull[s].want
                   /\ pull' = [pull EXCEPT ![s].phase = "copy", ![s].from = q]
    /\ UNCHANGED <<src, dst, nextReq, fetches, net, conns, edits>>

\* Local reuse: the source may have changed since it was hashed; then fetch instead.
Copy(s) ==
    /\ Running(s) /\ pull[s].phase = "copy"
    /\ IF dst[pull[s].from] = pull[s].want
       THEN dst' = [dst EXCEPT ![pull[s].path] = pull[s].want] /\ Ends(s, "ok")
       ELSE pull' = [pull EXCEPT ![s].phase = "net"] /\ UNCHANGED dst
    /\ UNCHANGED <<src, nextReq, fetches, net, conns, edits>>

\* requestChunk up to its select: a fresh id, an entry in ps.resp, Send.
requestChunk(s) ==
    /\ Running(s) /\ pull[s].phase = "net"
    /\ pull[s].blk < numBlocks(Len(pull[s].want))
    /\ nextReq' = [nextReq EXCEPT ![s] = NextRequest(s).id]
    /\ IF s \in alive
       THEN /\ toServer' = [toServer EXCEPT ![s] = Append(@, NextRequest(s))]
            /\ pull' = [pull EXCEPT ![s].phase = "wait", ![s].req = NextRequest(s)]
       ELSE UNCHANGED toServer /\ Ends(s, "failed")
    /\ UNCHANGED <<src, dst, fetches, serveQ, toClient, conns, edits>>

\* The puller takes the answer out of its channel: fetchOverWire goes on or gives up.
Receive(s) ==
    /\ Waiting(s) /\ pull[s].ch # Absent
    /\ LET r == pull[s].ch
       IN  IF r.ok /\ Len(r.data) = pull[s].req.len
           THEN pull' = [pull EXCEPT ![s].phase = "net", ![s].blk = @ + 1,
                                     ![s].got = @ \o r.data, ![s].ch = Absent]
           ELSE Ends(s, "failed")
    /\ UNCHANGED <<src, dst, nextReq, fetches, net, conns, edits>>

\* Mutant of GiveUp: requestChunk has no timer.
GiveUp_NoTimer(s) ==
    /\ Waiting(s) /\ s \notin alive
    /\ Ends(s, "failed")
    /\ UNCHANGED <<src, dst, nextReq, fetches, net, conns, edits>>

\* requestChunk gives up: the timer, the end of its connection, or its cancelled context.
\* It may do so with the answer already in the channel.
GiveUp(s) ==
    /\ Waiting(s)
    /\ Ends(s, "failed")
    /\ UNCHANGED <<src, dst, nextReq, fetches, net, conns, edits>>

\* Mutant of Verify: the hash is not compared.
Verify_NoHash(s) ==
    /\ Running(s) /\ pull[s].phase = "net"
    /\ pull[s].blk = numBlocks(Len(pull[s].want))
    /\ dst' = [dst EXCEPT ![pull[s].path] = pull[s].got] /\ Ends(s, "ok")
    /\ UNCHANGED <<src, nextReq, fetches, net, conns, edits>>

\* atomicWriteVerify after the last block: the hash of what was written, then the rename.
Verify(s) ==
    /\ Running(s) /\ pull[s].phase = "net"
    /\ pull[s].blk = numBlocks(Len(pull[s].want))
    /\ IF pull[s].got = pull[s].want
       THEN dst' = [dst EXCEPT ![pull[s].path] = pull[s].want] /\ Ends(s, "ok")
       ELSE pull' = [pull EXCEPT ![s].phase = "failed"] /\ UNCHANGED dst
    /\ UNCHANGED <<src, nextReq, fetches, net, conns, edits>>

PullStep(s) == Check(s) \/ Copy(s) \/ requestChunk(s) \/ Receive(s) \/ GiveUp(s) \/ Verify(s)

-----------------------------------------------------------------------------
\* Mutant of Queueable: one request too many.
Queueable_OneMore == Len(serveQ) <= ServeQueueDepth

\* The send of routeRequest does not block.
Queueable == Len(serveQ) < ServeQueueDepth

\* routeRequest, on the serving side's loop: queue it, or decline when the queue is full.
routeRequest(s) ==
    /\ toServer[s] # <<>>
    /\ toServer' = [toServer EXCEPT ![s] = Tail(@)]
    /\ LET r == Head(toServer[s])
       IN  \/ ~serving /\ UNCHANGED <<serveQ, toClient>>
           \/ /\ serving
              /\ IF Queueable
                 THEN serveQ' = Append(serveQ, r) /\ UNCHANGED toClient
                 ELSE toClient' = Reply(Decline(r)) /\ UNCHANGED serveQ
    /\ UNCHANGED <<src, dst, pull, nextReq, fetches, conns, edits>>

\* serveRequest: stat, validate against the current size, read. A file that changes
\* between the stat and the read answers as it would have before or after.
Served(r) ==
    IF src[r.path] # Absent /\ validateRequest(r.len, r.off, Len(src[r.path]))
    THEN Answer(r, TRUE, Chunk(src[r.path], r.off, r.len))
    ELSE Decline(r)

serveRequest ==
    /\ serving /\ serveQ # <<>>
    /\ serveQ' = Tail(serveQ)
    /\ toClient' = Reply(Served(Head(serveQ)))
    /\ UNCHANGED <<src, dst, pull, nextReq, fetches, toServer, conns, edits>>

\* routeResponse, on the receiving side's loop: to the waiter with that id in the table
\* of the peerState e.peers holds, if there is one and its channel is empty.
Waiter(r) ==
    {s \in {Current} : peered /\ Waiting(s) /\ pull[s].req.id = r.req.id /\ pull[s].ch = Absent}

routeResponse ==
    /\ toClient # <<>>
    /\ toClient' = Tail(toClient)
    /\ LET r == Head(toClient)
       IN  pull' = [s \in Puller |-> IF s \in Waiter(r) THEN [pull[s] EXCEPT !.ch = r]
                                     ELSE pull[s]]
    /\ UNCHANGED <<src, dst, nextReq, fetches, toServer, serveQ, conns, edits>>

-----------------------------------------------------------------------------
\* A connection ends; what it still carried is lost.
Close(s) ==
    /\ s \in alive
    /\ alive' = alive \ {s}
    /\ toServer' = [toServer EXCEPT ![s] = <<>>]
    /\ toClient' = IF s = replyOn THEN <<>> ELSE toClient
    /\ UNCHANGED <<src, dst, pull, nextReq, fetches, serveQ, replyOn, peered, serving, edits>>

\* removePeer on either side, on the end of any connection of that device.
removePeer ==
    /\ alive # Puller
    /\ \/ peered /\ peered' = FALSE /\ UNCHANGED <<serving, serveQ>>
       \/ serving /\ serving' = FALSE /\ serveQ' = <<>> /\ UNCHANGED peered
    /\ UNCHANGED <<src, dst, pull, nextReq, fetches, toServer, toClient, alive, replyOn, edits>>

\* The users of the two sides.
EditSource ==
    /\ edits < MaxEdits
    /\ edits' = edits + 1
    /\ \E p \in Path, c \in Content \cup {Absent} :
          /\ c # src[p]
          /\ src' = [src EXCEPT ![p] = c]
          /\ pull' = [s \in Puller |-> IF pull[s] # Absent /\ pull[s].path = p
                                       THEN [pull[s] EXCEPT !.clean = FALSE] ELSE pull[s]]
    /\ UNCHANGED <<dst, nextReq, fetches, net, conns>>

EditDestination ==
    /\ edits < MaxEdits
    /\ edits' = edits + 1
    /\ \E p \in Path, c \in Content \cup {Absent} :
          c # dst[p] /\ dst' = [dst EXCEPT ![p] = c]
    /\ UNCHANGED <<src, pull, nextReq, fetches, net, conns>>

Next ==
    \/ \E s \in Puller :
          \/ Begin(s) \/ Check(s) \/ Copy(s) \/ requestChunk(s) \/ Receive(s)
          \/ GiveUp(s) \/ Verify(s) \/ routeRequest(s) \/ Close(s)
    \/ serveRequest \/ routeResponse \/ removePeer \/ EditSource \/ EditDestination

Spec == Init /\ [][Next]_vars

\* The puller goroutine and its timer run. Nothing is assumed of the network, of the
\* server or of the engine loops.
FairSpec == Spec /\ \A s \in Puller : WF_vars(PullStep(s))
-----------------------------------------------------------------------------
(* Properties. *)

\* A puller's fetch as FileFetch sees it.
JobOf(x) ==
    IF x = Absent THEN Absent
    ELSE [path |-> x.path, want |-> x.want, state |-> IF x.phase \in Ended THEN x.phase ELSE "busy"]

Fetch == INSTANCE FileFetch WITH job <- [s \in Puller |-> JobOf(pull[s])]

\* The transfer keeps the promise of FileFetch: whatever is lost, late, misrouted or
\* changed meanwhile, materialise installs exactly the wanted bytes in one step or leaves
\* the destination alone.
ImplementsFileFetch == Fetch!Spec

\* Every fetch ends, whatever the network, the server and the engine loops do or fail to do.
FetchesEnd == \A s \in Puller : Running(s) ~> ~Running(s)

\* A late answer is not taken for the answer to a later request of the same peerState:
\* what the table hands to a waiter is the answer to the request it waits for, unless
\* it was meant for the puller of a replaced peerState, which counts from 1 as well.
NoStaleAnswer ==
    \A s \in Puller :
        Waiting(s) /\ pull[s].ch # Absent /\ pull[s].ch.req.by = s
            => pull[s].ch.req = pull[s].req

\* The blocks fetchOverWire asks for tile the file: if the source kept the wanted bytes
\* and no other puller shares the reply path, what is assembled passes the hash check,
\* however many requests of earlier fetches timed out and were answered late.
CleanFetchVerifies ==
    \A s \in Puller :
        /\ Running(s) /\ pull[s].phase = "net" /\ pull[s].clean
        /\ pull[s].blk = numBlocks(Len(pull[s].want))
        /\ \A t \in Puller \ {s} : nextReq[t] = 0
        => pull[s].got = pull[s].want
=============================================================================
