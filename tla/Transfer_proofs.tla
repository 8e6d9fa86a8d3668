-------------------------- MODULE Transfer_proofs ---------------------------
(***************************************************************************)
(* The block transfer for any files, block size, queue depth, number of    *)
(* pullers, fetches and edits: type correctness, NoStaleAnswer,            *)
(* CleanFetchVerifies, and that it implements FileFetch.                   *)
(*                                                                         *)
(* NoStaleAnswer needs that the ids of what is still under way were issued *)
(* (IdsIssued), so that the next id is fresh, and that a puller waits with *)
(* its last id (WaitsForLast): then whatever under way carries the id that *)
(* a puller waits for is that very request (IdsNameRequests).              *)
(* CleanFetchVerifies needs in addition that answers under way to the      *)
(* request a clean fetch waits for hold the wanted block (AnswersClean)    *)
(* and that what it has assembled is a prefix of the file (Assembled).     *)
(***************************************************************************)
EXTENDS Transfer, QueueLemmas

\* The requests that some message or channel still speaks of.
Answered == {a.req : a \in Range(toClient)}
Held(s, r) == pull[s] # Absent /\ pull[s].ch # Absent /\ pull[s].ch.req = r
UnderWay(r) ==
    \/ \E t \in Puller : r \in Range(toServer[t]) \/ Held(t, r)
    \/ r \in Range(serveQ)
    \/ r \in Answered

\* A channel holds an answer only while its puller waits, and one with the id it asked with.
ChannelInUse ==
    \A s \in Puller : pull[s] # Absent /\ pull[s].ch # Absent =>
        pull[s].phase = "wait" /\ pull[s].ch.req.id = pull[s].req.id

\* Ids are handed out in order.
IdsIssued == \A r \in Requests : UnderWay(r) => r.id <= nextReq[r.by]

\* A puller waits for the answer to its last request, which is for its next block.
WaitsForLast ==
    \A s \in Puller : Waiting(s) =>
        /\ pull[s].blk < numBlocks(Len(pull[s].want))
        /\ LET off == pull[s].blk * BlockSize
           IN  pull[s].req = Request(s, nextReq[s], pull[s].path, off,
                                     BlockLen(Len(pull[s].want), off))

\* Among what is under way, the id a puller waits for names its request.
IdsNameRequests ==
    \A s \in Puller, r \in Requests :
        Waiting(s) /\ UnderWay(r) /\ r.by = s /\ r.id = nextReq[s] => r = pull[s].req

\* The source of a clean fetch has not changed since it began.
SourceKept == \A s \in Puller : pull[s] # Absent /\ pull[s].clean => src[pull[s].path] = pull[s].want

\* Every answer to the request a clean fetch waits for carries the wanted bytes.
AnswersClean ==
    \A s \in Puller, a \in Answers :
        /\ Waiting(s) /\ pull[s].clean
        /\ a \in Range(toClient) \/ a = pull[s].ch
        /\ a.req = pull[s].req /\ a.ok
        => a.data = Chunk(pull[s].want, a.req.off, a.req.len)

\* No other puller has asked for anything.
Alone(s) == \A t \in Puller \ {s} : nextReq[t] = 0

\* How much of c the first n blocks are.
Upto(c, n) == IF n * BlockSize < Len(c) THEN n * BlockSize ELSE Len(c)

\* What a clean fetch has assembled is the file up to its next block.
Assembled ==
    \A s \in Puller :
        Running(s) /\ pull[s].clean /\ Alone(s)
            => pull[s].got = SubSeq(pull[s].want, 1, Upto(pull[s].want, pull[s].blk))

Inductive ==
    /\ TypeOK /\ ChannelInUse /\ IdsIssued /\ WaitsForLast /\ IdsNameRequests
    /\ SourceKept /\ AnswersClean /\ Assembled

-----------------------------------------------------------------------------
(* Blocks. *)

\* The blocks of a file end with it: every block but those at or after the last byte is
\* counted, and none of them is missing.
LEMMA BlocksCover ==
    ASSUME NEW n \in Nat
    PROVE  /\ numBlocks(n) \in Nat
           /\ \A k \in Nat : k < numBlocks(n) => k * BlockSize < n
           /\ numBlocks(n) * BlockSize >= n
<1> DEFINE m == n + BlockSize - 1
           q == numBlocks(n)
<1>1. m \in Nat /\ BlockSize \in Nat /\ BlockSize > 0
  BY TransferAssumption
<1>2. q = m \div BlockSize
  BY DEF numBlocks
<1>3. q \in Nat /\ m % BlockSize \in 0 .. BlockSize - 1 /\ m = (BlockSize * q) + (m % BlockSize)
  BY <1>1, <1>2
<1>4. \A k \in Nat : k < q => k * BlockSize < n
  <2> SUFFICES ASSUME NEW k \in Nat, k < q PROVE k * BlockSize < n
    OBVIOUS
  <2>1. PICK j \in Nat : q = k + 1 + j
    <3>1. q - k - 1 \in Nat /\ q = k + 1 + (q - k - 1)
      BY <1>3
    <3> QED BY <3>1
  <2>2. BlockSize * q = BlockSize * k + BlockSize + BlockSize * j /\ BlockSize * j \in Nat
    BY <2>1, <1>1
  <2>3. k * BlockSize = BlockSize * k /\ BlockSize * k \in Nat
    BY <1>1
  <2> QED BY <2>2, <2>3, <1>3, <1>1
<1>5. q * BlockSize >= n
  <2>1. q * BlockSize = BlockSize * q /\ BlockSize * q \in Nat
    BY <1>1, <1>3
  <2> QED BY <2>1, <1>1, <1>3
<1> QED BY <1>3, <1>4, <1>5

\* A block that is asked for is not empty and ends where the next one begins, or with the
\* file; a file is assembled once its last block is.
LEMMA BlocksTile ==
    ASSUME NEW c \in Content, NEW k \in Nat
    PROVE  /\ k * BlockSize \in Nat /\ Len(c) \in Nat
           /\ k < numBlocks(Len(c)) =>
                 /\ BlockLen(Len(c), k * BlockSize) \in Nat \ {0}
                 /\ Upto(c, k) = k * BlockSize /\ k * BlockSize <= Len(c)
                 /\ Upto(c, k + 1) = k * BlockSize + BlockLen(Len(c), k * BlockSize)
                 /\ Upto(c, k + 1) <= Len(c)
           /\ k = numBlocks(Len(c)) => Upto(c, k) = Len(c)
<1>1. Len(c) \in Nat /\ BlockSize \in Nat \ {0} /\ MaxChunkLen \in Nat /\ BlockSize <= MaxChunkLen
  BY TransferAssumption
<1> DEFINE off == k * BlockSize
           n == Len(c)
<1>2. off \in Nat /\ (k + 1) * BlockSize = off + BlockSize
  BY <1>1
<1>3. k < numBlocks(n) => off < n
  BY <1>1, BlocksCover
<1>4. k = numBlocks(n) => off >= n
  BY <1>1, BlocksCover
<1>5. /\ Upto(c, k) = IF off < n THEN off ELSE n
      /\ Upto(c, k + 1) = IF off + BlockSize < n THEN off + BlockSize ELSE n
  BY <1>2 DEF Upto
<1>6. BlockLen(n, off) = IF n - off < BlockSize THEN n - off ELSE BlockSize
  BY <1>1, <1>2 DEF BlockLen
<1> HIDE DEF off, n
<1>7. n \in Nat
  BY <1>1 DEF n
<1>8. off < n =>
        /\ BlockLen(n, off) \in Nat \ {0}
        /\ Upto(c, k) = off /\ off <= n
        /\ Upto(c, k + 1) = off + BlockLen(n, off)
        /\ Upto(c, k + 1) <= n
  BY <1>1, <1>2, <1>5, <1>6, <1>7
<1>9. off >= n => Upto(c, k) = n
  BY <1>2, <1>5, <1>7
<1> QED BY <1>2, <1>3, <1>4, <1>7, <1>8, <1>9 DEF off, n

\* A prefix and the piece that follows it make the longer prefix.
LEMMA PrefixGrows ==
    ASSUME NEW c \in Seq(Int), NEW a \in Nat, NEW b \in Nat, a <= b, b <= Len(c)
    PROVE  SubSeq(c, 1, a) \o SubSeq(c, a + 1, b) = SubSeq(c, 1, b)
<1>1. PICK u \in Seq(Int) : /\ u = SubSeq(c, 1, a) /\ Len(u) = a
                            /\ \A i \in 1 .. a : u[i] = c[i]
  <2>1. SubSeq(c, 1, a) \in Seq(Int) /\ Len(SubSeq(c, 1, a)) = a
    BY Piece
  <2>2. \A i \in 1 .. a : SubSeq(c, 1, a)[i] = c[i]
    OBVIOUS
  <2> QED BY <2>1, <2>2, Zenon
<1>2. PICK v \in Seq(Int) : /\ v = SubSeq(c, a + 1, b) /\ Len(v) = b - a
                            /\ \A i \in 1 .. b - a : v[i] = c[a + i]
  <2>1. SubSeq(c, a + 1, b) \in Seq(Int) /\ Len(SubSeq(c, a + 1, b)) = b - a
    BY Piece
  <2>2. \A i \in 1 .. b - a : SubSeq(c, a + 1, b)[i] = c[a + i]
    OBVIOUS
  <2> QED BY <2>1, <2>2, Zenon
<1>3. PICK w \in Seq(Int) : /\ w = SubSeq(c, 1, b) /\ Len(w) = b
                            /\ \A i \in 1 .. b : w[i] = c[i]
  <2>1. SubSeq(c, 1, b) \in Seq(Int) /\ Len(SubSeq(c, 1, b)) = b
    BY Piece
  <2>2. \A i \in 1 .. b : SubSeq(c, 1, b)[i] = c[i]
    OBVIOUS
  <2> QED BY <2>1, <2>2, Zenon
<1>4. \A i \in 1 .. Len(u) : w[i] = u[i]
  BY <1>1, <1>3
<1>5. ASSUME NEW i \in 1 .. Len(v) PROVE w[Len(u) + i] = v[i]
  <2>1. Len(u) + i \in 1 .. b /\ Len(u) + i = a + i /\ i \in 1 .. b - a
    BY <1>1, <1>2
  <2> QED BY <1>2, <1>3, <2>1, Zenon
<1>6. Len(w) = Len(u) + Len(v)
  BY <1>1, <1>2, <1>3
<1>7. u \o v = w
  BY <1>4, <1>5, <1>6, Pieces
<1> QED BY <1>1, <1>2, <1>3, <1>7

\* The whole of a file is its longest prefix, and its shortest one is empty.
LEMMA WholePrefix ==
    ASSUME NEW c \in Seq(Int)
    PROVE  SubSeq(c, 1, Len(c)) = c /\ SubSeq(c, 1, 0) = <<>>
OBVIOUS

-----------------------------------------------------------------------------
(* What kinds of steps keep. *)

\* A request that is under way is a request.
LEMMA Typed ==
    ASSUME TypeOK
    PROVE  /\ \A t \in Puller : \A r \in Range(toServer[t]) : r \in Requests
           /\ \A r \in Range(serveQ) : r \in Requests
           /\ \A a \in Range(toClient) : a \in Answers /\ a.req \in Requests
           /\ \A s \in Puller : pull[s] # Absent =>
                 /\ pull[s] \in Pulls
                 /\ pull[s].ch # Absent => pull[s].ch \in Answers /\ pull[s].ch.req \in Requests
<1>1. \A t \in Puller : \A r \in Range(toServer[t]) : r \in Requests
  BY RangeType DEF TypeOK
<1>2. \A r \in Range(serveQ) : r \in Requests
  BY RangeType DEF TypeOK
<1>3. \A a \in Range(toClient) : a \in Answers /\ a.req \in Requests
  <2>1. \A a \in Range(toClient) : a \in Answers
    BY RangeType DEF TypeOK
  <2> QED BY <2>1 DEF Answers
<1>4. ASSUME NEW s \in Puller, pull[s] # Absent PROVE pull[s] \in Pulls
  BY <1>4 DEF TypeOK
<1>5. ASSUME NEW s \in Puller, pull[s] # Absent, pull[s].ch # Absent
      PROVE  pull[s].ch \in Answers /\ pull[s].ch.req \in Requests
  BY <1>4, <1>5 DEF Pulls, Answers
<1> QED BY <1>1, <1>2, <1>3, <1>4, <1>5

\* No id is issued, except perhaps to s, and none is taken back.
OnlyIssues(s) ==
    /\ nextReq' \in [Puller -> Nat]
    /\ \A t \in Puller : nextReq[t] <= nextReq'[t] /\ (t # s => nextReq'[t] = nextReq[t])

LEMMA NoIssue ==
    ASSUME TypeOK, UNCHANGED nextReq, NEW s PROVE OnlyIssues(s)
BY DEF TypeOK, OnlyIssues

\* A step that puts no request under way and makes no puller wait keeps what is known of ids.
LEMMA QuietStep ==
    ASSUME Inductive, NEW u \in Puller, OnlyIssues(u), Waiting(u)' => nextReq' = nextReq,
           \A r \in Requests : UnderWay(r)' => UnderWay(r),
           \A s \in Puller : Waiting(s)' =>
               /\ Waiting(s)
               /\ pull'[s].req = pull[s].req /\ pull'[s].blk = pull[s].blk
               /\ pull'[s].want = pull[s].want /\ pull'[s].path = pull[s].path
    PROVE  IdsIssued' /\ WaitsForLast' /\ IdsNameRequests'
<1>1. IdsIssued'
  <2>1. ASSUME NEW r \in Requests, UnderWay(r)' PROVE r.id <= nextReq'[r.by]
    <3>1. r.by \in Puller /\ r.id \in Nat /\ r.id <= nextReq[r.by]
      BY <2>1 DEF Inductive, IdsIssued, Requests
    <3>2. nextReq[r.by] \in Nat /\ nextReq'[r.by] \in Nat /\ nextReq[r.by] <= nextReq'[r.by]
      BY <3>1 DEF OnlyIssues, Inductive, TypeOK
    <3> QED BY <3>1, <3>2
  <2> QED BY <2>1 DEF IdsIssued
<1>2. \A s \in Puller : Waiting(s)' => nextReq'[s] = nextReq[s]
  BY DEF OnlyIssues
<1>3. WaitsForLast'
  BY <1>2 DEF Inductive, WaitsForLast
<1>4. IdsNameRequests'
  BY <1>2 DEF Inductive, IdsNameRequests
<1> QED BY <1>1, <1>3, <1>4

\* A step of a puller that leaves it not waiting and changes nothing on the way.
LEMMA LocalStep ==
    ASSUME Inductive, NEW s \in Puller, NEW x \in Pulls,
           pull' = [pull EXCEPT ![s] = x], x.phase # "wait", x.ch = Absent,
           x.clean => src[x.path] = x.want,
           x.phase \notin Ended /\ x.clean /\ Alone(s)
               => x.got = SubSeq(x.want, 1, Upto(x.want, x.blk)),
           OnlyIssues(s), UNCHANGED <<src, net, conns>>,
           dst' \in [Path -> Content \cup {Absent}], fetches' \in Nat, edits' \in Nat
    PROVE  Inductive'
<1> USE DEF net, conns
<1>0. x # Absent
  BY TransferAssumption
<1>1. /\ TypeOK' /\ pull'[s] = x
      /\ \A t \in Puller : t # s => pull'[t] = pull[t]
  BY DEF Inductive, TypeOK, OnlyIssues
<1>2. ~Waiting(s)' /\ \A t \in Puller : t # s => (Waiting(t)' <=> Waiting(t)) /\ (Running(t)' <=> Running(t))
  BY <1>1 DEF Waiting, Running
<1>3. \A r : UnderWay(r)' => UnderWay(r)
  <2>1. \A t \in Puller : \A r : Held(t, r)' => Held(t, r)
    BY <1>1 DEF Held
  <2> QED BY <2>1 DEF UnderWay, Answered
<1>4. IdsIssued' /\ WaitsForLast' /\ IdsNameRequests'
  BY <1>1, <1>2, <1>3, QuietStep
<1>5. ChannelInUse'
  BY <1>1 DEF Inductive, ChannelInUse
<1>6. SourceKept'
  BY <1>1 DEF Inductive, SourceKept
<1>7. AnswersClean'
  BY <1>1, <1>2 DEF Inductive, AnswersClean
<1>8. Assembled'
  <2>1. \A t \in Puller : nextReq[t] \in Nat /\ nextReq'[t] \in Nat /\ nextReq[t] <= nextReq'[t]
    BY DEF OnlyIssues, Inductive, TypeOK
  <2>2. \A t \in Puller : nextReq'[t] = 0 => nextReq[t] = 0
    BY <2>1
  <2>3. \A t \in Puller : Alone(t)' => Alone(t)
    BY <2>2 DEF Alone
  <2> QED BY <1>0, <1>1, <1>2, <2>3 DEF Inductive, Assembled, Running
<1> QED BY <1>1, <1>4, <1>5, <1>6, <1>7, <1>8 DEF Inductive

\* A step of the network or of a loop that only takes messages away or hands them on.
LEMMA NetworkStep ==
    ASSUME Inductive, TypeOK', UNCHANGED <<src, nextReq, pull>>,
           \A r \in Requests : UnderWay(r)' => UnderWay(r),
           \A a \in Answers : a \in Range(toClient)' =>
               \/ a \in Range(toClient)
               \/ a.ok => a.data = Chunk(src[a.req.path], a.req.off, a.req.len)
    PROVE  Inductive'
<1>1. \A s \in Puller : (Waiting(s)' <=> Waiting(s)) /\ (Running(s)' <=> Running(s))
  BY DEF Waiting, Running
<1>2. IdsIssued' /\ WaitsForLast' /\ IdsNameRequests'
  BY <1>1, QuietStep, NoIssue, TransferAssumption DEF Inductive
<1>3. ChannelInUse' /\ SourceKept'
  BY DEF Inductive, ChannelInUse, SourceKept
<1>4. AnswersClean'
  <2>1. SUFFICES ASSUME NEW s \in Puller, NEW a \in Answers, Waiting(s), pull[s].clean,
                        a \in Range(toClient)' \/ a = pull[s].ch, a.req = pull[s].req, a.ok
                 PROVE  a.data = Chunk(pull[s].want, a.req.off, a.req.len)
    BY <1>1 DEF AnswersClean
  <2>2. CASE a \in Range(toClient) \/ a = pull[s].ch
    BY <2>1, <2>2 DEF Inductive, AnswersClean
  <2>3. CASE a.data = Chunk(src[a.req.path], a.req.off, a.req.len)
    <3>1. pull[s].req.path = pull[s].path
      <4>1. pull[s].req = Request(s, nextReq[s], pull[s].path, pull[s].blk * BlockSize,
                                  BlockLen(Len(pull[s].want), pull[s].blk * BlockSize))
        BY <2>1 DEF Inductive, WaitsForLast
      <4> QED BY <4>1 DEF Request
    <3>2. src[pull[s].path] = pull[s].want
      BY <2>1 DEF Inductive, SourceKept, Waiting, Running
    <3> QED BY <2>1, <2>3, <3>1, <3>2
  <2> QED BY <2>1, <2>2, <2>3
<1>5. Assembled'
  BY <1>1 DEF Inductive, Assembled, Alone
<1> QED BY <1>2, <1>3, <1>4, <1>5 DEF Inductive

-----------------------------------------------------------------------------
(* One lemma per action. *)

LEMMA InitInductive == Init => Inductive
<1> SUFFICES ASSUME Init PROVE Inductive
  OBVIOUS
<1>1. TypeOK
  BY TransferAssumption DEF Init, TypeOK
<1>2. \A r : ~UnderWay(r)
  BY RangeEmpty DEF Init, UnderWay, Held, Answered
<1>3. IdsIssued /\ IdsNameRequests
  BY <1>2 DEF IdsIssued, IdsNameRequests
<1>4. \A s \in Puller : pull[s] = Absent
  BY DEF Init
<1>5. ChannelInUse /\ WaitsForLast /\ SourceKept /\ AnswersClean /\ Assembled
  BY <1>4 DEF ChannelInUse, WaitsForLast, SourceKept, AnswersClean, Assembled, Waiting, Running
<1> QED BY <1>1, <1>3, <1>5 DEF Inductive

LEMMA BeginKeeps ==
    ASSUME Inductive, NEW s \in Puller, Begin(s)
    PROVE  Inductive'
<1>1. PICK p \in Path :
         /\ src[p] # Absent
         /\ pull' = [pull EXCEPT ![s] =
                    [path |-> p, want |-> src[p], phase |-> "check", from |-> p, got |-> <<>>,
                     blk |-> 0, req |-> Absent, ch |-> Absent, clean |-> TRUE]]
  BY DEF Begin
<1> DEFINE x == [path |-> p, want |-> src[p], phase |-> "check", from |-> p, got |-> <<>>,
                 blk |-> 0, req |-> Absent, ch |-> Absent, clean |-> TRUE]
<1>2. src[p] \in Content
  BY <1>1 DEF Inductive, TypeOK
<1>3. x \in Pulls /\ x.phase # "wait" /\ x.ch = Absent /\ src[x.path] = x.want
  BY <1>2 DEF Pulls
<1>4. x.got = SubSeq(x.want, 1, Upto(x.want, x.blk))
  <2>1. x.want \in Seq(Int) /\ Len(x.want) \in Nat
    BY <1>2, TransferAssumption
  <2>2. Upto(x.want, x.blk) = 0
    BY <2>1, TransferAssumption DEF Upto
  <2> QED BY <2>1, <2>2, WholePrefix
<1>5. /\ UNCHANGED <<src, dst, nextReq, net, conns, edits>> /\ fetches' = fetches + 1
      /\ pull' = [pull EXCEPT ![s] = x]
  BY <1>1 DEF Begin
<1>6. dst' \in [Path -> Content \cup {Absent}] /\ fetches' \in Nat /\ edits' \in Nat
  BY <1>5 DEF Inductive, TypeOK
<1> HIDE DEF x
<1>7. OnlyIssues(s)
  BY <1>5, NoIssue DEF Inductive
<1> QED BY <1>3, <1>4, <1>5, <1>6, <1>7, LocalStep

\* A puller goes on to another phase and empties its channel.
PhaseTo(s, ph, q) == pull' = [pull EXCEPT ![s].phase = ph, ![s].from = q, ![s].ch = Absent]

\* A fetch that ends or changes phase keeps its path and what it has assembled.
LEMMA PhaseStep ==
    ASSUME Inductive, NEW s \in Puller, Running(s),
           NEW ph \in {"copy", "net", "ok", "failed"}, NEW q \in Path, PhaseTo(s, ph, q),
           OnlyIssues(s), UNCHANGED <<src, net, conns, fetches, edits>>,
           dst' \in [Path -> Content \cup {Absent}]
    PROVE  Inductive'
<1> DEFINE x == [pull[s] EXCEPT !.phase = ph, !.from = q, !.ch = Absent]
<1>1. pull[s] # Absent /\ pull[s] \in Pulls /\ pull[s].phase \notin Ended
  BY Typed DEF Inductive, Running
<1>2. /\ x \in Pulls /\ x.phase = ph /\ x.ch = Absent /\ x.path = pull[s].path
      /\ x.want = pull[s].want /\ x.got = pull[s].got /\ x.blk = pull[s].blk
      /\ x.clean = pull[s].clean
  BY <1>1 DEF Pulls, Ended
<1>3. pull' = [pull EXCEPT ![s] = x]
  BY DEF Inductive, TypeOK, PhaseTo
<1>4. x.clean => src[x.path] = x.want
  BY <1>1, <1>2 DEF Inductive, SourceKept
<1>5. x.clean /\ Alone(s) => x.got = SubSeq(x.want, 1, Upto(x.want, x.blk))
  BY <1>2 DEF Inductive, Assembled
<1>6. fetches' \in Nat /\ edits' \in Nat /\ x.phase # "wait"
  BY <1>2 DEF Inductive, TypeOK, Ended
<1> HIDE DEF x
<1> QED BY <1>2, <1>3, <1>4, <1>5, <1>6, LocalStep

\* The ways the actions write it.
LEMMA PhaseForms ==
    ASSUME Inductive, NEW s \in Puller, Running(s), NEW ph, NEW q
    PROVE  /\ Ends(s, ph) => PhaseTo(s, ph, pull[s].from)
           /\ pull[s].phase # "wait" =>
                 /\ pull' = [pull EXCEPT ![s].phase = ph] => PhaseTo(s, ph, pull[s].from)
                 /\ pull' = [pull EXCEPT ![s].phase = ph, ![s].from = q] => PhaseTo(s, ph, q)
           /\ pull[s].from \in Path /\ pull[s].path \in Path /\ pull[s].want \in Content
<1>1. pull[s] # Absent /\ pull[s] \in Pulls
  BY Typed DEF Inductive, Running
<1>2. pull[s].phase # "wait" => pull[s].ch = Absent
  BY <1>1 DEF Inductive, ChannelInUse
<1>3. [pull[s] EXCEPT !.phase = ph, !.ch = Absent]
        = [pull[s] EXCEPT !.phase = ph, !.from = pull[s].from, !.ch = Absent]
  BY <1>1 DEF Pulls
<1>4. pull[s].ch = Absent =>
        /\ [pull[s] EXCEPT !.phase = ph]
               = [pull[s] EXCEPT !.phase = ph, !.from = pull[s].from, !.ch = Absent]
        /\ [pull[s] EXCEPT !.phase = ph, !.from = q]
               = [pull[s] EXCEPT !.phase = ph, !.from = q, !.ch = Absent]
  BY <1>1 DEF Pulls
<1>5. \A y : /\ [pull EXCEPT ![s].phase = ph] = [pull EXCEPT ![s] = [pull[s] EXCEPT !.phase = ph]]
             /\ [pull EXCEPT ![s].phase = ph, ![s].from = y]
                    = [pull EXCEPT ![s] = [pull[s] EXCEPT !.phase = ph, !.from = y]]
             /\ [pull EXCEPT ![s].phase = ph, ![s].ch = Absent]
                    = [pull EXCEPT ![s] = [pull[s] EXCEPT !.phase = ph, !.ch = Absent]]
             /\ [pull EXCEPT ![s].phase = ph, ![s].from = y, ![s].ch = Absent]
                    = [pull EXCEPT ![s] = [pull[s] EXCEPT !.phase = ph, !.from = y, !.ch = Absent]]
  BY DEF Inductive, TypeOK
<1>6. pull[s].from \in Path /\ pull[s].path \in Path /\ pull[s].want \in Content
  BY <1>1 DEF Pulls
<1>7. Ends(s, ph) => PhaseTo(s, ph, pull[s].from)
  BY <1>3, <1>5, Zenon DEF Ends, PhaseTo
<1>8. pull[s].phase # "wait" /\ pull' = [pull EXCEPT ![s].phase = ph] => PhaseTo(s, ph, pull[s].from)
  BY <1>2, <1>4, <1>5, Zenon DEF PhaseTo
<1>9. pull[s].phase # "wait" /\ pull' = [pull EXCEPT ![s].phase = ph, ![s].from = q] => PhaseTo(s, ph, q)
  BY <1>2, <1>4, <1>5, Zenon DEF PhaseTo
<1> QED BY <1>6, <1>7, <1>8, <1>9

LEMMA CheckKeeps ==
    ASSUME Inductive, NEW s \in Puller, Check(s)
    PROVE  Inductive'
<1>1. /\ Running(s) /\ pull[s].phase = "check"
      /\ UNCHANGED <<src, dst, nextReq, fetches, net, conns, edits>>
      /\ dst' \in [Path -> Content \cup {Absent}] /\ OnlyIssues(s)
  BY NoIssue DEF Check, Inductive, TypeOK
<1>2. CASE Ends(s, "ok")
  BY <1>1, <1>2, PhaseForms, PhaseStep
<1>3. CASE pull' = [pull EXCEPT ![s].phase = "net"]
  BY <1>1, <1>3, PhaseForms, PhaseStep
<1>4. ASSUME NEW q \in Path, pull' = [pull EXCEPT ![s].phase = "copy", ![s].from = q]
      PROVE  Inductive'
  BY <1>1, <1>4, PhaseForms, PhaseStep
<1> QED BY <1>2, <1>3, <1>4 DEF Check

LEMMA CopyKeeps ==
    ASSUME Inductive, NEW s \in Puller, Copy(s)
    PROVE  Inductive'
<1>1. /\ Running(s) /\ pull[s].phase = "copy"
      /\ UNCHANGED <<src, nextReq, fetches, net, conns, edits>>
      /\ OnlyIssues(s)
  BY NoIssue DEF Copy, Inductive
<1>2. pull[s].want \in Content
  BY <1>1, PhaseForms
<1>3. dst' \in [Path -> Content \cup {Absent}]
  BY <1>2 DEF Copy, Inductive, TypeOK
<1>4. CASE Ends(s, "ok")
  BY <1>1, <1>3, <1>4, PhaseForms, PhaseStep
<1>5. CASE pull' = [pull EXCEPT ![s].phase = "net"]
  BY <1>1, <1>3, <1>5, PhaseForms, PhaseStep
<1> QED BY <1>4, <1>5 DEF Copy

LEMMA GiveUpKeeps ==
    ASSUME Inductive, NEW s \in Puller, GiveUp(s)
    PROVE  Inductive'
<1>1. /\ Running(s) /\ Ends(s, "failed")
      /\ UNCHANGED <<src, dst, nextReq, fetches, net, conns, edits>>
      /\ dst' \in [Path -> Content \cup {Absent}] /\ OnlyIssues(s)
  BY NoIssue DEF GiveUp, Waiting, Inductive, TypeOK
<1> QED BY <1>1, PhaseForms, PhaseStep

LEMMA VerifyKeeps ==
    ASSUME Inductive, NEW s \in Puller, Verify(s)
    PROVE  Inductive'
<1>1. /\ Running(s) /\ pull[s].phase = "net"
      /\ UNCHANGED <<src, nextReq, fetches, net, conns, edits>>
      /\ OnlyIssues(s)
  BY NoIssue DEF Verify, Inductive
<1>2. pull[s].want \in Content
  BY <1>1, PhaseForms
<1>3. dst' \in [Path -> Content \cup {Absent}]
  BY <1>2 DEF Verify, Inductive, TypeOK
<1>4. CASE Ends(s, "ok")
  BY <1>1, <1>3, <1>4, PhaseForms, PhaseStep
<1>5. CASE pull' = [pull EXCEPT ![s].phase = "failed"]
  BY <1>1, <1>3, <1>5, PhaseForms, PhaseStep
<1> QED BY <1>4, <1>5 DEF Verify

\* The answer a puller takes is the one it waits for, when no other puller has asked.
LEMMA ReceiveKeeps ==
    ASSUME Inductive, NEW s \in Puller, Receive(s)
    PROVE  Inductive'
<1> DEFINE r == pull[s].ch
           w == pull[s].want
           k == pull[s].blk
           off == k * BlockSize
<1>1. /\ Waiting(s) /\ Running(s) /\ pull[s].ch # Absent
      /\ UNCHANGED <<src, dst, nextReq, fetches, net, conns, edits>>
      /\ dst' \in [Path -> Content \cup {Absent}] /\ fetches' \in Nat /\ edits' \in Nat
      /\ OnlyIssues(s)
  BY NoIssue DEF Receive, Waiting, Inductive, TypeOK
<1>2. pull[s] # Absent /\ pull[s] \in Pulls /\ r \in Answers /\ r.req \in Requests
  BY <1>1, Typed DEF Inductive, Running
<1>3. CASE Ends(s, "failed")
  BY <1>1, <1>3, PhaseForms, PhaseStep
<1>4. ASSUME r.ok,
             pull' = [pull EXCEPT ![s].phase = "net", ![s].blk = @ + 1,
                                  ![s].got = @ \o r.data, ![s].ch = Absent]
      PROVE  Inductive'
  <2> DEFINE x == [pull[s] EXCEPT !.phase = "net", !.blk = @ + 1, !.got = @ \o r.data, !.ch = Absent]
  <2>1. pull' = [pull EXCEPT ![s] = x]
    BY <1>4 DEF Inductive, TypeOK
  <2>2. r.data \in Seq(Int) /\ pull[s].got \in Seq(Int) /\ k \in Nat /\ w \in Content
    BY <1>2 DEF Answers, Pulls
  <2>3. /\ pull[s].got \o r.data \in Seq(Int) /\ k + 1 \in Nat
    BY <2>2
  <2>4. /\ x \in Pulls /\ x.phase = "net" /\ x.ch = Absent /\ x.path = pull[s].path
        /\ x.want = w /\ x.got = pull[s].got \o r.data /\ x.blk = k + 1
        /\ x.clean = pull[s].clean
    BY <1>2, <2>3 DEF Pulls, Ended
  <2>5. x.clean => src[x.path] = x.want
    BY <1>2, <2>4 DEF Inductive, SourceKept
  <2>6. ASSUME x.clean, Alone(s) PROVE x.got = SubSeq(x.want, 1, Upto(x.want, x.blk))
    <3>1. UnderWay(r.req)
      BY <1>1, <1>2 DEF UnderWay, Held
    <3>2. r.req.by = s
      <4>1. r.req.id <= nextReq[r.req.by] /\ r.req.id \in Nat \ {0} /\ r.req.by \in Puller
        BY <3>1, <1>2 DEF Inductive, IdsIssued, Requests
      <4> QED BY <4>1, <2>6 DEF Alone
    <3>3. /\ k < numBlocks(Len(w))
          /\ pull[s].req = Request(s, nextReq[s], pull[s].path, off, BlockLen(Len(w), off))
      BY <1>1 DEF Inductive, WaitsForLast
    <3>4. r.req = pull[s].req
      <4>1. r.req.id = pull[s].req.id
        BY <1>1, <1>2 DEF Inductive, ChannelInUse
      <4>2. r.req.id = nextReq[s]
        BY <4>1, <3>3 DEF Request
      <4> QED BY <4>2, <3>1, <3>2, <1>1, <1>2 DEF Inductive, IdsNameRequests
    <3>5. r.data = Chunk(w, off, BlockLen(Len(w), off))
      <4>1. r.data = Chunk(w, r.req.off, r.req.len)
        BY <1>1, <1>2, <1>4, <2>4, <2>6, <3>4 DEF Inductive, AnswersClean
      <4> QED BY <4>1, <3>3, <3>4 DEF Request
    <3>6. pull[s].got = SubSeq(w, 1, Upto(w, k))
      BY <1>1, <2>4, <2>6 DEF Inductive, Assembled
    <3>7. /\ Upto(w, k) = off /\ off \in Nat /\ off <= Len(w)
          /\ BlockLen(Len(w), off) \in Nat
          /\ Upto(w, k + 1) = off + BlockLen(Len(w), off) /\ Upto(w, k + 1) <= Len(w)
          /\ Len(w) \in Nat
      BY <3>3, <2>2, BlocksTile
    <3>8. w \in Seq(Int) /\ Upto(w, k + 1) \in Nat /\ off <= Upto(w, k + 1)
      BY <2>2, <3>7, TransferAssumption
    <3>9. SubSeq(w, 1, off) \o SubSeq(w, off + 1, Upto(w, k + 1)) = SubSeq(w, 1, Upto(w, k + 1))
      BY <3>7, <3>8, PrefixGrows
    <3>10. r.data = SubSeq(w, off + 1, Upto(w, k + 1)) /\ pull[s].got = SubSeq(w, 1, off)
      BY <3>5, <3>6, <3>7 DEF Chunk
    <3> QED BY <3>9, <3>10, <2>4
  <2> HIDE DEF x
  <2> QED BY <1>1, <2>1, <2>4, <2>5, <2>6, LocalStep
<1> QED BY <1>3, <1>4 DEF Receive

\* The id of a new request is above all that are under way.
LEMMA requestChunkKeeps ==
    ASSUME Inductive, NEW s \in Puller, requestChunk(s)
    PROVE  Inductive'
<1> USE DEF net, conns
<1> DEFINE new == NextRequest(s)
           w == pull[s].want
           k == pull[s].blk
           off == k * BlockSize
<1>1. /\ Running(s) /\ pull[s].phase = "net" /\ k < numBlocks(Len(w))
      /\ nextReq' = [nextReq EXCEPT ![s] = new.id]
      /\ UNCHANGED <<src, dst, fetches, serveQ, toClient, conns, edits>>
  BY DEF requestChunk
<1>2. pull[s] # Absent /\ pull[s] \in Pulls /\ pull[s].ch = Absent
  BY <1>1, Typed DEF Inductive, Running, ChannelInUse
<1>3. k \in Nat /\ w \in Content /\ pull[s].path \in Path /\ nextReq[s] \in Nat
  BY <1>2 DEF Pulls, Inductive, TypeOK
<1>4. new = Request(s, nextReq[s] + 1, pull[s].path, off, BlockLen(Len(w), off))
  BY DEF NextRequest
<1>5. new \in Requests /\ new.by = s /\ new.id = nextReq[s] + 1
  <2>1. off \in Nat /\ BlockLen(Len(w), off) \in Nat
    BY <1>1, <1>3, BlocksTile
  <2> QED BY <2>1, <1>3, <1>4 DEF Request, Requests
<1>6. /\ nextReq' \in [Puller -> Nat] /\ nextReq'[s] = nextReq[s] + 1
      /\ \A t \in Puller : t # s => nextReq'[t] = nextReq[t]
  BY <1>1, <1>3, <1>5 DEF Inductive, TypeOK
<1> HIDE DEF new
<1>7. \A r \in Requests : UnderWay(r) => r.id <= nextReq[r.by] /\ r.by \in Puller /\ r # new
  <2>1. \A r \in Requests : r.by \in Puller
    BY DEF Requests
  <2> QED BY <1>3, <1>5, <2>1 DEF Inductive, IdsIssued
<1>8. CASE s \in alive
  <2>1. /\ toServer' = [toServer EXCEPT ![s] = Append(@, new)]
        /\ pull' = [pull EXCEPT ![s].phase = "wait", ![s].req = new]
    BY <1>8 DEF requestChunk, new
  <2> DEFINE x == [pull[s] EXCEPT !.phase = "wait", !.req = new]
  <2>2. /\ x \in Pulls /\ x.phase = "wait" /\ x.req = new /\ x.ch = Absent /\ x.path = pull[s].path
        /\ x.want = w /\ x.got = pull[s].got /\ x.blk = k /\ x.clean = pull[s].clean
    BY <1>2, <1>5 DEF Pulls
  <2>3. x # Absent
    BY <2>2, TransferAssumption
  <2>4. pull' = [pull EXCEPT ![s] = x]
    BY <2>1 DEF Inductive, TypeOK
  <2> HIDE DEF x
  <2>5. /\ pull' \in [Puller -> Pulls \cup {Absent}] /\ pull'[s] = x
        /\ \A t \in Puller : t # s => pull'[t] = pull[t]
    BY <2>2, <2>4 DEF Inductive, TypeOK
  <2>6. /\ toServer' \in [Puller -> Seq(Requests)] /\ Range(toServer'[s]) = Range(toServer[s]) \cup {new}
        /\ \A t \in Puller : t # s => toServer'[t] = toServer[t]
    <3>1. /\ Append(toServer[s], new) \in Seq(Requests)
          /\ Range(Append(toServer[s], new)) = Range(toServer[s]) \cup {new}
      BY <1>5, RangeAppend DEF Inductive, TypeOK
    <3> QED BY <2>1, <3>1 DEF Inductive, TypeOK
  <2>7. TypeOK'
    BY <1>1, <1>6, <2>5, <2>6 DEF Inductive, TypeOK
  <2>8. \A r : UnderWay(r)' => UnderWay(r) \/ r = new
    <3>1. \A t \in Puller : \A r : Held(t, r)' => Held(t, r)
      BY <2>2, <2>5 DEF Held
    <3>2. \A t \in Puller : \A r \in Range(toServer'[t]) : r \in Range(toServer[t]) \/ r = new
      BY <2>6
    <3>3. Answered' = Answered /\ serveQ' = serveQ
      BY <1>1 DEF Answered
    <3> QED BY <3>1, <3>2, <3>3 DEF UnderWay
  <2>9. /\ Waiting(s)' /\ Running(s)'
        /\ \A t \in Puller : t # s => (Waiting(t)' <=> Waiting(t)) /\ (Running(t)' <=> Running(t))
    BY <2>2, <2>3, <2>5 DEF Waiting, Running, Ended
  <2>10. IdsIssued'
    <3> SUFFICES ASSUME NEW r \in Requests, UnderWay(r)' PROVE r.id <= nextReq'[r.by]
      BY DEF IdsIssued
    <3>1. CASE r = new
      BY <3>1, <1>3, <1>5, <1>6
    <3>2. CASE UnderWay(r)
      <4>1. r.id <= nextReq[r.by] /\ r.by \in Puller /\ r.id \in Nat
        BY <3>2, <1>7 DEF Requests
      <4> QED BY <4>1, <1>3, <1>6
    <3> QED BY <3>1, <3>2, <2>8
  <2>11. WaitsForLast'
    <3>1. ASSUME NEW t \in Puller, t # s, Waiting(t)' PROVE
            /\ pull'[t].blk < numBlocks(Len(pull'[t].want))
            /\ pull'[t].req = Request(t, nextReq'[t], pull'[t].path, pull'[t].blk * BlockSize,
                                      BlockLen(Len(pull'[t].want), pull'[t].blk * BlockSize))
      BY <3>1, <1>6, <2>5, <2>9 DEF Inductive, WaitsForLast
    <3>2. /\ pull'[s].blk < numBlocks(Len(pull'[s].want))
          /\ pull'[s].req = Request(s, nextReq'[s], pull'[s].path, pull'[s].blk * BlockSize,
                                    BlockLen(Len(pull'[s].want), pull'[s].blk * BlockSize))
      BY <1>1, <1>4, <1>6, <2>2, <2>5 DEF new
    <3> QED BY <3>1, <3>2 DEF WaitsForLast
  <2>12. IdsNameRequests'
    <3> SUFFICES ASSUME NEW t \in Puller, NEW r \in Requests,
                        Waiting(t)', UnderWay(r)', r.by = t, r.id = nextReq'[t]
                 PROVE  r = pull'[t].req
      BY DEF IdsNameRequests
    <3>1. CASE t = s
      BY <3>1, <1>3, <1>6, <1>7, <2>2, <2>5, <2>8
    <3>2. CASE t # s
      BY <3>2, <1>5, <1>6, <2>5, <2>8, <2>9 DEF Inductive, IdsNameRequests
    <3> QED BY <3>1, <3>2
  <2>13. ChannelInUse'
    BY <2>2, <2>5 DEF Inductive, ChannelInUse
  <2>14. SourceKept'
    BY <1>1, <1>2, <2>2, <2>5 DEF Inductive, SourceKept
  <2>15. AnswersClean'
    <3> SUFFICES ASSUME NEW t \in Puller, NEW a \in Answers, Waiting(t)', pull'[t].clean,
                        a \in Range(toClient) \/ a = pull'[t].ch, a.req = pull'[t].req, a.ok
                 PROVE  a.data = Chunk(pull'[t].want, a.req.off, a.req.len)
      BY <1>1 DEF AnswersClean
    <3>1. CASE t = s
      <4>1. a \in Range(toClient)
        BY <3>1, <2>2, <2>5, TransferAssumption
      <4>2. UnderWay(a.req) /\ a.req \in Requests
        BY <4>1 DEF UnderWay, Answered, Answers
      <4> QED BY <4>2, <3>1, <1>7, <2>2, <2>5
    <3>2. CASE t # s
      BY <3>2, <2>5, <2>9 DEF Inductive, AnswersClean
    <3> QED BY <3>1, <3>2
  <2>16. Assembled'
    <3>1. \A t \in Puller : Alone(t)' => t = s /\ Alone(s)
      BY <1>3, <1>6 DEF Alone
    <3> QED BY <3>1, <1>1, <2>2, <2>5 DEF Inductive, Assembled
  <2> QED BY <2>7, <2>10, <2>11, <2>12, <2>13, <2>14, <2>15, <2>16 DEF Inductive
<1>9. CASE s \notin alive
  <2>1. Ends(s, "failed") /\ UNCHANGED toServer
    BY <1>9 DEF requestChunk
  <2>2. OnlyIssues(s) /\ dst' \in [Path -> Content \cup {Absent}]
    BY <1>1, <1>3, <1>6 DEF OnlyIssues, Inductive, TypeOK
  <2> QED BY <1>1, <2>1, <2>2, PhaseForms, PhaseStep
<1> QED BY <1>8, <1>9

\* What a response adds to the wire, if anything.
LEMMA ReplyAdds ==
    ASSUME TypeOK, NEW a \in Answers, toClient' = Reply(a)
    PROVE  toClient' \in Seq(Answers) /\ Range(toClient') \subseteq Range(toClient) \cup {a}
<1>1. toClient' \in {toClient, Append(toClient, a)}
  BY DEF Reply
<1>2. toClient \in Seq(Answers)
  BY DEF TypeOK
<1>3. CASE toClient' = toClient
  BY <1>2, <1>3
<1>4. CASE toClient' = Append(toClient, a)
  BY <1>2, <1>4, RangeAppend
<1> QED BY <1>1, <1>3, <1>4

LEMMA routeRequestKeeps ==
    ASSUME Inductive, NEW s \in Puller, routeRequest(s)
    PROVE  Inductive'
<1> USE DEF net, conns
<1> DEFINE r == Head(toServer[s])
<1>1. /\ toServer[s] # <<>> /\ toServer' = [toServer EXCEPT ![s] = Tail(@)]
      /\ UNCHANGED <<src, dst, pull, nextReq, fetches, conns, edits>>
  BY DEF routeRequest
<1>2. /\ Tail(toServer[s]) \in Seq(Requests) /\ r \in Requests
      /\ Range(toServer[s]) = Range(Tail(toServer[s])) \cup {r}
  BY <1>1, RangeTail DEF Inductive, TypeOK
<1> HIDE DEF r
<1>3. /\ toServer' \in [Puller -> Seq(Requests)] /\ r \in Range(toServer[s])
      /\ \A t \in Puller : Range(toServer'[t]) \subseteq Range(toServer[t])
  BY <1>1, <1>2 DEF Inductive, TypeOK
<1>4. /\ serveQ' \in Seq(Requests) /\ Len(serveQ') <= ServeQueueDepth
      /\ Range(serveQ') \subseteq Range(serveQ) \cup {r}
      /\ toClient' \in Seq(Answers) /\ Range(toClient') \subseteq Range(toClient) \cup {Decline(r)}
  <2>1. Decline(r) \in Answers
    BY <1>2 DEF Decline, Answer, Answers
  <2>2. CASE UNCHANGED <<serveQ, toClient>>
    BY <2>2 DEF Inductive, TypeOK
  <2>3. CASE Queueable /\ serveQ' = Append(serveQ, r) /\ UNCHANGED toClient
    <3>1. /\ serveQ' \in Seq(Requests) /\ Len(serveQ') = Len(serveQ) + 1
          /\ Range(serveQ') = Range(serveQ) \cup {r}
      BY <2>3, <1>2, RangeAppend DEF Inductive, TypeOK
    <3>2. Len(serveQ) \in Nat /\ Len(serveQ) + 1 <= ServeQueueDepth
      BY <2>3, TransferAssumption DEF Queueable, Inductive, TypeOK
    <3> QED BY <3>1, <3>2, <2>3 DEF Inductive, TypeOK
  <2>4. CASE toClient' = Reply(Decline(r)) /\ UNCHANGED serveQ
    BY <2>1, <2>4, ReplyAdds DEF Inductive, TypeOK
  <2> QED BY <2>2, <2>3, <2>4 DEF routeRequest, r
<1>5. TypeOK'
  BY <1>1, <1>3, <1>4 DEF Inductive, TypeOK
<1>6. ASSUME NEW x \in Requests, UnderWay(x)' PROVE UnderWay(x)
  <2>1. Answered' \subseteq Answered \cup {r}
    BY <1>4 DEF Answered, Decline, Answer
  <2>2. UnderWay(r)
    BY <1>3 DEF UnderWay
  <2>3. \A t \in Puller : Held(t, x)' => Held(t, x)
    BY <1>1 DEF Held
  <2> QED BY <1>3, <1>4, <1>6, <2>1, <2>2, <2>3 DEF UnderWay
<1>7. \A a \in Answers : a \in Range(toClient)' => a \in Range(toClient) \/ ~a.ok
  BY <1>4 DEF Decline, Answer
<1> QED BY <1>1, <1>5, <1>6, <1>7, NetworkStep

\* An answer is read from the file as it is now.
LEMMA serveRequestKeeps ==
    ASSUME Inductive, serveRequest
    PROVE  Inductive'
<1> USE DEF net, conns
<1> DEFINE r == Head(serveQ)
           a == Served(r)
<1>1. /\ serveQ # <<>> /\ serveQ' = Tail(serveQ) /\ toClient' = Reply(a)
      /\ UNCHANGED <<src, dst, pull, nextReq, fetches, toServer, conns, edits>>
  BY DEF serveRequest
<1>2. /\ serveQ' \in Seq(Requests) /\ r \in Requests /\ Len(serveQ') = Len(serveQ) - 1
      /\ Range(serveQ) = Range(serveQ') \cup {r}
  BY <1>1, RangeTail DEF Inductive, TypeOK
<1> HIDE DEF r
<1>3. /\ a \in Answers /\ a.req = r
      /\ a.ok => a.data = Chunk(src[r.path], r.off, r.len)
  <2>1. CASE a = Decline(r)
    <3>1. a = [req |-> r, ok |-> FALSE, data |-> <<>>]
      BY <2>1 DEF Decline, Answer
    <3> HIDE DEF a
    <3> QED BY <3>1, <1>2 DEF Answers
  <2>2. CASE /\ src[r.path] # Absent /\ validateRequest(r.len, r.off, Len(src[r.path]))
             /\ a = Answer(r, TRUE, Chunk(src[r.path], r.off, r.len))
    <3>1. r.path \in Path /\ r.off \in Nat /\ r.len \in Nat
      BY <1>2 DEF Requests
    <3>2. src[r.path] \in Seq(Int)
      BY <2>2, <3>1, TransferAssumption DEF Inductive, TypeOK
    <3>3. Chunk(src[r.path], r.off, r.len) \in Seq(Int)
      BY <3>1, <3>2, <2>2 DEF Chunk, validateRequest
    <3>4. a = [req |-> r, ok |-> TRUE, data |-> Chunk(src[r.path], r.off, r.len)]
      BY <2>2 DEF Answer
    <3> HIDE DEF a
    <3> QED BY <3>3, <3>4, <1>2 DEF Answers
  <2> QED BY <2>1, <2>2 DEF Served
<1> HIDE DEF a
<1>4. toClient' \in Seq(Answers) /\ Range(toClient') \subseteq Range(toClient) \cup {a}
  BY <1>1, <1>3, ReplyAdds DEF Inductive
<1>5. TypeOK'
  <2>1. Len(serveQ) \in Nat /\ Len(serveQ') <= ServeQueueDepth
    BY <1>2, TransferAssumption DEF Inductive, TypeOK
  <2> QED BY <2>1, <1>1, <1>2, <1>4 DEF Inductive, TypeOK
<1>6. ASSUME NEW x \in Requests, UnderWay(x)' PROVE UnderWay(x)
  <2>1. Answered' \subseteq Answered \cup {r}
    BY <1>3, <1>4 DEF Answered
  <2>2. UnderWay(r)
    BY <1>2 DEF UnderWay
  <2>3. \A t \in Puller : Held(t, x)' => Held(t, x)
    BY <1>1 DEF Held
  <2> QED BY <1>1, <1>2, <1>6, <2>1, <2>2, <2>3 DEF UnderWay
<1>7. \A b \in Answers : b \in Range(toClient)' =>
         \/ b \in Range(toClient)
         \/ b.ok => b.data = Chunk(src[b.req.path], b.req.off, b.req.len)
  BY <1>3, <1>4
<1> QED BY <1>1, <1>5, <1>6, <1>7, NetworkStep

LEMMA CloseKeeps ==
    ASSUME Inductive, NEW s \in Puller, Close(s)
    PROVE  Inductive'
<1>1. /\ UNCHANGED <<src, dst, pull, nextReq, fetches, serveQ, replyOn, peered, serving, edits>>
      /\ alive' = alive \ {s} /\ toServer' = [toServer EXCEPT ![s] = <<>>]
      /\ toClient' \in {<<>>, toClient}
  BY DEF Close
<1>2. TypeOK'
  <2>1. toServer' \in [Puller -> Seq(Requests)] /\ toClient' \in Seq(Answers) /\ alive' \subseteq Puller
    BY <1>1, EmptyQueue DEF Inductive, TypeOK
  <2> QED BY <1>1, <2>1 DEF Inductive, TypeOK
<1>3. /\ \A t \in Puller : Range(toServer'[t]) \subseteq Range(toServer[t])
      /\ Range(toClient') \subseteq Range(toClient)
  BY <1>1, RangeEmpty DEF Inductive, TypeOK
<1>4. ASSUME NEW x \in Requests, UnderWay(x)' PROVE UnderWay(x)
  <2>1. \A t \in Puller : Held(t, x)' => Held(t, x)
    BY <1>1 DEF Held
  <2>2. Answered' \subseteq Answered
    BY <1>3 DEF Answered
  <2> QED BY <1>1, <1>3, <1>4, <2>1, <2>2 DEF UnderWay
<1> QED BY <1>1, <1>2, <1>3, <1>4, NetworkStep

LEMMA removePeerKeeps ==
    ASSUME Inductive, removePeer
    PROVE  Inductive'
<1>1. /\ UNCHANGED <<src, dst, pull, nextReq, fetches, toServer, toClient, alive, replyOn, edits>>
      /\ serveQ' \in {<<>>, serveQ} /\ peered' \in BOOLEAN /\ serving' \in BOOLEAN
  BY DEF removePeer, Inductive, TypeOK
<1>2. TypeOK'
  <2>1. serveQ' \in Seq(Requests) /\ Len(serveQ') <= ServeQueueDepth
    <3>1. CASE serveQ' = serveQ
      BY <3>1 DEF Inductive, TypeOK
    <3>2. CASE serveQ' = <<>>
      BY <3>2, EmptyQueue, TransferAssumption
    <3> QED BY <1>1, <3>1, <3>2
  <2> QED BY <1>1, <2>1 DEF Inductive, TypeOK
<1>3. Range(serveQ') \subseteq Range(serveQ)
  BY <1>1, RangeEmpty
<1>4. ASSUME NEW x \in Requests, UnderWay(x)' PROVE UnderWay(x)
  <2>1. \A t \in Puller : Held(t, x)' => Held(t, x)
    BY <1>1 DEF Held
  <2> QED BY <1>1, <1>3, <1>4, <2>1 DEF UnderWay, Answered
<1> QED BY <1>1, <1>2, <1>4, NetworkStep

\* A response reaches a waiter with its id, and nobody else.
LEMMA routeResponseKeeps ==
    ASSUME Inductive, routeResponse
    PROVE  Inductive'
<1> USE DEF net, conns
<1> DEFINE r == Head(toClient)
<1>1. /\ toClient # <<>> /\ toClient' = Tail(toClient)
      /\ pull' = [s \in Puller |-> IF s \in Waiter(r) THEN [pull[s] EXCEPT !.ch = r] ELSE pull[s]]
      /\ UNCHANGED <<src, dst, nextReq, fetches, toServer, serveQ, conns, edits>>
  BY DEF routeResponse
<1>2. /\ toClient' \in Seq(Answers) /\ r \in Answers
      /\ Range(toClient) = Range(toClient') \cup {r}
  BY <1>1, RangeTail DEF Inductive, TypeOK
<1>3. r \in Range(toClient) /\ r.req \in Requests /\ r # Absent
  BY <1>2, TransferAssumption DEF Answers
<1> HIDE DEF r
<1>4. ASSUME NEW s \in Puller, s \in Waiter(r)
      PROVE  /\ Waiting(s) /\ pull[s].req.id = r.req.id
             /\ pull[s] \in Pulls /\ pull'[s] \in Pulls /\ pull'[s] # Absent
             /\ pull'[s].ch = r /\ pull'[s].phase = "wait"
             /\ pull'[s].req = pull[s].req /\ pull'[s].blk = pull[s].blk /\ pull'[s].got = pull[s].got
             /\ pull'[s].want = pull[s].want /\ pull'[s].path = pull[s].path
             /\ pull'[s].clean = pull[s].clean
  <2>1. Waiting(s) /\ pull[s].req.id = r.req.id /\ pull[s] # Absent /\ pull[s].phase = "wait"
    BY <1>4 DEF Waiter, Waiting, Running
  <2>2. pull[s] \in Pulls /\ pull'[s] = [pull[s] EXCEPT !.ch = r]
    BY <1>1, <1>4, <2>1, Typed DEF Inductive
  <2>3. pull'[s] \in Pulls
    BY <1>2, <2>2 DEF Pulls
  <2> QED BY <2>1, <2>2, <2>3, TransferAssumption DEF Pulls
<1>5. \A s \in Puller : s \notin Waiter(r) => pull'[s] = pull[s]
  BY <1>1
<1>6. TypeOK'
  <2>1. pull' \in [Puller -> Pulls \cup {Absent}]
    <3>1. \A s \in Puller : pull'[s] \in Pulls \cup {Absent}
      BY <1>4, <1>5 DEF Inductive, TypeOK
    <3> QED BY <1>1, <3>1
  <2> QED BY <1>1, <1>2, <2>1 DEF Inductive, TypeOK
<1>7. \A s \in Puller : (Waiting(s)' <=> Waiting(s)) /\ (Running(s)' <=> Running(s))
  <2>1. ASSUME NEW s \in Puller, s \in Waiter(r) PROVE Waiting(s)' /\ Running(s)' /\ Waiting(s) /\ Running(s)
    BY <1>4, <2>1 DEF Waiting, Running, Ended
  <2>2. ASSUME NEW s \in Puller, s \notin Waiter(r)
        PROVE  (Waiting(s)' <=> Waiting(s)) /\ (Running(s)' <=> Running(s))
    BY <1>5, <2>2 DEF Waiting, Running
  <2> QED BY <2>1, <2>2
<1>8. \A s \in Puller : /\ pull'[s].req = pull[s].req /\ pull'[s].blk = pull[s].blk
                        /\ pull'[s].got = pull[s].got /\ pull'[s].clean = pull[s].clean
                        /\ pull'[s].want = pull[s].want /\ pull'[s].path = pull[s].path
                        /\ (pull'[s] = Absent <=> pull[s] = Absent)
  <2>1. ASSUME NEW s \in Puller, s \in Waiter(r) PROVE pull[s] # Absent
    BY <1>4, <2>1 DEF Waiting, Running
  <2> QED BY <1>4, <1>5, <2>1
<1>9. ASSUME NEW x \in Requests, UnderWay(x)' PROVE UnderWay(x)
  <2>1. UnderWay(r.req)
    BY <1>3 DEF UnderWay, Answered
  <2>2. \A t \in Puller : Held(t, x)' => Held(t, x) \/ x = r.req
    BY <1>4, <1>5 DEF Held
  <2>3. Answered' \subseteq Answered
    BY <1>2 DEF Answered
  <2> QED BY <1>1, <1>9, <2>1, <2>2, <2>3 DEF UnderWay
<1>10. IdsIssued' /\ WaitsForLast' /\ IdsNameRequests'
  BY <1>1, <1>7, <1>8, <1>9, QuietStep, NoIssue, TransferAssumption DEF Inductive
<1>11. ChannelInUse'
  BY <1>4, <1>5 DEF Inductive, ChannelInUse
<1>12. SourceKept'
  BY <1>1, <1>8 DEF Inductive, SourceKept
<1>13. AnswersClean'
  <2> SUFFICES ASSUME NEW s \in Puller, NEW a \in Answers, Waiting(s)', pull'[s].clean,
                      a \in Range(toClient)' \/ a = pull'[s].ch, a.req = pull'[s].req, a.ok
               PROVE  a.data = Chunk(pull'[s].want, a.req.off, a.req.len)
    BY DEF AnswersClean
  <2>1. a \in Range(toClient) \/ a = pull[s].ch
    BY <1>2, <1>3, <1>4, <1>5
  <2> QED BY <2>1, <1>7, <1>8 DEF Inductive, AnswersClean
<1>14. Assembled'
  BY <1>1, <1>7, <1>8 DEF Inductive, Assembled, Alone
<1> QED BY <1>6, <1>10, <1>11, <1>12, <1>13, <1>14 DEF Inductive

\* An edit of the source dirties the fetches of that file.
LEMMA EditSourceKeeps ==
    ASSUME Inductive, EditSource
    PROVE  Inductive'
<1> USE DEF net, conns
<1>1. PICK p \in Path, c \in Content \cup {Absent} :
         /\ src' = [src EXCEPT ![p] = c]
         /\ pull' = [s \in Puller |-> IF pull[s] # Absent /\ pull[s].path = p
                                      THEN [pull[s] EXCEPT !.clean = FALSE] ELSE pull[s]]
  BY DEF EditSource
<1>2. UNCHANGED <<dst, nextReq, fetches, net, conns>> /\ edits' = edits + 1
  BY DEF EditSource
<1>3. ASSUME NEW s \in Puller, pull[s] # Absent, pull[s].path = p
      PROVE  /\ pull[s] \in Pulls /\ pull'[s] \in Pulls /\ pull'[s] # Absent /\ pull'[s].clean = FALSE
             /\ pull'[s].ch = pull[s].ch /\ pull'[s].phase = pull[s].phase
             /\ pull'[s].req = pull[s].req /\ pull'[s].blk = pull[s].blk /\ pull'[s].got = pull[s].got
             /\ pull'[s].want = pull[s].want /\ pull'[s].path = pull[s].path
  <2>1. pull[s] \in Pulls /\ pull'[s] = [pull[s] EXCEPT !.clean = FALSE]
    BY <1>1, <1>3, Typed DEF Inductive
  <2> QED BY <2>1, TransferAssumption DEF Pulls
<1>4. \A s \in Puller : ~(pull[s] # Absent /\ pull[s].path = p) => pull'[s] = pull[s]
  BY <1>1
<1>5. \A s \in Puller : /\ pull'[s].req = pull[s].req /\ pull'[s].blk = pull[s].blk
                        /\ pull'[s].got = pull[s].got /\ pull'[s].ch = pull[s].ch
                        /\ pull'[s].want = pull[s].want /\ pull'[s].path = pull[s].path
                        /\ pull'[s].phase = pull[s].phase
                        /\ (pull'[s] = Absent <=> pull[s] = Absent)
                        /\ (pull'[s].clean /\ pull[s] # Absent => pull[s].clean /\ pull[s].path # p)
  BY <1>3, <1>4
<1>6. TypeOK'
  <2>1. pull' \in [Puller -> Pulls \cup {Absent}]
    <3>1. \A s \in Puller : pull'[s] \in Pulls \cup {Absent}
      BY <1>3, <1>4 DEF Inductive, TypeOK
    <3> QED BY <1>1, <3>1
  <2>2. src' \in [Path -> Content \cup {Absent}] /\ edits' \in Nat
    BY <1>1, <1>2 DEF Inductive, TypeOK
  <2> QED BY <1>2, <2>1, <2>2 DEF Inductive, TypeOK
<1>7. \A s \in Puller : (Waiting(s)' <=> Waiting(s)) /\ (Running(s)' <=> Running(s))
  BY <1>5 DEF Waiting, Running
<1>8. ASSUME NEW x \in Requests, UnderWay(x)' PROVE UnderWay(x)
  <2>1. \A t \in Puller : Held(t, x)' => Held(t, x)
    BY <1>5 DEF Held
  <2> QED BY <1>2, <1>8, <2>1 DEF UnderWay, Answered
<1>9. IdsIssued' /\ WaitsForLast' /\ IdsNameRequests'
  BY <1>2, <1>5, <1>7, <1>8, QuietStep, NoIssue, TransferAssumption DEF Inductive
<1>10. ChannelInUse'
  BY <1>5 DEF Inductive, ChannelInUse
<1>11. SourceKept'
  <2> SUFFICES ASSUME NEW s \in Puller, pull'[s] # Absent, pull'[s].clean
               PROVE  src'[pull'[s].path] = pull'[s].want
    BY DEF SourceKept
  <2>1. pull[s] # Absent /\ pull[s].clean /\ pull[s].path # p /\ pull[s].path \in Path
    BY <1>5, Typed DEF Inductive, Pulls
  <2>2. src'[pull[s].path] = src[pull[s].path]
    BY <1>1, <2>1 DEF Inductive, TypeOK
  <2> QED BY <1>5, <2>1, <2>2 DEF Inductive, SourceKept
<1>12. \A s \in Puller : Running(s)' /\ pull'[s].clean => Running(s) /\ pull[s].clean
  BY <1>5, <1>7 DEF Running
<1>13. AnswersClean'
  BY <1>2, <1>5, <1>7, <1>12 DEF Inductive, AnswersClean, Waiting
<1>14. Assembled'
  BY <1>2, <1>5, <1>12 DEF Inductive, Assembled, Alone
<1> QED BY <1>6, <1>9, <1>10, <1>11, <1>13, <1>14 DEF Inductive

LEMMA EditDestinationKeeps ==
    ASSUME Inductive, EditDestination
    PROVE  Inductive'
<1>1. UNCHANGED <<src, pull, nextReq, fetches, net, conns>> /\ edits' = edits + 1
  BY DEF EditDestination
<1>2. TypeOK'
  <2>1. dst' \in [Path -> Content \cup {Absent}] /\ edits' \in Nat
    BY DEF EditDestination, Inductive, TypeOK
  <2> QED BY <1>1, <2>1 DEF net, conns, Inductive, TypeOK
<1>3. \A r : UnderWay(r)' => UnderWay(r)
  BY <1>1 DEF net, UnderWay, Held, Answered
<1> QED BY <1>1, <1>2, <1>3, NetworkStep DEF net

-----------------------------------------------------------------------------
(* The theorems. *)

LEMMA StepInductive == Inductive /\ [Next]_vars => Inductive'
<1> SUFFICES ASSUME Inductive, [Next]_vars PROVE Inductive'
  OBVIOUS
<1>1. CASE UNCHANGED vars
  <2>1. UNCHANGED <<src, nextReq, pull>> /\ TypeOK'
    BY <1>1 DEF vars, net, conns, Inductive, TypeOK
  <2>2. /\ \A r : UnderWay(r)' => UnderWay(r)
        /\ toClient' = toClient
    BY <1>1 DEF vars, net, UnderWay, Held, Answered
  <2> QED BY <2>1, <2>2, NetworkStep
<1>2. ASSUME NEW s \in Puller,
             \/ Begin(s) \/ Check(s) \/ Copy(s) \/ requestChunk(s) \/ Receive(s)
             \/ GiveUp(s) \/ Verify(s) \/ routeRequest(s) \/ Close(s)
      PROVE  Inductive'
  BY <1>2, BeginKeeps, CheckKeeps, CopyKeeps, requestChunkKeeps, ReceiveKeeps, GiveUpKeeps,
     VerifyKeeps, routeRequestKeeps, CloseKeeps
<1>3. CASE serveRequest \/ routeResponse \/ removePeer \/ EditSource \/ EditDestination
  BY <1>3, serveRequestKeeps, routeResponseKeeps, removePeerKeeps, EditSourceKeeps,
     EditDestinationKeeps
<1> QED BY <1>1, <1>2, <1>3 DEF Next

\* The inductive invariant of the transfer: ids name requests, answers under way to a clean
\* fetch hold the wanted bytes, and what it has assembled is a prefix of them.
THEOREM TransferInvariant == Spec => []Inductive
BY InitInductive, StepInductive, PTL DEF Spec

\* Type correctness, the serve queue within its capacity included.
THEOREM TransferTypes == Spec => []TypeOK
<1>1. Inductive => TypeOK
  BY DEF Inductive
<1> QED BY <1>1, TransferInvariant, PTL

\* routeResponse hands a waiter of requestChunk the answer to the request it waits for,
\* whatever timed out, was lost or came late before.
THEOREM AnswersNeverStale == Spec => []NoStaleAnswer
<1>1. Inductive => NoStaleAnswer
  <2> SUFFICES ASSUME Inductive, NEW s \in Puller,
                      Waiting(s), pull[s].ch # Absent, pull[s].ch.req.by = s
               PROVE  pull[s].ch.req = pull[s].req
    BY DEF NoStaleAnswer
  <2>1. pull[s] # Absent
    BY DEF Waiting, Running
  <2>2. pull[s].ch.req \in Requests /\ UnderWay(pull[s].ch.req)
    BY <2>1, Typed DEF Inductive, UnderWay, Held
  <2>3. pull[s].ch.req.id = pull[s].req.id
    BY <2>1 DEF Inductive, ChannelInUse
  <2>4. pull[s].req = Request(s, nextReq[s], pull[s].path, pull[s].blk * BlockSize,
                              BlockLen(Len(pull[s].want), pull[s].blk * BlockSize))
    BY DEF Inductive, WaitsForLast
  <2>5. pull[s].ch.req.id = nextReq[s]
    BY <2>3, <2>4 DEF Request
  <2> QED BY <2>2, <2>5 DEF Inductive, IdsNameRequests
<1> QED BY <1>1, TransferInvariant, PTL

\* The blocks fetchOverWire asks for tile the file, for every length and every block size: a
\* fetch whose source keeps its bytes assembles exactly these.
THEOREM CleanFetchesVerify == Spec => []CleanFetchVerifies
<1>1. Inductive => CleanFetchVerifies
  <2> SUFFICES ASSUME Inductive, NEW s \in Puller, Running(s), pull[s].clean,
                      pull[s].blk = numBlocks(Len(pull[s].want)), Alone(s)
               PROVE  pull[s].got = pull[s].want
    BY DEF CleanFetchVerifies, Alone
  <2>1. pull[s].want \in Content /\ pull[s].blk \in Nat
    BY Typed DEF Inductive, Running, Pulls
  <2>2. Upto(pull[s].want, pull[s].blk) = Len(pull[s].want)
    BY <2>1, BlocksTile
  <2>3. pull[s].got = SubSeq(pull[s].want, 1, Upto(pull[s].want, pull[s].blk))
    BY DEF Inductive, Assembled
  <2>4. pull[s].want \in Seq(Int)
    BY <2>1, TransferAssumption
  <2> QED BY <2>2, <2>3, <2>4, WholePrefix
<1> QED BY <1>1, TransferInvariant, PTL

-----------------------------------------------------------------------------
(* The transfer implements FileFetch. *)

Jobs == [s \in Puller |-> JobOf(pull[s])]

\* A puller that has something to do is busy, and it is seen as the job it works on.
LEMMA JobsSeen ==
    ASSUME TypeOK, NEW s \in Puller
    PROVE  /\ Fetch!Busy(s) <=> Running(s)
           /\ Running(s) => Jobs[s] = [path |-> pull[s].path, want |-> pull[s].want, state |-> "busy"]
<1>1. CASE pull[s] = Absent
  BY <1>1 DEF Fetch!Busy, Running, JobOf
<1>2. CASE pull[s] # Absent
  <2>1. pull[s] \in Pulls
    BY <1>2, Typed
  <2> DEFINE st == IF pull[s].phase \in Ended THEN pull[s].phase ELSE "busy"
  <2>2. /\ pull[s].path \in Path /\ pull[s].want \in Content /\ st \in {"busy"} \cup Ended
        /\ (st = "busy" <=> pull[s].phase \notin Ended)
    BY <2>1 DEF Pulls, Ended
  <2>3. JobOf(pull[s]) = [path |-> pull[s].path, want |-> pull[s].want, state |-> st]
    BY <1>2 DEF JobOf
  <2> HIDE DEF st
  <2>4. JobOf(pull[s]) # Absent /\ JobOf(pull[s]).state = st
    BY <2>2, <2>3, TransferAssumption
  <2>5. Fetch!Busy(s) <=> st = "busy"
    BY <2>4 DEF Fetch!Busy
  <2> QED BY <1>2, <2>2, <2>3, <2>5 DEF Running, Jobs
<1> QED BY <1>1, <1>2

\* A step of s that ends its fetch, seen as a step of FileFetch.
LEMMA EndSeen ==
    ASSUME TypeOK, NEW s \in Puller, Running(s), NEW how \in Ended, NEW x,
           pull' = [pull EXCEPT ![s] = x], x # Absent, x.phase = how,
           x.path = pull[s].path, x.want = pull[s].want
    PROVE  Jobs' = [Jobs EXCEPT ![s].state = how]
<1>1. Jobs[s] = [path |-> pull[s].path, want |-> pull[s].want, state |-> "busy"]
  BY JobsSeen
<1>2. JobOf(x) = [path |-> pull[s].path, want |-> pull[s].want, state |-> how]
  BY DEF JobOf
<1>3. JobOf(x) = [Jobs[s] EXCEPT !.state = how]
  BY <1>1, <1>2
<1>4. \A t \in Puller : Jobs'[t] = IF t = s THEN JobOf(x) ELSE Jobs[t]
  BY DEF Jobs, TypeOK
<1> QED BY <1>3, <1>4 DEF Jobs

\* Steps within a fetch are not seen.
LEMMA InsideUnseen ==
    ASSUME TypeOK, pull' \in [Puller -> Pulls \cup {Absent}],
           \A s \in Puller : \/ pull'[s] = pull[s]
                             \/ /\ pull[s] # Absent /\ pull'[s] # Absent
                                /\ pull'[s].path = pull[s].path /\ pull'[s].want = pull[s].want
                                /\ \/ pull'[s].phase = pull[s].phase
                                   \/ pull'[s].phase \notin Ended /\ pull[s].phase \notin Ended
    PROVE  Jobs' = Jobs
<1>1. \A s \in Puller : JobOf(pull'[s]) = JobOf(pull[s])
  BY DEF JobOf
<1> QED BY <1>1 DEF Jobs

\* Ends as an update of the puller's record.
LEMMA EndsForm ==
    ASSUME TypeOK, NEW s \in Puller, Running(s), NEW how \in Ended,
           Ends(s, how) \/ pull' = [pull EXCEPT ![s].phase = how]
    PROVE  Jobs' = [Jobs EXCEPT ![s].state = how]
<1>1. pull[s] # Absent /\ pull[s] \in Pulls
  BY Typed DEF Running
<1>2. CASE Ends(s, how)
  <2> DEFINE x == [pull[s] EXCEPT !.phase = how, !.ch = Absent]
  <2>1. pull' = [pull EXCEPT ![s] = x]
    BY <1>2 DEF Ends, TypeOK
  <2>2. x \in Pulls /\ x.phase = how /\ x.path = pull[s].path /\ x.want = pull[s].want
    BY <1>1 DEF Pulls, Ended
  <2> HIDE DEF x
  <2> QED BY <2>1, <2>2, EndSeen, TransferAssumption
<1>3. CASE pull' = [pull EXCEPT ![s].phase = how]
  <2> DEFINE x == [pull[s] EXCEPT !.phase = how]
  <2>1. pull' = [pull EXCEPT ![s] = x]
    BY <1>3 DEF TypeOK
  <2>2. x \in Pulls /\ x.phase = how /\ x.path = pull[s].path /\ x.want = pull[s].want
    BY <1>1 DEF Pulls, Ended
  <2> HIDE DEF x
  <2> QED BY <2>1, <2>2, EndSeen, TransferAssumption
<1> QED BY <1>2, <1>3

LEMMA FailSeen ==
    ASSUME TypeOK, NEW s \in Puller, Running(s), UNCHANGED dst,
           Ends(s, "failed") \/ pull' = [pull EXCEPT ![s].phase = "failed"]
    PROVE  Fetch!Fail(s)
<1>1. Jobs' = [Jobs EXCEPT ![s].state = "failed"]
  BY EndsForm DEF Ended
<1> QED BY <1>1, JobsSeen DEF Fetch!Fail, Jobs

LEMMA SucceedSeen ==
    ASSUME TypeOK, NEW s \in Puller, Running(s), Ends(s, "ok"),
           dst' = [dst EXCEPT ![pull[s].path] = pull[s].want]
    PROVE  Fetch!Succeed(s)
<1>1. Jobs' = [Jobs EXCEPT ![s].state = "ok"]
  BY EndsForm DEF Ended
<1>2. Jobs[s] = [path |-> pull[s].path, want |-> pull[s].want, state |-> "busy"]
  BY JobsSeen
<1>3. Jobs[s].path = pull[s].path /\ Jobs[s].want = pull[s].want
  BY <1>2
<1> QED BY <1>1, <1>3, JobsSeen DEF Fetch!Succeed, Jobs

\* A change of the puller's record inside its fetch.
LEMMA WithinFetch ==
    ASSUME TypeOK, NEW s \in Puller, Running(s), NEW x \in Pulls, pull' = [pull EXCEPT ![s] = x],
           x.path = pull[s].path, x.want = pull[s].want, x.phase \notin Ended
    PROVE  Jobs' = Jobs
<1>1. pull' \in [Puller -> Pulls \cup {Absent}] /\ pull'[s] = x
  BY DEF TypeOK
<1>2. \A t \in Puller : t # s => pull'[t] = pull[t]
  BY DEF TypeOK
<1> QED BY <1>1, <1>2, InsideUnseen, TransferAssumption DEF Running

LEMMA BeginSeen ==
    ASSUME TypeOK, NEW s \in Puller, Begin(s)
    PROVE  Fetch!Begin(s)
<1>1. PICK p \in Path :
         /\ src[p] # Absent
         /\ pull' = [pull EXCEPT ![s] =
                    [path |-> p, want |-> src[p], phase |-> "check", from |-> p, got |-> <<>>,
                     blk |-> 0, req |-> Absent, ch |-> Absent, clean |-> TRUE]]
  BY DEF Begin
<1> DEFINE x == [path |-> p, want |-> src[p], phase |-> "check", from |-> p, got |-> <<>>,
                 blk |-> 0, req |-> Absent, ch |-> Absent, clean |-> TRUE]
<1>2. src[p] \in Content
  BY <1>1 DEF TypeOK
<1>3. /\ x \in Pulls /\ x.phase \notin Ended /\ x.path = p /\ x.want = src[p]
      /\ pull' = [pull EXCEPT ![s] = x]
  BY <1>1, <1>2 DEF Pulls, Ended
<1> HIDE DEF x
<1>4. JobOf(x) = [path |-> p, want |-> src[p], state |-> "busy"]
  BY <1>3, TransferAssumption DEF JobOf
<1>5. \A t \in Puller : pull'[t] = IF t = s THEN x ELSE pull[t]
  BY <1>3 DEF TypeOK
<1>6. \A t \in Puller : Jobs'[t] = IF t = s THEN JobOf(x) ELSE Jobs[t]
  BY <1>5 DEF Jobs
<1>7. Jobs' = [Jobs EXCEPT ![s] = [path |-> p, want |-> src[p], state |-> "busy"]]
  BY <1>4, <1>6 DEF Jobs
<1>8. ~Fetch!Busy(s) /\ UNCHANGED dst
  BY JobsSeen DEF Begin
<1> QED BY <1>2, <1>7, <1>8 DEF Fetch!Begin, Jobs

\* What the steps of a puller after Begin are to FileFetch: the end of the fetch, or nothing.
LEMMA PullSeen ==
    ASSUME TypeOK, NEW s \in Puller,
           Check(s) \/ Copy(s) \/ requestChunk(s) \/ Receive(s) \/ GiveUp(s) \/ Verify(s)
    PROVE  Fetch!Succeed(s) \/ Fetch!Fail(s) \/ (Jobs' = Jobs /\ UNCHANGED dst)
<1>1. Running(s) /\ pull[s] # Absent /\ pull[s] \in Pulls
  BY Typed DEF Check, Copy, requestChunk, Receive, GiveUp, Verify, Waiting, Running
<1>2. pull[s].path \in Path /\ pull[s].want \in Content
  BY <1>1 DEF Pulls
<1>3. ASSUME NEW ph \in {"copy", "net"}, pull' = [pull EXCEPT ![s].phase = ph] PROVE Jobs' = Jobs
  <2> DEFINE x == [pull[s] EXCEPT !.phase = ph]
  <2>1. /\ pull' = [pull EXCEPT ![s] = x] /\ x \in Pulls /\ x.path = pull[s].path
        /\ x.want = pull[s].want /\ x.phase \notin Ended
    BY <1>1, <1>3 DEF TypeOK, Pulls, Ended
  <2> HIDE DEF x
  <2> QED BY <1>1, <2>1, WithinFetch
<1>4. CASE Check(s)
  <2>1. CASE dst[pull[s].path] = pull[s].want /\ Ends(s, "ok")
    <3>1. dst' = [dst EXCEPT ![pull[s].path] = pull[s].want]
      BY <1>2, <1>4, <2>1 DEF Check, TypeOK
    <3> QED BY <1>1, <2>1, <3>1, SucceedSeen
  <2>2. CASE pull' = [pull EXCEPT ![s].phase = "net"]
    BY <1>3, <1>4, <2>2 DEF Check
  <2>3. ASSUME NEW q \in Path, pull' = [pull EXCEPT ![s].phase = "copy", ![s].from = q]
        PROVE  Jobs' = Jobs
    <3> DEFINE x == [pull[s] EXCEPT !.phase = "copy", !.from = q]
    <3>1. /\ pull' = [pull EXCEPT ![s] = x] /\ x \in Pulls /\ x.path = pull[s].path
          /\ x.want = pull[s].want /\ x.phase \notin Ended
      BY <1>1, <2>3 DEF TypeOK, Pulls, Ended
    <3> HIDE DEF x
    <3> QED BY <1>1, <3>1, WithinFetch
  <2> QED BY <1>4, <2>1, <2>2, <2>3 DEF Check
<1>5. CASE Copy(s)
  <2>1. CASE dst' = [dst EXCEPT ![pull[s].path] = pull[s].want] /\ Ends(s, "ok")
    BY <1>1, <2>1, SucceedSeen
  <2>2. CASE pull' = [pull EXCEPT ![s].phase = "net"] /\ UNCHANGED dst
    BY <1>3, <2>2
  <2> QED BY <1>5, <2>1, <2>2 DEF Copy
<1>6. CASE requestChunk(s)
  <2>1. UNCHANGED dst
    BY <1>6 DEF requestChunk
  <2>2. CASE Ends(s, "failed")
    BY <1>1, <2>1, <2>2, FailSeen
  <2>3. CASE pull' = [pull EXCEPT ![s].phase = "wait", ![s].req = NextRequest(s)]
    <3>1. pull[s].blk < numBlocks(Len(pull[s].want)) /\ pull[s].blk \in Nat /\ nextReq[s] \in Nat
      BY <1>1, <1>6 DEF requestChunk, Pulls, TypeOK
    <3>2. /\ pull[s].blk * BlockSize \in Nat
          /\ BlockLen(Len(pull[s].want), pull[s].blk * BlockSize) \in Nat
      BY <1>2, <3>1, BlocksTile
    <3>3. NextRequest(s) \in Requests
      BY <1>2, <3>1, <3>2 DEF NextRequest, Request, Requests
    <3> DEFINE x == [pull[s] EXCEPT !.phase = "wait", !.req = NextRequest(s)]
    <3>4. /\ pull' = [pull EXCEPT ![s] = x] /\ x \in Pulls /\ x.path = pull[s].path
          /\ x.want = pull[s].want /\ x.phase \notin Ended
      BY <1>1, <2>3, <3>3 DEF TypeOK, Pulls, Ended
    <3> HIDE DEF x
    <3> QED BY <1>1, <2>1, <3>4, WithinFetch
  <2> QED BY <1>6, <2>2, <2>3 DEF requestChunk
<1>7. CASE Receive(s)
  <2>1. UNCHANGED dst /\ pull[s].ch # Absent
    BY <1>7 DEF Receive
  <2>2. CASE Ends(s, "failed")
    BY <1>1, <2>1, <2>2, FailSeen
  <2>3. CASE pull' = [pull EXCEPT ![s].phase = "net", ![s].blk = @ + 1,
                                  ![s].got = @ \o pull[s].ch.data, ![s].ch = Absent]
    <3>1. pull[s].ch.data \in Seq(Int) /\ pull[s].got \in Seq(Int) /\ pull[s].blk \in Nat
      BY <1>1, <2>1, Typed DEF Answers, Pulls
    <3>2. pull[s].got \o pull[s].ch.data \in Seq(Int) /\ pull[s].blk + 1 \in Nat
      BY <3>1
    <3> DEFINE x == [pull[s] EXCEPT !.phase = "net", !.blk = @ + 1,
                                    !.got = @ \o pull[s].ch.data, !.ch = Absent]
    <3>3. /\ pull' = [pull EXCEPT ![s] = x] /\ x \in Pulls /\ x.path = pull[s].path
          /\ x.want = pull[s].want /\ x.phase \notin Ended
      BY <1>1, <2>3, <3>2 DEF TypeOK, Pulls, Ended
    <3> HIDE DEF x
    <3> QED BY <1>1, <2>1, <3>3, WithinFetch
  <2> QED BY <1>7, <2>2, <2>3 DEF Receive
<1>8. CASE GiveUp(s)
  BY <1>1, <1>8, FailSeen DEF GiveUp
<1>9. CASE Verify(s)
  <2>1. CASE dst' = [dst EXCEPT ![pull[s].path] = pull[s].want] /\ Ends(s, "ok")
    BY <1>1, <2>1, SucceedSeen
  <2>2. CASE pull' = [pull EXCEPT ![s].phase = "failed"] /\ UNCHANGED dst
    BY <1>1, <2>2, FailSeen
  <2> QED BY <1>9, <2>1, <2>2 DEF Verify
<1> QED BY <1>4, <1>5, <1>6, <1>7, <1>8, <1>9

\* Nothing that the network, the server, the loops or the user of the source do is seen.
LEMMA RestSeen ==
    ASSUME TypeOK, TypeOK',
           \/ UNCHANGED vars \/ \E s \in Puller : routeRequest(s) \/ Close(s)
           \/ serveRequest \/ routeResponse \/ removePeer \/ EditSource
    PROVE  Jobs' = Jobs /\ UNCHANGED dst
<1>1. UNCHANGED dst
  BY DEF vars, routeRequest, Close, serveRequest, routeResponse, removePeer, EditSource
<1>2. CASE UNCHANGED pull
  BY <1>1, <1>2 DEF Jobs
<1>3. CASE routeResponse
  <2>1. Head(toClient) \in Answers
    BY <1>3, RangeTail DEF routeResponse, TypeOK
  <2>2. \A s \in Puller : pull'[s] = pull[s] \/ (pull[s] # Absent /\ pull'[s] = [pull[s] EXCEPT !.ch = Head(toClient)])
    BY <1>3 DEF routeResponse, Waiter, Waiting, Running
  <2>3. ASSUME NEW s \in Puller
        PROVE  \/ pull'[s] = pull[s]
               \/ /\ pull[s] # Absent /\ pull'[s] # Absent
                  /\ pull'[s].path = pull[s].path /\ pull'[s].want = pull[s].want
                  /\ pull'[s].phase = pull[s].phase
    <3>1. CASE pull'[s] = pull[s]
      BY <3>1
    <3>2. CASE pull[s] # Absent /\ pull'[s] = [pull[s] EXCEPT !.ch = Head(toClient)]
      <4>1. pull[s] \in Pulls
        BY <3>2, Typed
      <4>2. pull'[s] \in Pulls /\ pull'[s].path = pull[s].path /\ pull'[s].want = pull[s].want
            /\ pull'[s].phase = pull[s].phase
        BY <3>2, <4>1, <2>1 DEF Pulls
      <4> QED BY <3>2, <4>2, TransferAssumption
    <3> QED BY <3>1, <3>2, <2>2
  <2>4. pull' \in [Puller -> Pulls \cup {Absent}]
    BY DEF TypeOK
  <2>5. Jobs' = Jobs
    BY <2>3, <2>4, InsideUnseen
  <2> QED BY <1>1, <2>5
<1>4. CASE EditSource
  <2>1. \A s \in Puller : pull'[s] = pull[s] \/ (pull[s] # Absent /\ pull'[s] = [pull[s] EXCEPT !.clean = FALSE])
    BY <1>4 DEF EditSource
  <2>2. ASSUME NEW s \in Puller
        PROVE  \/ pull'[s] = pull[s]
               \/ /\ pull[s] # Absent /\ pull'[s] # Absent
                  /\ pull'[s].path = pull[s].path /\ pull'[s].want = pull[s].want
                  /\ pull'[s].phase = pull[s].phase
    <3>1. CASE pull'[s] = pull[s]
      BY <3>1
    <3>2. CASE pull[s] # Absent /\ pull'[s] = [pull[s] EXCEPT !.clean = FALSE]
      <4>1. pull[s] \in Pulls
        BY <3>2, Typed
      <4>2. pull'[s] \in Pulls /\ pull'[s].path = pull[s].path /\ pull'[s].want = pull[s].want
            /\ pull'[s].phase = pull[s].phase
        BY <3>2, <4>1 DEF Pulls
      <4> QED BY <3>2, <4>2, TransferAssumption
    <3> QED BY <3>1, <3>2, <2>1
  <2>3. pull' \in [Puller -> Pulls \cup {Absent}]
    BY DEF TypeOK
  <2>4. Jobs' = Jobs
    BY <2>2, <2>3, InsideUnseen
  <2> QED BY <1>1, <2>4
<1> QED BY <1>2, <1>3, <1>4 DEF vars, routeRequest, Close, serveRequest, removePeer

\* Every behaviour of the block transfer is one of FileFetch: materialise changes the
\* destination in one step and only to the wanted bytes, or fails and leaves it alone.
THEOREM TransferImplementsFileFetch == Spec => ImplementsFileFetch
<1>1. Init => Fetch!Init
  <2> SUFFICES ASSUME Init PROVE Fetch!Init
    OBVIOUS
  <2>1. dst \in [Path -> Content \cup {Absent}]
    BY DEF Init
  <2>2. Jobs = [s \in Puller |-> Absent]
    BY DEF Init, Jobs, JobOf
  <2> QED BY <2>1, <2>2 DEF Fetch!Init, Jobs
<1>2. TypeOK /\ TypeOK' /\ [Next]_vars => [Fetch!Next]_Fetch!vars
  <2> SUFFICES ASSUME TypeOK, TypeOK', [Next]_vars PROVE [Fetch!Next]_Fetch!vars
    OBVIOUS
  <2>1. Jobs' = Jobs /\ UNCHANGED dst => UNCHANGED Fetch!vars
    BY DEF Fetch!vars, Jobs
  <2>2. ASSUME NEW s \in Puller, Begin(s) PROVE Fetch!Next
    BY <2>2, BeginSeen DEF Fetch!Next
  <2>3. ASSUME NEW s \in Puller,
               Check(s) \/ Copy(s) \/ requestChunk(s) \/ Receive(s) \/ GiveUp(s) \/ Verify(s)
        PROVE  [Fetch!Next]_Fetch!vars
    BY <2>1, <2>3, PullSeen DEF Fetch!Next
  <2>4. CASE EditDestination
    <3>1. Fetch!UserEdit
      BY <2>4 DEF EditDestination, Fetch!UserEdit
    <3> QED BY <3>1 DEF Fetch!Next
  <2>5. CASE \/ UNCHANGED vars \/ \E s \in Puller : routeRequest(s) \/ Close(s)
             \/ serveRequest \/ routeResponse \/ removePeer \/ EditSource
    BY <2>1, <2>5, RestSeen
  <2> QED BY <2>2, <2>3, <2>4, <2>5 DEF Next
<1> QED BY <1>1, <1>2, TransferTypes, PTL DEF Spec, ImplementsFileFetch, Fetch!Spec
=============================================================================
