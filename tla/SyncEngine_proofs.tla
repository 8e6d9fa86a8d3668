------------------------- MODULE SyncEngine_proofs -------------------------
(***************************************************************************)
(* Proofs about SyncEngine for every set of paths, contents and times,     *)
(* every budget and every queue bound: type correctness, NoForgedCounter   *)
(* and, where users do not delete, NoEcho.                                 *)
(*                                                                         *)
(* They come from one inductive invariant: wherever a leaf is kept (the    *)
(* tables, the snapshots, queued and running tasks, completions, messages) *)
(* it is good, that is, well typed and with issued counters only; and      *)
(* without deletes, whatever is on a disk and is not the user's work is    *)
(* what the last completion or else the table says (Quiet).                *)
(***************************************************************************)
EXTENDS SyncEngine, TLAPS, FiniteSetTheorems, SequenceTheorems

\* Some scenario lets users delete files.
MayDelete == \E b \in Budgets : b["delete"] > 0

\* The leaves whose counters all belong to the issued counters I, and that have content
\* iff they are live. There are tombstones only if users may delete.
Good(I) == {l \in Leaf : /\ \A d \in Device : l.vv[d] \in I[d]
                         /\ l.hash \in Content <=> ~l.del
                         /\ l.del => MayDelete}
GoodMap(I) == [Path -> Good(I) \cup {Absent}]

\* A copy is live, and only a coupled task may end in a tombstone: a puller is never
\* asked for the bytes of one.
GoodCopy(I) == {c \in [path : Path, leaf : Good(I)] : ~c.leaf.del}
GoodTask(I) == {t \in [path : Path, leaf : Good(I), preserve : GoodCopy(I) \cup {Absent},
                       advertise : BOOLEAN] : t.preserve = Absent => ~t.leaf.del}
GoodPull(I) == {x \in [task : GoodTask(I), phase : {"preserve", "leaf"}, got : BOOLEAN,
                       old : BOOLEAN] :
                  IF x.phase = "leaf" THEN ~x.task.leaf.del ELSE x.task.preserve # Absent}
GoodCompletion(I) == {c \in [kind : {"ok", "fail", "applyTomb", "abort"}, path : Path,
                             leaf : Good(I), advertise : BOOLEAN] :
                        c.kind = "applyTomb" => c.leaf.del}
GoodEvent(I) == [kind : {"connected", "index", "update", "disconnected"}, body : GoodMap(I)]
GoodState(I) == {s \in [files : GoodMap(I), disk : DiskMap, index : GoodMap(I),
                        inflight : SUBSET Path, fetchQ : Seq(GoodTask(I)),
                        out : Seq(GoodEvent(I))] : Len(s.fetchQ) <= FetchQueueDepth}

\* Histories of issued counters: 0 counts as issued, it stands for "no counter".
History == {I \in [Device -> SUBSET Nat] : \A d \in Device : 0 \in I[d]}

-----------------------------------------------------------------------------
(* The pure functions. *)

LEMMA EmptyGood ==
    ASSUME NEW I \in History
    PROVE  EmptyVV \in VersionVector /\ EmptyMap \in GoodMap(I)
BY DEF EmptyVV, VersionVector, EmptyMap, GoodMap

LEMMA BumpType ==
    ASSUME NEW v \in VersionVector, NEW d \in Device
    PROVE  /\ Bump(v, d) \in VersionVector
           /\ \A e \in Device \ {d} : Bump(v, d)[e] = v[e]
BY DEF Bump, VersionVector

LEMMA MergeType ==
    ASSUME NEW v \in VersionVector, NEW w \in VersionVector
    PROVE  /\ Merge(v, w) \in VersionVector
           /\ \A d \in Device : Merge(v, w)[d] \in {v[d], w[d]}
BY DEF Merge, VersionVector

\* A leaf under another version vector.
LEMMA Reversioned ==
    ASSUME NEW l \in Leaf, NEW v \in VersionVector
    PROVE  /\ [l EXCEPT !.vv = v] \in Leaf /\ [l EXCEPT !.vv = v].vv = v
           /\ [l EXCEPT !.vv = v].hash = l.hash /\ [l EXCEPT !.vv = v].del = l.del
BY DEF Leaf

LEMMA MergeGood ==
    ASSUME NEW I \in History, NEW a \in Good(I), NEW b \in Good(I)
    PROVE  [a EXCEPT !.vv = Merge(a.vv, b.vv)] \in Good(I)
<1>1. a \in Leaf /\ b \in Leaf
  BY DEF Good
<1>2. a.vv \in VersionVector /\ b.vv \in VersionVector
  BY <1>1 DEF Leaf
<1> DEFINE m == Merge(a.vv, b.vv)
<1>3. m \in VersionVector /\ \A d \in Device : m[d] \in {a.vv[d], b.vv[d]}
  BY <1>2, MergeType
<1>4. \A d \in Device : m[d] \in I[d]
  BY <1>3 DEF Good
<1> HIDE DEF m
<1>5. /\ [a EXCEPT !.vv = m] \in Leaf /\ [a EXCEPT !.vv = m].vv = m
      /\ [a EXCEPT !.vv = m].hash = a.hash /\ [a EXCEPT !.vv = m].del = a.del
  BY <1>1, <1>3, Reversioned
<1>6. [a EXCEPT !.vv = m] \in Good(I)
  BY <1>4, <1>5 DEF Good
<1> QED BY <1>6 DEF m

\* A verdict that is safe to carry out: what it installs and what it preserves is good.
GoodPlan(I, c) ==
    /\ c = [path |-> c.path, kind |-> c.kind, leaf |-> c.leaf, preserve |-> c.preserve]
    /\ c.path \in Path
    /\ c.kind \in {"install", "conflict"} => c.leaf \in Good(I)
    /\ c.kind = "conflict" /\ c.preserve # Absent =>
          /\ c.preserve = [path |-> c.preserve.path, leaf |-> c.preserve.leaf]
          /\ c.preserve.leaf \in Good(I) /\ ~c.preserve.leaf.del

LEMMA ConflictGood ==
    ASSUME NEW I \in History, NEW p \in Path, NEW a \in Good(I), NEW b \in Good(I)
    PROVE  GoodPlan(I, conflictPlan(p, a, b))
<1>1. winner(a, b) \in Good(I) /\ loserOf(a, b) \in Good(I)
  BY DEF winner, loserOf
<1> QED BY <1>1 DEF conflictPlan, GoodPlan, Plan

LEMMA ResolveGood ==
    ASSUME NEW I \in History, NEW p \in Path,
           NEW a \in Good(I) \cup {Absent}, NEW b \in Good(I) \cup {Absent}
    PROVE  GoodPlan(I, resolve(p, a, b))
<1>0. GoodPlan(I, NoOp(p))
  BY DEF GoodPlan, NoOp, Plan
<1>1. \A l \in Good(I) : GoodPlan(I, Install(p, l))
  BY DEF GoodPlan, Install, Plan
<1>2. CASE a = Absent \/ b = Absent
  BY <1>0, <1>1, <1>2 DEF resolve
<1>3. CASE a # Absent /\ b # Absent
  <2>1. a \in Good(I) /\ b \in Good(I)
    BY <1>3
  <2>2. GoodPlan(I, conflictPlan(p, a, b))
    BY <2>1, ConflictGood
  <2>3. /\ [b EXCEPT !.vv = Merge(b.vv, a.vv)] \in Good(I)
        /\ [a EXCEPT !.vv = Merge(a.vv, b.vv)] \in Good(I)
    BY <2>1, MergeGood
  <2>4. Merge(a.vv, b.vv) = Merge(b.vv, a.vv)
    <3>1. a.vv \in VersionVector /\ b.vv \in VersionVector
      BY <2>1 DEF Good, Leaf
    <3> QED BY <3>1 DEF Merge, VersionVector
  <2> DEFINE order == Compare(a.vv, b.vv)
             merged == Merge(a.vv, b.vv)
  <2>5. resolve(p, a, b) \in {NoOp(p), Install(p, [b EXCEPT !.vv = merged]),
                              Install(p, [a EXCEPT !.vv = merged]), conflictPlan(p, a, b)}
    BY <1>3 DEF resolve
  <2>6. GoodPlan(I, Install(p, [b EXCEPT !.vv = merged]))
    BY <1>1, <2>3, <2>4
  <2>7. GoodPlan(I, Install(p, [a EXCEPT !.vv = merged]))
    BY <1>1, <2>3
  <2> QED BY <1>0, <2>2, <2>5, <2>6, <2>7
<1> QED BY <1>2, <1>3

-----------------------------------------------------------------------------
(* The steps of reconcileWithPeer. *)

LEMMA PlansGood ==
    ASSUME NEW I \in History, NEW s \in GoodState(I), NEW c \in Plans(s)
    PROVE  GoodPlan(I, c)
<1>1. s.files \in GoodMap(I) /\ s.index \in GoodMap(I)
  BY DEF GoodState
<1>2. PICK p \in Diff(s.files, s.index) : c = resolve(p, s.files[p], s.index[p])
  BY DEF Plans
<1>3. p \in Path
  BY <1>2 DEF Diff
<1>4. s.files[p] \in Good(I) \cup {Absent} /\ s.index[p] \in Good(I) \cup {Absent}
  BY <1>1, <1>3 DEF GoodMap
<1> QED BY <1>2, <1>3, <1>4, ResolveGood

LEMMA FunctionIsSeq ==
    ASSUME NEW S, NEW n \in Nat, NEW m \in [1 .. n -> S]
    PROVE  m \in Seq(S) /\ Len(m) = n
<1>1. m \in Seq(S)
  BY SeqDef
<1>2. Len(m) \in Nat /\ DOMAIN m = 1 .. Len(m) /\ DOMAIN m = 1 .. n
  BY <1>1, LenProperties
<1>3. \A i \in Int : (1 <= i /\ i <= Len(m)) <=> (1 <= i /\ i <= n)
  BY <1>2
<1>4. Len(m) = n
  BY <1>2, <1>3
<1> QED BY <1>1, <1>4

LEMMA UpdateGood ==
    ASSUME NEW I \in History, NEW f \in GoodMap(I), NEW S
    PROVE  UpdateMsg(f, S) \in GoodEvent(I)
<1>1. [p \in Path |-> IF p \in S THEN f[p] ELSE Absent] \in GoodMap(I)
  BY DEF GoodMap
<1> QED BY <1>1 DEF UpdateMsg, GoodEvent

LEMMA BroadcastGood ==
    ASSUME NEW I \in History, NEW s \in GoodState(I), NEW S
    PROVE  broadcastUpdate(s, S) \in GoodState(I)
<1>1. s.files \in GoodMap(I) /\ s.out \in Seq(GoodEvent(I))
  BY DEF GoodState
<1>2. UpdateMsg(s.files, S) \in GoodEvent(I)
  BY <1>1, UpdateGood
<1>3. Append(s.out, UpdateMsg(s.files, S)) \in Seq(GoodEvent(I))
  BY <1>1, <1>2
<1> QED BY <1>3 DEF broadcastUpdate, GoodState

\* The targets of tombstones and installs: something with a path and a good leaf.
Aimed(I, S) == \A t \in S : t.path \in Path /\ t.leaf \in Good(I)

LEMMA LeafAtGood ==
    ASSUME NEW I, NEW S, Aimed(I, S), NEW p \in Paths(S)
    PROVE  LeafAt(S, p) \in Good(I)
<1>1. \E t \in S : t.path = p
  BY DEF Paths
<1>2. (CHOOSE t \in S : t.path = p) \in S
  BY <1>1
<1> QED BY <1>2 DEF LeafAt, Aimed

LEMMA TombstonesGood ==
    ASSUME NEW I \in History, NEW s \in GoodState(I), NEW S, Aimed(I, S),
           NEW r \in applyTombstones(s, S)
    PROVE  r \in GoodState(I) /\ r.fetchQ = s.fetchQ /\ r.inflight = s.inflight
                /\ r.index = s.index
<1> DEFINE f == [p \in Path |-> IF p \in Paths(S) THEN LeafAt(S, p) ELSE s.files[p]]
           dk == [p \in Path |-> IF p \in Paths(S) THEN Absent ELSE s.disk[p]]
           told == Paths({t \in S : ~Redundant(s.files[t.path], t.leaf)})
           msgs(o) == [i \in 1 .. Cardinality(told) |-> UpdateMsg(f, {o[i]})]
<1>1. PICK o \in Orderings(told) :
          r = [s EXCEPT !.files = f, !.disk = dk, !.out = @ \o msgs(o)]
  BY DEF applyTombstones
<1>2. f \in GoodMap(I)
  <2>1. s.files \in GoodMap(I)
    BY DEF GoodState
  <2>2. \A p \in Paths(S) : LeafAt(S, p) \in Good(I)
    BY LeafAtGood
  <2> QED BY <2>1, <2>2 DEF GoodMap
<1>3. dk \in DiskMap
  BY DEF DiskMap, GoodState
<1>4. Cardinality(told) \in Nat
  <2>1. told \subseteq Path
    BY DEF Paths, Aimed
  <2>2. IsFiniteSet(told)
    BY <2>1, FS_Subset, EngineAssumption
  <2> QED BY <2>2, FS_CardinalityType
<1>5. msgs(o) \in Seq(GoodEvent(I))
  <2>1. \A i \in 1 .. Cardinality(told) : UpdateMsg(f, {o[i]}) \in GoodEvent(I)
    BY <1>2, UpdateGood
  <2> HIDE DEF f, told
  <2>2. msgs(o) \in [1 .. Cardinality(told) -> GoodEvent(I)]
    BY <2>1
  <2> HIDE DEF msgs
  <2> QED BY <1>4, <2>2, FunctionIsSeq
<1> HIDE DEF f, dk, msgs, told
<1>6. s.out \o msgs(o) \in Seq(GoodEvent(I))
  BY <1>5 DEF GoodState
<1> QED BY <1>1, <1>2, <1>3, <1>6 DEF GoodState

LEMMA GCGood ==
    ASSUME NEW I \in History, NEW f \in GoodMap(I), NEW idx
    PROVE  gcTombstones(f, idx) \in GoodMap(I)
BY DEF gcTombstones, GoodMap

LEMMA AcceptedGood ==
    ASSUME NEW I, NEW q \in Seq(GoodTask(I)), Len(q) <= FetchQueueDepth,
           NEW tasks \in SUBSET GoodTask(I), NEW T \in Accepted(q, tasks)
    PROVE  /\ T \in Seq(GoodTask(I))
           /\ q \o T \in Seq(GoodTask(I)) /\ Len(q \o T) <= FetchQueueDepth
<1>1. Len(q) \in Nat /\ Room(q) \in Nat
  BY LenProperties, EngineAssumption DEF Room
<1>2. PICK n \in 0 .. Room(q) : T \in [1 .. n -> tasks]
  BY DEF Accepted
<1>3. n \in Nat /\ n <= Room(q)
  BY <1>1, <1>2
<1>4. T \in [1 .. n -> GoodTask(I)]
  BY <1>2
<1>5. T \in Seq(GoodTask(I)) /\ Len(T) = n
  BY <1>3, <1>4, FunctionIsSeq
<1>6. q \o T \in Seq(GoodTask(I)) /\ Len(q \o T) = Len(q) + n
  BY <1>5, ConcatProperties
<1>7. Len(q) + n <= FetchQueueDepth
  BY <1>1, <1>3, EngineAssumption DEF Room
<1> QED BY <1>5, <1>6, <1>7

LEMMA HeldPaths ==
    ASSUME NEW I, NEW T \in Seq(GoodTask(I))
    PROVE  UNION {Held(t) : t \in Range(T)} \subseteq Path
<1>1. \A t \in GoodTask(I) : Held(t) \subseteq Path
  BY DEF Held, GoodTask, GoodCopy
<1>2. \A t \in Range(T) : t \in GoodTask(I)
  BY LenProperties DEF Range
<1> QED BY <1>1, <1>2

\* The tasks that execute hands to the fetch queue.
LEMMA ConflictTaskGood ==
    ASSUME NEW I \in History, NEW c, GoodPlan(I, c), c.kind = "conflict",
           c.preserve # Absent, ~WouldExceedMaxPath(c.preserve.path)
    PROVE  CoupledTask(c.path, c.leaf, c.preserve, TRUE) \in GoodTask(I)
<1>1. c.preserve \in GoodCopy(I)
  BY DEF GoodPlan, GoodCopy, WouldExceedMaxPath
<1> QED BY <1>1 DEF GoodPlan, CoupledTask, GoodTask

LEMMA RenameTaskGood ==
    ASSUME NEW I \in History, NEW c, NEW t, GoodPlan(I, c), GoodPlan(I, t),
           c.kind = "install", ~c.leaf.del, t.kind = "install"
    PROVE  CoupledTask(t.path, t.leaf, [path |-> c.path, leaf |-> c.leaf], FALSE)
              \in GoodTask(I)
<1>1. [path |-> c.path, leaf |-> c.leaf] \in GoodCopy(I)
  BY DEF GoodPlan, GoodCopy
<1>2. [path |-> c.path, leaf |-> c.leaf] # Absent
  <2>1. c.path \in AnyPath
    BY SeqDef DEF GoodPlan, Path, AnyPath
  <2> QED BY <1>1, <2>1, AbsentAssumption DEF GoodCopy, Good
<1> QED BY <1>1, <1>2 DEF GoodPlan, CoupledTask, GoodTask

LEMMA FetchTaskGood ==
    ASSUME NEW I \in History, NEW c, GoodPlan(I, c), c.kind \in {"install", "conflict"}, ~c.leaf.del
    PROVE  FetchTask(c.path, c.leaf) \in GoodTask(I)
BY DEF GoodPlan, FetchTask, GoodTask

LEMMA ExecuteGood ==
    ASSUME NEW I \in History, NEW s \in GoodState(I), NEW P, \A c \in P : GoodPlan(I, c),
           NEW M, \A x \in M : /\ x[1] \in P /\ x[1].kind = "install" /\ ~x[1].leaf.del
                               /\ x[2] \in P /\ x[2].kind = "install",
           NEW u \in Execute(s, P, M)
    PROVE  u \in GoodState(I)
<1> DEFINE free == {c \in P : c.path \notin s.inflight}
           creates == {c \in free : c.kind = "install" /\ ~c.leaf.del} \ {x[1] : x \in M}
           tombs == {c \in free : c.kind = "install" /\ c.leaf.del} \ {x[2] : x \in M}
           conflicts == {c \in P : c.kind = "conflict"}
           custody == {c \in conflicts : Custodian(s, c)}
           copied == {c \in custody \cap free : ~WouldExceedMaxPath(c.preserve.path)}
           removed == {c \in conflicts \ custody : c.leaf.del}
           kept == {c \in (conflicts \ custody) \cap free : ~c.leaf.del}
           A == {CoupledTask(c.path, c.leaf, c.preserve, TRUE) : c \in copied}
           B == {CoupledTask(x[2].path, x[2].leaf,
                             [path |-> x[1].path, leaf |-> x[1].leaf], FALSE) : x \in M}
           C == {FetchTask(c.path, c.leaf) : c \in kept \cup creates}
           tasks == A \cup B \cup C
<1>1. PICK T \in Accepted(s.fetchQ, tasks) :
          u \in {Executed(r, s.index, T) : r \in applyTombstones(s, tombs \cup removed)}
  BY DEF Execute
<1>2. PICK r \in applyTombstones(s, tombs \cup removed) : u = Executed(r, s.index, T)
  BY <1>1
<1>3. \A c \in copied : CoupledTask(c.path, c.leaf, c.preserve, TRUE) \in GoodTask(I)
  <2> SUFFICES ASSUME NEW c \in copied
               PROVE  CoupledTask(c.path, c.leaf, c.preserve, TRUE) \in GoodTask(I)
    OBVIOUS
  <2>1. c \in P /\ c.kind = "conflict" /\ c.preserve # Absent
        /\ ~WouldExceedMaxPath(c.preserve.path)
    BY DEF Custodian
  <2>2. GoodPlan(I, c)
    BY <2>1
  <2> QED BY <2>1, <2>2, ConflictTaskGood
<1>4. \A x \in M : CoupledTask(x[2].path, x[2].leaf,
                       [path |-> x[1].path, leaf |-> x[1].leaf], FALSE) \in GoodTask(I)
  BY RenameTaskGood
<1>5. \A c \in kept \cup creates : FetchTask(c.path, c.leaf) \in GoodTask(I)
  <2> SUFFICES ASSUME NEW c \in kept \cup creates
               PROVE  FetchTask(c.path, c.leaf) \in GoodTask(I)
    OBVIOUS
  <2>1. c \in P /\ c.kind \in {"install", "conflict"} /\ ~c.leaf.del
    OBVIOUS
  <2>2. GoodPlan(I, c)
    BY <2>1
  <2> QED BY <2>1, <2>2, FetchTaskGood
<1>6. tasks \in SUBSET GoodTask(I)
  BY <1>3, <1>4, <1>5
<1>7. Aimed(I, tombs \cup removed)
  <2>1. \A c \in tombs \cup removed : c \in P /\ c.kind \in {"install", "conflict"}
    OBVIOUS
  <2> QED BY <2>1 DEF Aimed, GoodPlan
<1> HIDE DEF tasks, tombs, removed
<1>8. r \in GoodState(I) /\ r.fetchQ = s.fetchQ
  BY <1>2, <1>7, TombstonesGood
<1>9. s.fetchQ \in Seq(GoodTask(I)) /\ Len(s.fetchQ) <= FetchQueueDepth
  BY DEF GoodState
<1>10. T \in Seq(GoodTask(I)) /\ r.fetchQ \o T \in Seq(GoodTask(I))
      /\ Len(r.fetchQ \o T) <= FetchQueueDepth
  BY <1>1, <1>6, <1>8, <1>9, AcceptedGood
<1>11. UNION {Held(t) : t \in Range(T)} \subseteq Path
  BY <1>10, HeldPaths
<1>12. gcTombstones(r.files, s.index) \in GoodMap(I)
  BY <1>8, GCGood DEF GoodState
<1> DEFINE H == UNION {Held(t) : t \in Range(T)}
           G == gcTombstones(r.files, s.index)
           Q == r.fetchQ \o T
<1>13. H \subseteq Path /\ G \in GoodMap(I) /\ Q \in Seq(GoodTask(I)) /\ Len(Q) <= FetchQueueDepth
       /\ u = [r EXCEPT !.files = G, !.inflight = @ \cup H, !.fetchQ = Q]
  BY <1>2, <1>10, <1>11, <1>12 DEF Executed
<1> HIDE DEF H, G, Q
<1> QED BY <1>8, <1>13 DEF GoodState

LEMMA ReconcileGood ==
    ASSUME NEW I \in History, NEW s \in GoodState(I), NEW u \in reconcileWithPeer(s)
    PROVE  u \in GoodState(I)
<1> DEFINE P == Plans(s)
           C == {c \in P : c.kind = "install" /\ ~c.leaf.del /\ c.path \notin s.inflight}
           T == {c \in P : c.kind = "install" /\ c.leaf.del /\ c.path \notin s.inflight}
<1>1. PICK M \in Pairings(C, T, s.files) : u \in Execute(s, P, M)
  BY DEF reconcileWithPeer
<1>2. M \subseteq C \X T
  BY <1>1 DEF Pairings
<1>3. \A x \in M : /\ x[1] \in P /\ x[1].kind = "install" /\ ~x[1].leaf.del
                   /\ x[2] \in P /\ x[2].kind = "install"
  BY <1>2
<1>4. \A c \in P : GoodPlan(I, c)
  BY PlansGood
<1> HIDE DEF P
<1> QED BY <1>1, <1>3, <1>4, ExecuteGood

LEMMA ReconciledGood ==
    ASSUME NEW I \in History, NEW d, NEW S \in SUBSET GoodState(I), NEW u \in Reconciled(d, S)
    PROVE  u \in GoodState(I)
BY ReconcileGood DEF Reconciled

-----------------------------------------------------------------------------
(* The inductive invariant. *)

Queued == \A d \in Device : Len(fetchQ[d]) <= FetchQueueDepth

IInv ==
    /\ up \in [Device -> BOOLEAN]
    /\ disk \in [Device -> DiskMap]
    /\ snap \in [Device -> GoodMap(issued)]
    /\ files \in [Device -> GoodMap(issued)]
    /\ reseed \in [Device -> BOOLEAN]
    /\ peerUp \in [Device -> BOOLEAN]
    /\ index \in [Device -> GoodMap(issued)]
    /\ inflight \in [Device -> SUBSET Path]
    /\ fetchQ \in [Device -> Seq(GoodTask(issued))] /\ Queued
    /\ pulls \in [Device -> SUBSET GoodPull(issued)]
    /\ completions \in [Device -> Seq(GoodCompletion(issued))]
    /\ link \in BOOLEAN
    /\ inq \in [Device -> Seq(GoodEvent(issued))]
    /\ issued \in History
    /\ mine \in [Device -> SUBSET Path]
    /\ left \in [Outside -> Nat]

\* Without deletes, what is recorded, or saved, is on the disk.
Backed ==
    ~MayDelete => \A d \in Device, p \in Path :
                      disk[d][p] = Absent => files[d][p] = Absent /\ snap[d][p] = Absent

\* J extends I: more counters have been issued.
Extends(I, J) == I \in History /\ J \in History /\ \A d \in Device : I[d] \subseteq J[d]

LEMMA PeerType ==
    ASSUME NEW d \in Device
    PROVE  Peer(d) \in Device /\ Peer(d) # d
<1>1. \E e \in Device : e # d
  BY TwoDevices
<1> QED BY <1>1 DEF Peer

LEMMA Monotone ==
    ASSUME NEW I, NEW J, Extends(I, J)
    PROVE  /\ Good(I) \subseteq Good(J) /\ GoodMap(I) \subseteq GoodMap(J)
           /\ GoodTask(I) \subseteq GoodTask(J) /\ GoodPull(I) \subseteq GoodPull(J)
           /\ GoodCompletion(I) \subseteq GoodCompletion(J)
           /\ GoodEvent(I) \subseteq GoodEvent(J)
<1>1. Good(I) \subseteq Good(J)
  BY DEF Good, Extends
<1>2. GoodMap(I) \subseteq GoodMap(J)
  BY <1>1 DEF GoodMap
<1>3. GoodCopy(I) \subseteq GoodCopy(J)
  BY <1>1 DEF GoodCopy
<1>4. GoodTask(I) \subseteq GoodTask(J)
  BY <1>1, <1>3 DEF GoodTask
<1>5. GoodPull(I) \subseteq GoodPull(J)
  BY <1>4 DEF GoodPull
<1>6. GoodCompletion(I) \subseteq GoodCompletion(J)
  BY <1>1 DEF GoodCompletion
<1>7. GoodEvent(I) \subseteq GoodEvent(J)
  BY <1>2 DEF GoodEvent
<1> QED BY <1>1, <1>2, <1>4, <1>5, <1>6, <1>7

LEMMA Widened ==
    ASSUME IInv, NEW J, Extends(issued, J)
    PROVE  /\ snap \in [Device -> GoodMap(J)] /\ files \in [Device -> GoodMap(J)]
           /\ index \in [Device -> GoodMap(J)] /\ fetchQ \in [Device -> Seq(GoodTask(J))]
           /\ pulls \in [Device -> SUBSET GoodPull(J)]
           /\ completions \in [Device -> Seq(GoodCompletion(J))]
           /\ inq \in [Device -> Seq(GoodEvent(J))]
<1>1. /\ GoodMap(issued) \subseteq GoodMap(J)
      /\ GoodTask(issued) \subseteq GoodTask(J) /\ GoodPull(issued) \subseteq GoodPull(J)
      /\ GoodCompletion(issued) \subseteq GoodCompletion(J)
      /\ GoodEvent(issued) \subseteq GoodEvent(J)
  BY Monotone
<1>2. snap \in [Device -> GoodMap(J)] /\ files \in [Device -> GoodMap(J)]
      /\ index \in [Device -> GoodMap(J)]
  BY <1>1 DEF IInv
<1>3. pulls \in [Device -> SUBSET GoodPull(J)]
  BY <1>1 DEF IInv
<1>4. fetchQ \in [Device -> Seq(GoodTask(J))]
  <2>1. Seq(GoodTask(issued)) \subseteq Seq(GoodTask(J))
    BY <1>1, SeqMonotonic
  <2> QED BY <2>1 DEF IInv
<1>5. completions \in [Device -> Seq(GoodCompletion(J))]
  <2>1. Seq(GoodCompletion(issued)) \subseteq Seq(GoodCompletion(J))
    BY <1>1, SeqMonotonic
  <2> QED BY <2>1 DEF IInv
<1>6. inq \in [Device -> Seq(GoodEvent(J))]
  <2>1. Seq(GoodEvent(issued)) \subseteq Seq(GoodEvent(J))
    BY <1>1, SeqMonotonic
  <2> QED BY <2>1 DEF IInv
<1> QED BY <1>2, <1>3, <1>4, <1>5, <1>6

LEMMA LocalGood ==
    ASSUME IInv, NEW J, Extends(issued, J), NEW d \in Device
    PROVE  Local(d) \in GoodState(J)
<1>1. /\ files[d] \in GoodMap(J) /\ index[d] \in GoodMap(J)
      /\ fetchQ[d] \in Seq(GoodTask(J))
  BY Widened
<1>2. <<>> \in Seq(GoodEvent(J))
  OBVIOUS
<1>3. disk[d] \in DiskMap /\ inflight[d] \in SUBSET Path /\ Len(fetchQ[d]) <= FetchQueueDepth
  BY DEF IInv, Queued
<1> QED BY <1>1, <1>2, <1>3 DEF Local, GoodState

\* A handler that ends in a good state leaves the tables of its daemon good.
LEMMA CommitGood ==
    ASSUME IInv, NEW J, Extends(issued, J), NEW d \in Device, NEW s \in GoodState(J),
           NEW rest \in Seq(GoodEvent(J)), NEW known, Commit(d, s, rest, known)
    PROVE  /\ files' \in [Device -> GoodMap(J)] /\ disk' \in [Device -> DiskMap]
           /\ index' \in [Device -> GoodMap(J)] /\ inflight' \in [Device -> SUBSET Path]
           /\ fetchQ' \in [Device -> Seq(GoodTask(J))] /\ Queued'
           /\ inq' \in [Device -> Seq(GoodEvent(J))] /\ mine' \in [Device -> SUBSET Path]
<1>1. /\ files \in [Device -> GoodMap(J)] /\ index \in [Device -> GoodMap(J)]
      /\ fetchQ \in [Device -> Seq(GoodTask(J))] /\ inq \in [Device -> Seq(GoodEvent(J))]
  BY Widened
<1>2. /\ s.files \in GoodMap(J) /\ s.disk \in DiskMap /\ s.index \in GoodMap(J)
      /\ s.inflight \in SUBSET Path /\ s.fetchQ \in Seq(GoodTask(J))
      /\ Len(s.fetchQ) <= FetchQueueDepth /\ s.out \in Seq(GoodEvent(J))
  BY DEF GoodState
<1>3. files' \in [Device -> GoodMap(J)] /\ index' \in [Device -> GoodMap(J)]
  BY <1>1, <1>2 DEF Commit
<1>4. disk' \in [Device -> DiskMap] /\ inflight' \in [Device -> SUBSET Path]
      /\ mine' \in [Device -> SUBSET Path]
  BY <1>2 DEF Commit, IInv
<1>5. fetchQ' \in [Device -> Seq(GoodTask(J))] /\ Queued'
  BY <1>1, <1>2 DEF Commit, Queued, IInv
<1>6. inq' \in [Device -> Seq(GoodEvent(J))]
  <2> DEFINE sent == IF known /\ Talking(rest) THEN s.out ELSE <<>>
             more == inq[Peer(d)] \o sent
  <2>1. Peer(d) \in Device /\ Peer(d) # d
    BY PeerType
  <2>2. sent \in Seq(GoodEvent(J))
    BY <1>2
  <2>3. inq' = [inq EXCEPT ![d] = rest, ![Peer(d)] = more]
    BY <2>1 DEF Commit
  <2> HIDE DEF sent
  <2>4. more \in Seq(GoodEvent(J))
    BY <1>1, <2>1, <2>2, ConcatProperties
  <2> HIDE DEF more
  <2> QED BY <1>1, <2>3, <2>4
<1> QED BY <1>3, <1>4, <1>5, <1>6

-----------------------------------------------------------------------------
(* Authorship. *)

\* The leaves d may author over I: good but for d's own counter, which Issue records.
Claimed(I, d) == {l \in Leaf : /\ \A e \in Device \ {d} : l.vv[e] \in I[e]
                               /\ l.hash \in Content <=> ~l.del
                               /\ l.del => MayDelete}
ClaimedMap(I, d) == [Path -> Claimed(I, d) \cup {Absent}]

LEMMA GoodIsClaimed ==
    ASSUME NEW I \in History, NEW d \in Device
    PROVE  Good(I) \subseteq Claimed(I, d)
BY DEF Good, Claimed

LEMMA IssueGood ==
    ASSUME IInv, NEW d \in Device, NEW f \in ClaimedMap(issued, d), Issue(d, f)
    PROVE  Extends(issued, issued') /\ f \in GoodMap(issued')
<1> DEFINE own == {f[p].vv[d] : p \in {q \in Path : f[q] # Absent /\ f[q] # files[d][q]}}
<1>1. issued \in History /\ issued' = [issued EXCEPT ![d] = @ \cup own]
  BY DEF IInv, Issue
<1>2. own \subseteq Nat
  <2>1. \A p \in Path : f[p] # Absent => f[p] \in Leaf
    BY DEF ClaimedMap, Claimed
  <2>2. \A l \in Leaf : l.vv[d] \in Nat
    BY DEF Leaf, VersionVector
  <2> QED BY <2>1, <2>2
<1>3. \A p \in Path : f[p] # Absent /\ f[p] # files[d][p] => f[p].vv[d] \in own
  OBVIOUS
<1> HIDE DEF own
<1>4. issued' \in History /\ \A e \in Device : issued[e] \subseteq issued'[e]
  BY <1>1, <1>2 DEF History
<1>5. Extends(issued, issued')
  BY <1>1, <1>4 DEF Extends
<1>6. ASSUME NEW p \in Path, f[p] # Absent
      PROVE  f[p] \in Good(issued')
  <2>1. f[p] \in Claimed(issued, d)
    BY <1>6 DEF ClaimedMap
  <2>2. CASE f[p] = files[d][p]
    <3>1. files \in [Device -> GoodMap(issued')]
      BY <1>5, Widened
    <3> QED BY <2>2, <3>1, <1>6 DEF GoodMap
  <2>3. CASE f[p] # files[d][p]
    <3>1. f[p].vv[d] \in issued'[d]
      BY <1>1, <1>3, <1>6, <2>3 DEF History
    <3>2. \A e \in Device \ {d} : f[p].vv[e] \in issued'[e]
      BY <2>1, <1>4 DEF Claimed
    <3> QED BY <2>1, <3>1, <3>2 DEF Claimed, Good
  <2> QED BY <2>2, <2>3
<1>7. f \in GoodMap(issued')
  BY <1>6 DEF GoodMap, ClaimedMap
<1> QED BY <1>5, <1>7

LEMMA BumpClaimed ==
    ASSUME NEW I \in History, NEW d \in Device, NEW l \in Leaf, NEW v \in VersionVector,
           \A e \in Device : v[e] \in I[e], l.vv = Bump(v, d), l.hash \in Content <=> ~l.del,
           l.del => MayDelete
    PROVE  l \in Claimed(I, d)
BY BumpType DEF Claimed

LEMMA HistoryOfType ==
    ASSUME NEW I \in History, NEW l \in Good(I) \cup {Absent}
    PROVE  HistoryOf(l) \in VersionVector /\ \A e \in Device : HistoryOf(l)[e] \in I[e]
BY EmptyGood DEF HistoryOf, Good, Leaf, EmptyVV, History

LEMMA ScannedGood ==
    ASSUME NEW I \in History, NEW x \in File
    PROVE  /\ Scanned(x) = [hash |-> x.hash, mtime |-> x.mtime, vv |-> EmptyVV, del |-> FALSE]
           /\ Scanned(x) \in Good(I)
BY EmptyGood DEF Scanned, File, Leaf, Good, EmptyVV, History

LEMMA AuthoredClaimed ==
    ASSUME NEW I \in History, NEW d \in Device, NEW prev \in Good(I) \cup {Absent},
           NEW x \in File
    PROVE  Authored(prev, x, d) \in Claimed(I, d)
<1> DEFINE v == HistoryOf(prev)
<1>1. v \in VersionVector /\ \A e \in Device : v[e] \in I[e]
  BY HistoryOfType
<1>2. Bump(v, d) \in VersionVector
  BY <1>1, BumpType
<1> HIDE DEF v
<1>3. Scanned(x) \in Leaf /\ Scanned(x).hash \in Content /\ Scanned(x).del = FALSE
  BY ScannedGood DEF Good, File
<1>4. Authored(prev, x, d) = [Scanned(x) EXCEPT !.vv = Bump(v, d)]
  BY DEF Authored, v
<1>5. /\ Authored(prev, x, d) \in Leaf /\ Authored(prev, x, d).vv = Bump(v, d)
      /\ Authored(prev, x, d).hash \in Content /\ Authored(prev, x, d).del = FALSE
  BY <1>2, <1>3, <1>4, Reversioned
<1> QED BY <1>1, <1>5, BumpClaimed

LEMMA DeletedClaimed ==
    ASSUME MayDelete, NEW I \in History, NEW d \in Device, NEW l \in Good(I)
    PROVE  SetDeleted(l, d) \in Claimed(I, d)
<1>1. l \in Leaf /\ l.vv \in VersionVector /\ \A e \in Device : l.vv[e] \in I[e]
  BY DEF Good, Leaf
<1>2. Bump(l.vv, d) \in VersionVector
  BY <1>1, BumpType
<1>3. /\ SetDeleted(l, d) \in Leaf /\ SetDeleted(l, d).vv = Bump(l.vv, d)
      /\ SetDeleted(l, d).hash = 0 /\ SetDeleted(l, d).del = TRUE
  BY <1>1, <1>2 DEF SetDeleted, Leaf
<1>4. 0 \notin Content
  BY DataAssumption
<1> QED BY <1>1, <1>3, <1>4, BumpClaimed

LEMMA StartupClaimed ==
    ASSUME NEW I \in History, NEW d \in Device, NEW sn \in GoodMap(I), NEW dk \in DiskMap,
           ~MayDelete => \A p \in Path : dk[p] = Absent => sn[p] = Absent
    PROVE  startupFiles(sn, dk, d) \in ClaimedMap(I, d)
<1> SUFFICES ASSUME NEW p \in Path
             PROVE  startupFiles(sn, dk, d)[p] \in Claimed(I, d) \cup {Absent}
  BY DEF startupFiles, ClaimedMap
<1>1. sn[p] \in Good(I) \cup {Absent} /\ dk[p] \in File \cup {Absent}
  BY DEF GoodMap, DiskMap
<1>2. CASE dk[p] = Absent
  <2>1. sn[p] # Absent => SetDeleted(sn[p], d) \in Claimed(I, d)
    BY <1>1, <1>2, DeletedClaimed
  <2> QED BY <1>1, <1>2, <2>1, GoodIsClaimed DEF startupFiles, synthesizeDeletion, Live
<1>3. CASE dk[p] # Absent
  <2> DEFINE x == dk[p]
             l == sn[p]
  <2>1. x \in File /\ l \in Good(I) \cup {Absent}
    BY <1>1, <1>3
  <2>2. Scanned(x) \in Claimed(I, d) /\ Authored(l, x, d) \in Claimed(I, d)
    BY <2>1, ScannedGood, AuthoredClaimed, GoodIsClaimed
  <2>3. Live(l) => [Scanned(x) EXCEPT !.vv = l.vv] \in Claimed(I, d)
    <3> SUFFICES ASSUME Live(l)
                 PROVE  [Scanned(x) EXCEPT !.vv = l.vv] \in Good(I)
      BY GoodIsClaimed
    <3>1. l \in Good(I)
      BY <2>1 DEF Live
    <3>2. l.vv \in VersionVector /\ \A e \in Device : l.vv[e] \in I[e]
      BY <3>1 DEF Good, Leaf
    <3>3. Scanned(x) \in Leaf /\ (Scanned(x).hash \in Content <=> ~Scanned(x).del)
          /\ (Scanned(x).del => MayDelete)
      BY <2>1, ScannedGood DEF Good
    <3> QED BY <3>2, <3>3, Reversioned DEF Good
  <2>4. startupFiles(sn, dk, d)[p] = restoreVV(l, x, d)
    BY <1>3 DEF startupFiles
  <2> HIDE DEF x, l
  <2>5. restoreVV(l, x, d) \in
            {Scanned(x), Authored(l, x, d)} \cup
            (IF Live(l) THEN {[Scanned(x) EXCEPT !.vv = l.vv]} ELSE {})
    BY DEF restoreVV, Live
  <2> QED BY <2>2, <2>3, <2>4, <2>5
<1> QED BY <1>2, <1>3

LEMMA DetectedClaimed ==
    ASSUME IInv, Backed, NEW d \in Device, NEW p \in Path
    PROVE  Detected(d, p) \in Claimed(issued, d) \cup {Absent}
<1> DEFINE prev == files[d][p]
           x == disk[d][p]
<1>1. issued \in History /\ prev \in Good(issued) \cup {Absent} /\ x \in File \cup {Absent}
  BY DEF IInv, GoodMap, DiskMap
<1>2. prev \in Claimed(issued, d) \cup {Absent}
  BY <1>1, GoodIsClaimed
<1>3. Live(prev) => prev \in Good(issued)
  BY <1>1 DEF Live
<1>4. x = Absent /\ Live(prev) => SetDeleted(prev, d) \in Claimed(issued, d)
  BY <1>1, <1>3, DeletedClaimed DEF Backed, Live
<1>5. x # Absent => Authored(prev, x, d) \in Claimed(issued, d)
  BY <1>1, AuthoredClaimed
<1>6. x # Absent /\ Live(prev) => [prev EXCEPT !.mtime = x.mtime] \in Claimed(issued, d)
  <2> SUFFICES ASSUME x # Absent, Live(prev)
               PROVE  [prev EXCEPT !.mtime = x.mtime] \in Claimed(issued, d)
    OBVIOUS
  <2>1. prev \in Claimed(issued, d) /\ x.mtime \in MTime
    BY <1>1, <1>2 DEF File, Live
  <2> HIDE DEF prev
  <2> QED BY <2>1 DEF Claimed, Leaf
<1> QED BY <1>2, <1>4, <1>5, <1>6 DEF Detected, Unchanged

LEMMA ReseedClaimed ==
    ASSUME NEW I \in History, NEW d \in Device, NEW lf \in Good(I), NEW pf \in Good(I)
    PROVE  reseeded(lf, pf, d) \in Claimed(I, d)
<1>1. lf \in Leaf /\ pf.vv \in VersionVector /\ \A e \in Device : pf.vv[e] \in I[e]
  BY DEF Good, Leaf
<1>2. Bump(pf.vv, d) \in VersionVector
  BY <1>1, BumpType
<1>3. (lf.hash \in Content <=> ~lf.del) /\ (lf.del => MayDelete)
  BY DEF Good
<1>4. [lf EXCEPT !.vv = Bump(pf.vv, d)] \in Claimed(I, d)
  BY <1>1, <1>2, <1>3, Reversioned, BumpClaimed
<1>5. [lf EXCEPT !.vv = pf.vv] \in Claimed(I, d)
  BY <1>1, <1>3, Reversioned DEF Claimed
<1> QED BY <1>4, <1>5 DEF reseeded

-----------------------------------------------------------------------------
(* One lemma per action: it preserves IInv. *)

LEMMA NoIssue ==
    ASSUME IInv
    PROVE  Extends(issued, issued)
BY DEF IInv, Extends

LEMMA SpendType ==
    ASSUME IInv, NEW o \in Outside, Spend(o)
    PROVE  left' \in [Outside -> Nat]
BY DEF IInv, Spend

LEMMA UserInv ==
    ASSUME IInv, NEW d \in Device, User(d)
    PROVE  IInv'
<1> PICK p \in UserPath :
        \/ \E c \in Content, m \in MTime : UserWrite(d, p, c, m)
        \/ UserDelete(d, p)
        \/ \E m \in MTime : UserTouch(d, p, m)
  BY DEF User
<1>0. p \in Path
  <2>1. <<>> \in [1 .. 0 -> Tag] /\ 0 \in 0 .. MaxCopyDepth
    BY DataAssumption
  <2>2. <<>> \in UNION {[1 .. n -> Tag] : n \in 0 .. MaxCopyDepth}
    BY <2>1
  <2> QED BY <2>2 DEF UserPath, Path
<1>1. /\ UNCHANGED <<up, snap, loopVars, pulls, completions, link, inq, issued>>
      /\ left' \in [Outside -> Nat]
  BY SpendType DEF UserWrite, UserDelete, UserTouch, Outside
<1>2. disk' \in [Device -> DiskMap] /\ mine' \in [Device -> SUBSET Path]
  <2>1. CASE \E c \in Content, m \in MTime : UserWrite(d, p, c, m)
    <3>1. PICK c \in Content, m \in MTime : UserWrite(d, p, c, m)
      BY <2>1
    <3>2. [hash |-> c, mtime |-> m] \in File
      BY DEF File
    <3> QED BY <1>0, <3>1, <3>2 DEF UserWrite, IInv, DiskMap
  <2>2. CASE UserDelete(d, p)
    BY <1>0, <2>2 DEF UserDelete, IInv, DiskMap
  <2>3. CASE \E m \in MTime : UserTouch(d, p, m)
    <3>1. PICK m \in MTime : UserTouch(d, p, m)
      BY <2>3
    <3>2. disk[d] \in DiskMap /\ disk[d][p] \in File
      BY <1>0, <3>1 DEF UserTouch, IInv, DiskMap
    <3>3. [disk[d][p] EXCEPT !.mtime = m] \in File
      BY <3>2 DEF File
    <3>4. disk' = [disk EXCEPT ![d] = [disk[d] EXCEPT ![p] = [disk[d][p] EXCEPT !.mtime = m]]]
      BY <3>1 DEF UserTouch
    <3>5. [disk[d] EXCEPT ![p] = [disk[d][p] EXCEPT !.mtime = m]] \in DiskMap
      BY <1>0, <3>2, <3>3 DEF DiskMap
    <3>6. disk' \in [Device -> DiskMap]
      BY <3>4, <3>5 DEF IInv
    <3> QED BY <3>1, <3>6 DEF UserTouch, IInv
  <2> QED BY <2>1, <2>2, <2>3
<1> QED BY <1>1, <1>2 DEF IInv, Queued, loopVars

LEMMA ConnectInv ==
    ASSUME IInv, Connect
    PROVE  IInv'
<1>1. \A d \in Device : Append(inq[d], Connected(files[Peer(d)])) \in Seq(GoodEvent(issued))
  <2> TAKE d \in Device
  <2>1. files[Peer(d)] \in GoodMap(issued) /\ inq[d] \in Seq(GoodEvent(issued))
    BY PeerType DEF IInv
  <2>2. Connected(files[Peer(d)]) \in GoodEvent(issued)
    BY <2>1 DEF Connected, GoodEvent
  <2> QED BY <2>1, <2>2
<1>2. inq' \in [Device -> Seq(GoodEvent(issued))]
  BY <1>1 DEF Connect
<1> QED BY <1>2 DEF Connect, IInv, Queued, loopVars

LEMMA SeveredGood ==
    ASSUME IInv, NEW d \in Device, NEW q \in Severed(d)
    PROVE  q \in Seq(GoodEvent(issued))
<1>1. PICK k \in 0 .. Len(inq[d]) : q = Append(SubSeq(inq[d], 1, k), Disconnected)
  BY DEF Severed
<1>2. inq[d] \in Seq(GoodEvent(issued)) /\ Len(inq[d]) \in Nat
  BY LenProperties DEF IInv
<1>3. SubSeq(inq[d], 1, k) \in Seq(GoodEvent(issued))
  BY <1>1, <1>2, SubSeqProperties
<1>4. Disconnected \in GoodEvent(issued)
  BY EmptyGood DEF Disconnected, GoodEvent, IInv
<1> QED BY <1>1, <1>3, <1>4

LEMMA DropInv ==
    ASSUME IInv, Drop
    PROVE  IInv'
<1>1. inq' \in [Device -> UNION {Severed(d) : d \in Device}]
      /\ \A d \in Device : inq'[d] \in Severed(d)
  BY DEF Drop
<1>2. inq' \in [Device -> Seq(GoodEvent(issued))]
  BY <1>1, SeveredGood
<1>3. left' \in [Outside -> Nat]
  BY SpendType DEF Drop, Outside
<1> QED BY <1>2, <1>3 DEF Drop, IInv, Queued, loopVars

LEMMA HeadEvent ==
    ASSUME IInv, NEW d \in Device, inq[d] # <<>>
    PROVE  /\ Head(inq[d]) \in GoodEvent(issued) /\ Head(inq[d]).body \in GoodMap(issued)
           /\ Tail(inq[d]) \in Seq(GoodEvent(issued))
<1>1. inq[d] \in Seq(GoodEvent(issued))
  BY DEF IInv
<1>2. Head(inq[d]) \in GoodEvent(issued) /\ Tail(inq[d]) \in Seq(GoodEvent(issued))
  BY <1>1, HeadTailProperties
<1> QED BY <1>2 DEF GoodEvent

\* A handler that commits a good state and leaves the rest alone.
LEMMA HandlerInv ==
    ASSUME IInv, NEW d \in Device, NEW s \in GoodState(issued'), Extends(issued, issued'),
           NEW rest \in Seq(GoodEvent(issued')), NEW known, Commit(d, s, rest, known),
           up' \in [Device -> BOOLEAN], snap' \in [Device -> GoodMap(issued')],
           reseed' \in [Device -> BOOLEAN], peerUp' \in [Device -> BOOLEAN],
           pulls' \in [Device -> SUBSET GoodPull(issued')],
           completions' \in [Device -> Seq(GoodCompletion(issued'))],
           UNCHANGED <<link, left>>
    PROVE  IInv'
<1>1. /\ files' \in [Device -> GoodMap(issued')] /\ disk' \in [Device -> DiskMap]
      /\ index' \in [Device -> GoodMap(issued')] /\ inflight' \in [Device -> SUBSET Path]
      /\ fetchQ' \in [Device -> Seq(GoodTask(issued'))] /\ Queued'
      /\ inq' \in [Device -> Seq(GoodEvent(issued'))] /\ mine' \in [Device -> SUBSET Path]
  BY CommitGood
<1> QED BY <1>1 DEF IInv, Extends

\* addPeer and removePeer start from an empty index, no inflight and an empty queue.
LEMMA FreshPeer ==
    ASSUME NEW I \in History, NEW s \in GoodState(I)
    PROVE  [s EXCEPT !.index = EmptyMap, !.inflight = {}, !.fetchQ = <<>>] \in GoodState(I)
<1>1. EmptyMap \in GoodMap(I)
  BY EmptyGood
<1>2. <<>> \in Seq(GoodTask(I)) /\ Len(<<>>) <= FetchQueueDepth
  BY EngineAssumption
<1> DEFINE q == <<>>
<1>3. q \in Seq(GoodTask(I)) /\ Len(q) <= FetchQueueDepth
  BY <1>2
<1> HIDE DEF q
<1>4. [s EXCEPT !.index = EmptyMap, !.inflight = {}, !.fetchQ = q] \in GoodState(I)
  BY <1>1, <1>3 DEF GoodState
<1> QED BY <1>4 DEF q

LEMMA ConnectedInv ==
    ASSUME IInv, NEW d \in Device, onPeerConnected(d)
    PROVE  IInv'
<1> DEFINE s == [Local(d) EXCEPT !.index = EmptyMap, !.inflight = {}, !.fetchQ = <<>>]
           t == IF Root(Head(inq[d]).body) = Root(files[d]) THEN s
                ELSE [s EXCEPT !.out = <<IndexMsg(files[d])>>]
<1>1. Local(d) \in GoodState(issued) /\ Extends(issued, issued)
  BY NoIssue, LocalGood
<1>2. s \in GoodState(issued)
  BY <1>1, FreshPeer DEF IInv
<1>3. IndexMsg(files[d]) \in GoodEvent(issued)
  BY DEF IndexMsg, GoodEvent, IInv
<1>4. t \in GoodState(issued)
  <2>1. <<IndexMsg(files[d])>> \in Seq(GoodEvent(issued))
    BY <1>3
  <2> HIDE DEF s
  <2> QED BY <1>2, <2>1 DEF GoodState
<1>5. Commit(d, t, Tail(inq[d]), TRUE) /\ inq[d] # <<>>
  BY DEF onPeerConnected, Receives
<1> HIDE DEF t
<1>6. Tail(inq[d]) \in Seq(GoodEvent(issued))
  BY <1>5, HeadEvent
<1>7. issued' = issued /\ UNCHANGED <<up, snap, reseed, pulls, completions, link, left>>
      /\ peerUp' = [peerUp EXCEPT ![d] = TRUE]
  BY DEF onPeerConnected
<1> QED BY <1>1, <1>4, <1>5, <1>6, <1>7, HandlerInv DEF IInv

LEMMA StartPullGood ==
    ASSUME NEW I, NEW t \in GoodTask(I)
    PROVE  StartPull(t) \in GoodPull(I)
BY DEF StartPull, GoodPull, GoodTask

LEMMA RemovedInv ==
    ASSUME IInv, NEW d \in Device, removePeer(d)
    PROVE  IInv'
<1> DEFINE s == [Local(d) EXCEPT !.index = EmptyMap, !.inflight = {}, !.fetchQ = <<>>]
<1>1. Local(d) \in GoodState(issued) /\ Extends(issued, issued)
  BY NoIssue, LocalGood
<1>2. s \in GoodState(issued)
  BY <1>1, FreshPeer DEF IInv
<1>3. Commit(d, s, Tail(inq[d]), FALSE) /\ inq[d] # <<>>
  BY DEF removePeer, Receives
<1> HIDE DEF s
<1>4. Tail(inq[d]) \in Seq(GoodEvent(issued))
  BY <1>3, HeadEvent
<1>5. issued' = issued /\ UNCHANGED <<up, snap, reseed, completions, link, left>>
      /\ peerUp' = [peerUp EXCEPT ![d] = FALSE]
  BY DEF removePeer
<1>6. pulls' \in [Device -> SUBSET GoodPull(issued)]
  <2>1. PICK k \in 0 .. Len(fetchQ[d]) :
            pulls' = [pulls EXCEPT ![d] = {[x EXCEPT !.old = TRUE] :
                         x \in @ \cup {StartPull(fetchQ[d][i]) : i \in 1 .. k}}]
    BY DEF removePeer
  <2>2. \A i \in 1 .. k : fetchQ[d][i] \in GoodTask(issued)
    BY LenProperties DEF IInv
  <2>3. pulls[d] \cup {StartPull(fetchQ[d][i]) : i \in 1 .. k} \subseteq GoodPull(issued)
    BY <2>2, StartPullGood DEF IInv
  <2>4. \A x \in GoodPull(issued) : [x EXCEPT !.old = TRUE] \in GoodPull(issued)
    BY DEF GoodPull
  <2> DEFINE S == pulls[d] \cup {StartPull(fetchQ[d][i]) : i \in 1 .. k}
             O == {[x EXCEPT !.old = TRUE] : x \in S}
  <2>5. O \subseteq GoodPull(issued)
    <3> HIDE DEF S
    <3> QED BY <2>3, <2>4 DEF S
  <2>6. pulls' = [pulls EXCEPT ![d] = O]
    BY <2>1
  <2> HIDE DEF O
  <2> QED BY <2>5, <2>6 DEF IInv
<1> QED BY <1>1, <1>2, <1>3, <1>4, <1>5, <1>6, HandlerInv DEF IInv

\* doReseed gives leaves a history, not another content.
LEMMA ReseedMap ==
    ASSUME IInv, NEW d \in Device, NEW idx \in GoodMap(issued), NEW B \in SUBSET Path,
           \A p \in B : NeedsReseed(files[d][p], idx[p]),
           NEW f, f = [p \in Path |-> IF p \in B THEN reseeded(files[d][p], idx[p], d)
                                     ELSE files[d][p]]
    PROVE  /\ f \in ClaimedMap(issued, d)
           /\ \A p \in Path : /\ f[p] = Absent <=> files[d][p] = Absent
                              /\ HashOf(f[p]) = HashOf(files[d][p])
<1> SUFFICES ASSUME NEW p \in Path
             PROVE  /\ f[p] \in Claimed(issued, d) \cup {Absent}
                    /\ f[p] = Absent <=> files[d][p] = Absent
                    /\ HashOf(f[p]) = HashOf(files[d][p])
  BY DEF ClaimedMap
<1>1. files[d][p] \in Good(issued) \cup {Absent} /\ idx[p] \in Good(issued) \cup {Absent}
      /\ issued \in History
  BY DEF IInv, GoodMap
<1>2. CASE p \in B
  <2>1. /\ files[d][p] \in Good(issued) /\ idx[p] \in Good(issued)
        /\ files[d][p] \in Leaf /\ files[d][p] # Absent
    BY <1>1, <1>2 DEF NeedsReseed, Live, Good
  <2>2. f[p] = reseeded(files[d][p], idx[p], d) /\ f[p] \in Claimed(issued, d)
    BY <1>1, <1>2, <2>1, ReseedClaimed
  <2>3. f[p] # Absent
    BY <2>2, AbsentAssumption DEF Claimed
  <2>4. f[p].hash = files[d][p].hash
    BY <2>1, <2>2 DEF reseeded, Leaf
  <2> QED BY <2>1, <2>2, <2>3, <2>4 DEF HashOf
<1>3. CASE p \notin B
  BY <1>1, <1>3, GoodIsClaimed
<1> QED BY <1>2, <1>3

LEMMA IndexInv ==
    ASSUME IInv, NEW d \in Device, onIndex(d)
    PROVE  IInv'
<1> DEFINE idx == Head(inq[d]).body
           bumped == {p \in Path : reseed[d] /\ NeedsReseed(files[d][p], idx[p])}
           f == [p \in Path |-> IF p \in bumped THEN reseeded(files[d][p], idx[p], d)
                                ELSE files[d][p]]
           s == broadcastUpdate([Local(d) EXCEPT !.index = idx, !.files = f], bumped)
<1>1. /\ inq[d] # <<>>
      /\ UNCHANGED <<up, snap, peerUp, pulls, completions, link, left>>
      /\ \/ /\ peerUp[d] /\ \E r \in Reconciled(d, {s}) : Commit(d, r, Tail(inq[d]), TRUE)
            /\ reseed' = [reseed EXCEPT ![d] = FALSE] /\ Issue(d, f)
         \/ /\ Commit(d, Local(d), Tail(inq[d]), FALSE) /\ UNCHANGED <<reseed, issued>>
  BY DEF onIndex, Receives
<1>2. idx \in GoodMap(issued) /\ files[d] \in GoodMap(issued)
      /\ Tail(inq[d]) \in Seq(GoodEvent(issued)) /\ issued \in History
  BY <1>1, HeadEvent DEF IInv
<1>3. f \in ClaimedMap(issued, d)
  BY <1>2, ReseedMap
<1> HIDE DEF idx, f, bumped
<1>4. CASE peerUp[d] /\ Issue(d, f)
           /\ \E r \in Reconciled(d, {s}) : Commit(d, r, Tail(inq[d]), TRUE)
           /\ reseed' = [reseed EXCEPT ![d] = FALSE]
  <2>1. Extends(issued, issued') /\ f \in GoodMap(issued')
    BY <1>3, <1>4, IssueGood
  <2>2. Local(d) \in GoodState(issued')
    BY <2>1, LocalGood
  <2>3. idx \in GoodMap(issued') /\ Tail(inq[d]) \in Seq(GoodEvent(issued'))
    BY <1>2, <2>1, Monotone, SeqMonotonic
  <2>4. [Local(d) EXCEPT !.index = idx, !.files = f] \in GoodState(issued')
    BY <2>1, <2>2, <2>3 DEF GoodState
  <2>5. s \in GoodState(issued')
    BY <2>1, <2>4, BroadcastGood DEF Extends
  <2> HIDE DEF s
  <2>6. PICK r \in Reconciled(d, {s}) : Commit(d, r, Tail(inq[d]), TRUE)
    BY <1>4
  <2>7. r \in GoodState(issued')
    BY <2>1, <2>5, <2>6, ReconciledGood DEF Extends
  <2>8. /\ snap' \in [Device -> GoodMap(issued')]
        /\ pulls' \in [Device -> SUBSET GoodPull(issued')]
        /\ completions' \in [Device -> Seq(GoodCompletion(issued'))]
    BY <1>1, <2>1, Widened
  <2>9. up' \in [Device -> BOOLEAN] /\ reseed' \in [Device -> BOOLEAN]
        /\ peerUp' \in [Device -> BOOLEAN]
    BY <1>1, <1>4 DEF IInv
  <2> QED BY <1>1, <2>1, <2>3, <2>6, <2>7, <2>8, <2>9, HandlerInv
<1>5. CASE Commit(d, Local(d), Tail(inq[d]), FALSE) /\ UNCHANGED <<reseed, issued>>
  <2>1. Local(d) \in GoodState(issued) /\ Extends(issued, issued)
    BY NoIssue, LocalGood
  <2> QED BY <1>1, <1>2, <1>5, <2>1, HandlerInv DEF IInv
<1> QED BY <1>1, <1>4, <1>5

LEMMA IndexUpdateInv ==
    ASSUME IInv, NEW d \in Device, onIndexUpdate(d)
    PROVE  IInv'
<1> DEFINE idx == Merged(index[d], Head(inq[d]).body)
           s == [Local(d) EXCEPT !.index = idx]
<1>1. /\ inq[d] # <<>>
      /\ UNCHANGED <<up, snap, reseed, peerUp, pulls, completions, link, issued, left>>
      /\ \/ \E r \in Reconciled(d, {s}) : Commit(d, r, Tail(inq[d]), TRUE)
         \/ Commit(d, Local(d), Tail(inq[d]), FALSE)
  BY DEF onIndexUpdate, Receives, Local
<1>2. Head(inq[d]).body \in GoodMap(issued) /\ index[d] \in GoodMap(issued)
      /\ Tail(inq[d]) \in Seq(GoodEvent(issued)) /\ issued \in History
  BY <1>1, HeadEvent DEF IInv
<1>3. idx \in GoodMap(issued)
  BY <1>2 DEF Merged, GoodMap
<1>4. Local(d) \in GoodState(issued) /\ Extends(issued, issued)
  BY NoIssue, LocalGood
<1> HIDE DEF idx
<1>5. s \in GoodState(issued)
  BY <1>3, <1>4 DEF GoodState
<1> HIDE DEF s
<1>6. PICK r \in GoodState(issued), known \in BOOLEAN : Commit(d, r, Tail(inq[d]), known)
  BY <1>1, <1>2, <1>4, <1>5, ReconciledGood
<1> QED BY <1>1, <1>2, <1>4, <1>6, HandlerInv DEF IInv

LEMMA LocalChangeInv ==
    ASSUME IInv, Backed, NEW d \in Device, NEW p \in Path, onLocalChange(d, p)
    PROVE  IInv'
<1> DEFINE f == [files[d] EXCEPT ![p] = Detected(d, p)]
           s == [Local(d) EXCEPT !.files = f]
           t == broadcastUpdate(s, News(d, f, {p}))
<1>1. /\ Commit(d, t, inq[d], peerUp[d]) /\ Issue(d, f)
      /\ UNCHANGED <<up, snap, reseed, peerUp, pulls, completions, link, left>>
  BY DEF onLocalChange
<1>2. f \in ClaimedMap(issued, d)
  <2>1. files[d] \in ClaimedMap(issued, d)
    BY GoodIsClaimed DEF IInv, GoodMap, ClaimedMap
  <2>2. Detected(d, p) \in Claimed(issued, d) \cup {Absent}
    BY DetectedClaimed
  <2> QED BY <2>1, <2>2 DEF ClaimedMap
<1> HIDE DEF f
<1>3. Extends(issued, issued') /\ f \in GoodMap(issued')
  BY <1>1, <1>2, IssueGood
<1>4. Local(d) \in GoodState(issued')
  BY <1>3, LocalGood
<1>5. s \in GoodState(issued')
  BY <1>3, <1>4 DEF GoodState
<1> HIDE DEF s
<1>6. t \in GoodState(issued')
  BY <1>3, <1>5, BroadcastGood DEF Extends
<1> HIDE DEF t
<1>7. /\ snap' \in [Device -> GoodMap(issued')] /\ pulls' \in [Device -> SUBSET GoodPull(issued')]
      /\ completions' \in [Device -> Seq(GoodCompletion(issued'))]
      /\ inq[d] \in Seq(GoodEvent(issued'))
  BY <1>1, <1>3, Widened
<1> QED BY <1>1, <1>3, <1>6, <1>7, HandlerInv DEF IInv

LEMMA RescanInv ==
    ASSUME IInv, Backed, NEW d \in Device, rescan(d)
    PROVE  IInv'
<1> DEFINE f == [p \in Path |-> Detected(d, p)]
           told == broadcastUpdate([Local(d) EXCEPT !.files = f], News(d, f, Path))
           g == IF peerUp[d] THEN gcTombstones(f, index[d]) ELSE f
           s == [told EXCEPT !.files = g]
<1>1. Issue(d, f) /\ UNCHANGED <<up, reseed, peerUp, pulls, completions, link, left>>
  BY DEF rescan
<1>2. PICK r \in Reconciled(d, {s}) :
          Commit(d, r, inq[d], peerUp[d]) /\ snap' = [snap EXCEPT ![d] = Saved(d, r.files)]
  BY DEF rescan
<1>3. f \in ClaimedMap(issued, d)
  BY DetectedClaimed DEF ClaimedMap
<1> HIDE DEF f
<1>4. Extends(issued, issued') /\ f \in GoodMap(issued')
  BY <1>1, <1>3, IssueGood
<1>5. Local(d) \in GoodState(issued')
  BY <1>4, LocalGood
<1>6. [Local(d) EXCEPT !.files = f] \in GoodState(issued')
  BY <1>4, <1>5 DEF GoodState
<1>7. told \in GoodState(issued')
  BY <1>4, <1>6, BroadcastGood DEF Extends
<1>8. g \in GoodMap(issued')
  BY <1>4, GCGood DEF Extends
<1> HIDE DEF told, g
<1>9. s \in GoodState(issued')
  BY <1>7, <1>8 DEF GoodState
<1> HIDE DEF s
<1>10. r \in GoodState(issued')
  BY <1>2, <1>4, <1>9, ReconciledGood DEF Extends
<1>11. /\ snap \in [Device -> GoodMap(issued')]
       /\ pulls' \in [Device -> SUBSET GoodPull(issued')]
       /\ completions' \in [Device -> Seq(GoodCompletion(issued'))]
       /\ inq[d] \in Seq(GoodEvent(issued'))
  BY <1>1, <1>4, Widened
<1>12. snap' \in [Device -> GoodMap(issued')]
  BY <1>2, <1>10, <1>11 DEF Saved, GoodState
<1> QED BY <1>1, <1>2, <1>4, <1>10, <1>11, <1>12, HandlerInv DEF IInv

LEMMA HeadCompletion ==
    ASSUME IInv, NEW d \in Device, completions[d] # <<>>
    PROVE  /\ Head(completions[d]) \in GoodCompletion(issued)
           /\ Tail(completions[d]) \in Seq(GoodCompletion(issued))
<1>1. completions[d] \in Seq(GoodCompletion(issued))
  BY DEF IInv
<1> QED BY <1>1, HeadTailProperties

LEMMA CompletionInv ==
    ASSUME IInv, NEW d \in Device, handleCompletion(d)
    PROVE  IInv'
<1> DEFINE c == Head(completions[d])
<1>1. completions[d] # <<>> /\ FinishCompletion(d)
  BY DEF handleCompletion, completeOk, completeFail, completeTomb, completeAbort, Completes
<1>2. c \in GoodCompletion(issued) /\ c.path \in Path /\ c.leaf \in Good(issued)
      /\ Tail(completions[d]) \in Seq(GoodCompletion(issued))
  BY <1>1, HeadCompletion DEF GoodCompletion
<1>3. Local(d) \in GoodState(issued) /\ Extends(issued, issued) /\ issued \in History
  BY NoIssue, LocalGood DEF IInv
<1>4. \A s \in GoodState(issued) : Cleared(s, c.path) \in GoodState(issued)
  BY DEF Cleared, GoodState
<1>5. \E r \in GoodState(issued) : Commit(d, r, inq[d], peerUp[d])
  <2>1. CASE completeOk(d)
    <3> DEFINE s == [Local(d) EXCEPT !.files[c.path] = c.leaf]
               t == broadcastUpdate(s, IF c.advertise THEN {c.path} ELSE {})
    <3>1. s \in GoodState(issued)
      <4> DEFINE g == [files[d] EXCEPT ![c.path] = c.leaf]
      <4>1. g \in GoodMap(issued)
        BY <1>2 DEF IInv, GoodMap
      <4>2. s = [Local(d) EXCEPT !.files = g]
        BY DEF Local
      <4> HIDE DEF g, s
      <4> QED BY <1>3, <4>1, <4>2 DEF GoodState
    <3>2. t \in GoodState(issued)
      BY <1>3, <3>1, BroadcastGood
    <3>3. PICK r \in Reconciled(d, {Cleared(t, c.path)}) : Commit(d, r, inq[d], peerUp[d])
      BY <2>1 DEF completeOk
    <3> HIDE DEF t
    <3>4. {Cleared(t, c.path)} \in SUBSET GoodState(issued)
      BY <1>4, <3>2
    <3> QED BY <1>3, <3>3, <3>4, ReconciledGood
  <2>2. CASE completeFail(d)
    <3>1. PICK r \in Reconciled(d, {Cleared(Local(d), c.path)}) : Commit(d, r, inq[d], peerUp[d])
      BY <2>2 DEF completeFail
    <3>2. {Cleared(Local(d), c.path)} \in SUBSET GoodState(issued)
      BY <1>3, <1>4
    <3> QED BY <1>3, <3>1, <3>2, ReconciledGood
  <2>3. CASE completeTomb(d)
    <3> DEFINE S == applyTombstones(Local(d), {[path |-> c.path, leaf |-> c.leaf]})
               U == {Cleared(s, c.path) : s \in S}
    <3>1. PICK r \in Reconciled(d, U) : Commit(d, r, inq[d], peerUp[d])
      BY <2>3 DEF completeTomb
    <3>2. Aimed(issued, {[path |-> c.path, leaf |-> c.leaf]})
      BY <1>2 DEF Aimed
    <3>3. S \subseteq GoodState(issued)
      BY <1>3, <3>2, TombstonesGood
    <3> HIDE DEF S
    <3>4. U \in SUBSET GoodState(issued)
      BY <1>4, <3>3
    <3> HIDE DEF U
    <3> QED BY <1>3, <3>1, <3>4, ReconciledGood
  <2>4. CASE completeAbort(d)
    BY <1>3, <1>4, <2>4 DEF completeAbort
  <2> QED BY <2>1, <2>2, <2>3, <2>4 DEF handleCompletion
<1>6. completions' \in [Device -> Seq(GoodCompletion(issued))]
  BY <1>1, <1>2 DEF FinishCompletion, IInv
<1>7. UNCHANGED <<up, snap, reseed, peerUp, pulls, link, issued, left>>
  BY <1>1 DEF FinishCompletion
<1>8. inq[d] \in Seq(GoodEvent(issued))
  BY DEF IInv
<1> QED BY <1>3, <1>5, <1>6, <1>7, <1>8, HandlerInv DEF IInv

\* What a puller works on is live content.
LEMMA TargetGood ==
    ASSUME NEW I, NEW x \in GoodPull(I)
    PROVE  /\ Target(x) \in GoodCopy(I)
           /\ Target(x).path \in Path /\ Target(x).leaf \in Good(I) /\ Target(x).leaf.hash \in Content
<1>1. Target(x) \in GoodCopy(I)
  BY DEF Target, GoodPull, GoodTask, GoodCopy
<1> QED BY <1>1 DEF GoodCopy, Good

LEMMA ReportGood ==
    ASSUME NEW I, NEW kind \in {"ok", "fail", "applyTomb", "abort"}, NEW c,
           c.path \in Path, c.leaf \in Good(I), NEW adv \in BOOLEAN,
           kind = "applyTomb" => c.leaf.del
    PROVE  Report(kind, c, adv) \in GoodCompletion(I)
BY DEF Report, GoodCompletion

LEMMA TakeInv ==
    ASSUME IInv, NEW d \in Device, PullTake(d)
    PROVE  IInv'
<1>1. fetchQ[d] \in Seq(GoodTask(issued)) /\ fetchQ[d] # <<>> /\ Len(fetchQ[d]) <= FetchQueueDepth
  BY DEF PullTake, IInv, Queued
<1>2. /\ Head(fetchQ[d]) \in GoodTask(issued) /\ Tail(fetchQ[d]) \in Seq(GoodTask(issued))
      /\ Len(Tail(fetchQ[d])) = Len(fetchQ[d]) - 1 /\ Len(fetchQ[d]) \in Nat
  BY <1>1, HeadTailProperties, LenProperties
<1>3. StartPull(Head(fetchQ[d])) \in GoodPull(issued)
  BY <1>2, StartPullGood
<1>4. pulls' \in [Device -> SUBSET GoodPull(issued)]
  BY <1>3 DEF PullTake, IInv
<1>5. fetchQ' \in [Device -> Seq(GoodTask(issued))]
  BY <1>2 DEF PullTake, IInv
<1>6. Queued'
  <2>1. Len(Tail(fetchQ[d])) <= FetchQueueDepth
    BY <1>1, <1>2, EngineAssumption
  <2> QED BY <2>1 DEF PullTake, IInv, Queued
<1> QED BY <1>4, <1>5, <1>6 DEF PullTake, IInv

LEMMA BytesInv ==
    ASSUME IInv, NEW d \in Device, NEW x \in pulls[d], FetchBytes(d, x)
    PROVE  IInv'
<1>1. x \in GoodPull(issued)
  BY DEF IInv
<1>2. [x EXCEPT !.got = TRUE] \in GoodPull(issued)
  BY <1>1 DEF GoodPull
<1>3. pulls' \in [Device -> SUBSET GoodPull(issued)]
  BY <1>2 DEF FetchBytes, IInv
<1> QED BY <1>3 DEF FetchBytes, IInv, Queued, loopVars

LEMMA InstallInv ==
    ASSUME IInv, NEW d \in Device, NEW x \in pulls[d], NEW m \in MTime, InstallBytes(d, x, m)
    PROVE  IInv'
<1> DEFINE c == Target(x)
           adv == x.phase = "preserve" /\ x.task.advertise
           w == [path |-> x.task.path, leaf |-> x.task.leaf]
           done == Report("ok", c, adv)
           tomb == Report("applyTomb", w, FALSE)
<1>1. x \in GoodPull(issued)
  BY DEF IInv
<1>2. /\ x.task \in GoodTask(issued) /\ x.task.path \in Path /\ x.task.leaf \in Good(issued)
      /\ x.task.advertise \in BOOLEAN
  BY <1>1 DEF GoodPull, GoodTask
<1>3. c.path \in Path /\ c.leaf \in Good(issued) /\ c.leaf.hash \in Content
  BY <1>1, TargetGood
<1>4. done \in GoodCompletion(issued) /\ (x.task.leaf.del => tomb \in GoodCompletion(issued))
  BY <1>2, <1>3, ReportGood
<1>5. disk' \in [Device -> DiskMap] /\ mine' \in [Device -> SUBSET Path]
  <2> DEFINE file == [hash |-> c.leaf.hash, mtime |-> m]
  <2>1. \/ UNCHANGED <<disk, mine>>
        \/ /\ disk' = [disk EXCEPT ![d] = [disk[d] EXCEPT ![c.path] = file]]
           /\ mine' = [mine EXCEPT ![d] = @ \ {c.path}]
    BY DEF InstallBytes
  <2>2. file \in File
    BY <1>3 DEF File
  <2> HIDE DEF file, c
  <2>3. [disk[d] EXCEPT ![c.path] = file] \in DiskMap
    BY <2>2 DEF IInv, DiskMap
  <2> QED BY <2>1, <2>3 DEF IInv
<1>6. AfterLanding(d, x)
  BY DEF InstallBytes
<1>7. completions' \in [Device -> Seq(GoodCompletion(issued))]
  <2>1. completions[d] \in Seq(GoodCompletion(issued))
    BY DEF IInv
  <2> HIDE DEF done, tomb
  <2>2. /\ Append(completions[d], done) \in Seq(GoodCompletion(issued))
        /\ x.task.leaf.del =>
              completions[d] \o <<done, tomb>> \in Seq(GoodCompletion(issued))
        /\ completions[d] \o <<done>> \in Seq(GoodCompletion(issued))
    <3>1. /\ x.task.leaf.del => <<done, tomb>> \in Seq(GoodCompletion(issued))
          /\ <<done>> \in Seq(GoodCompletion(issued))
      BY <1>4
    <3> QED BY <1>4, <2>1, <3>1, ConcatProperties
  <2>3. \/ completions' = [completions EXCEPT ![d] = Append(@, done)]
        \/ x.task.leaf.del /\ completions' = [completions EXCEPT ![d] = @ \o <<done, tomb>>]
        \/ completions' = [completions EXCEPT ![d] = @ \o <<done>>]
    BY <1>6 DEF AfterLanding, done, tomb
  <2> QED BY <2>2, <2>3 DEF IInv
<1>8. pulls' \in [Device -> SUBSET GoodPull(issued)]
  <2> DEFINE next == [x EXCEPT !.phase = "leaf", !.got = FALSE]
  <2>1. ~x.task.leaf.del => next \in GoodPull(issued)
    BY <1>1 DEF GoodPull
  <2> HIDE DEF next
  <2>2. \/ pulls' = [pulls EXCEPT ![d] = pulls[d] \ {x}]
        \/ ~x.task.leaf.del /\ pulls' = [pulls EXCEPT ![d] = (pulls[d] \ {x}) \cup {next}]
    BY <1>6 DEF AfterLanding, next
  <2>3. pulls \in [Device -> SUBSET GoodPull(issued)] /\ pulls[d] \ {x} \subseteq GoodPull(issued)
    BY DEF IInv
  <2>4. CASE pulls' = [pulls EXCEPT ![d] = pulls[d] \ {x}]
    BY <2>3, <2>4
  <2>5. CASE next \in GoodPull(issued) /\ pulls' = [pulls EXCEPT ![d] = (pulls[d] \ {x}) \cup {next}]
    BY <2>3, <2>5
  <2> QED BY <2>1, <2>2, <2>4, <2>5
<1> QED BY <1>5, <1>7, <1>8 DEF InstallBytes, IInv, Queued, loopVars

LEMMA PullFailInv ==
    ASSUME IInv, NEW d \in Device, NEW x \in pulls[d], PullFail(d, x)
    PROVE  IInv'
<1> DEFINE c == Target(x)
           adv == x.phase = "preserve" /\ x.task.advertise
           w == [path |-> x.task.path, leaf |-> x.task.leaf]
           fail == Report("fail", c, adv)
           abort == Report("abort", w, FALSE)
           more == IF x.phase = "preserve" THEN <<abort>> ELSE <<>>
<1>1. x \in GoodPull(issued)
  BY DEF IInv
<1>2. x.task.path \in Path /\ x.task.leaf \in Good(issued) /\ x.task.advertise \in BOOLEAN
  BY <1>1 DEF GoodPull, GoodTask
<1>3. c.path \in Path /\ c.leaf \in Good(issued)
  BY <1>1, TargetGood
<1>4. fail \in GoodCompletion(issued) /\ abort \in GoodCompletion(issued)
  BY <1>2, <1>3, ReportGood
<1>5. completions' = [completions EXCEPT ![d] = @ \o <<fail>> \o more]
  BY DEF PullFail
<1> HIDE DEF fail, abort
<1>6. <<fail>> \in Seq(GoodCompletion(issued)) /\ more \in Seq(GoodCompletion(issued))
  BY <1>4
<1> HIDE DEF more
<1>7. completions' \in [Device -> Seq(GoodCompletion(issued))]
  <2>1. completions[d] \o <<fail>> \in Seq(GoodCompletion(issued))
    BY <1>6, ConcatProperties DEF IInv
  <2>2. completions[d] \o <<fail>> \o more \in Seq(GoodCompletion(issued))
    BY <1>6, <2>1, ConcatProperties
  <2> QED BY <1>5, <2>2 DEF IInv
<1>8. left' \in [Outside -> Nat]
  BY SpendType DEF PullFail, Outside, IInv
<1>9. pulls' \in [Device -> SUBSET GoodPull(issued)]
  BY DEF PullFail, IInv
<1> QED BY <1>7, <1>8, <1>9 DEF PullFail, IInv, Queued, loopVars

LEMMA PullerInv ==
    ASSUME IInv, NEW d \in Device, Puller(d)
    PROVE  IInv'
BY TakeInv, BytesInv, InstallInv, PullFailInv DEF Puller

LEMMA StartInv ==
    ASSUME IInv, Backed, NEW d \in Device, Start(d)
    PROVE  IInv'
<1> DEFINE f == startupFiles(snap[d], disk[d], d)
<1>1. f \in ClaimedMap(issued, d)
  BY StartupClaimed DEF IInv, Backed
<1>2. Issue(d, f) /\ files' = [files EXCEPT ![d] = f]
  BY DEF Start
<1> HIDE DEF f
<1>3. Extends(issued, issued') /\ f \in GoodMap(issued')
  BY <1>1, <1>2, IssueGood
<1>4. /\ snap \in [Device -> GoodMap(issued')] /\ files \in [Device -> GoodMap(issued')]
      /\ index \in [Device -> GoodMap(issued')] /\ fetchQ \in [Device -> Seq(GoodTask(issued'))]
      /\ pulls \in [Device -> SUBSET GoodPull(issued')]
      /\ completions \in [Device -> Seq(GoodCompletion(issued'))]
      /\ inq \in [Device -> Seq(GoodEvent(issued'))]
  BY <1>3, Widened
<1>5. files' \in [Device -> GoodMap(issued')]
  BY <1>2, <1>3, <1>4
<1>6. up' \in [Device -> BOOLEAN] /\ reseed' \in [Device -> BOOLEAN]
  BY DEF Start, IInv
<1> QED BY <1>3, <1>4, <1>5, <1>6 DEF Start, IInv, Queued, Extends

LEMMA HaltInv ==
    ASSUME IInv, NEW d \in Device, Halt(d), snap' \in [Device -> GoodMap(issued)]
    PROVE  IInv'
<1>1. EmptyMap \in GoodMap(issued)
  BY EmptyGood DEF IInv
<1>2. left' \in [Outside -> Nat]
  BY SpendType DEF Halt, Outside
<1>3. inq' \in [Device -> Seq(GoodEvent(issued))]
  <2>1. PICK q \in Severed(Peer(d)) :
            inq' = [inq EXCEPT ![d] = <<>>, ![Peer(d)] = IF link THEN q ELSE @]
    BY DEF Halt
  <2>2. Peer(d) \in Device /\ Peer(d) # d
    BY PeerType
  <2>3. q \in Seq(GoodEvent(issued))
    BY <2>1, <2>2, SeveredGood
  <2> DEFINE new == IF link THEN q ELSE inq[Peer(d)]
  <2>4. new \in Seq(GoodEvent(issued))
    BY <2>2, <2>3 DEF IInv
  <2>5. inq' = [inq EXCEPT ![d] = <<>>, ![Peer(d)] = new]
    BY <2>1, <2>2
  <2> DEFINE none == <<>>
  <2>6. none \in Seq(GoodEvent(issued)) /\ inq' = [inq EXCEPT ![d] = none, ![Peer(d)] = new]
    BY <2>5
  <2> HIDE DEF new, none
  <2> QED BY <2>4, <2>6 DEF IInv
<1>4. fetchQ' \in [Device -> Seq(GoodTask(issued))] /\ Queued'
  BY EngineAssumption DEF Halt, IInv, Queued
<1>5. /\ files' \in [Device -> GoodMap(issued)] /\ index' \in [Device -> GoodMap(issued)]
      /\ inflight' \in [Device -> SUBSET Path] /\ pulls' \in [Device -> SUBSET GoodPull(issued)]
      /\ completions' \in [Device -> Seq(GoodCompletion(issued))]
  BY <1>1 DEF Halt, IInv
<1>6. up' \in [Device -> BOOLEAN] /\ reseed' \in [Device -> BOOLEAN]
      /\ peerUp' \in [Device -> BOOLEAN] /\ link' \in BOOLEAN
  BY DEF Halt, IInv
<1> QED BY <1>2, <1>3, <1>4, <1>5, <1>6 DEF Halt, IInv

LEMMA SnapshotInv ==
    ASSUME IInv, NEW d \in Device, saveSnapshot(d)
    PROVE  IInv'
BY DEF saveSnapshot, IInv, Queued, loopVars

-----------------------------------------------------------------------------
(* The theorems. *)

LEMMA InitInv ==
    ASSUME Init
    PROVE  IInv
<1>1. issued \in History
  BY DEF Init, History
<1>2. EmptyMap \in GoodMap(issued) /\ EmptyMap \in DiskMap
  BY <1>1, EmptyGood DEF EmptyMap, DiskMap
<1>3. fetchQ \in [Device -> Seq(GoodTask(issued))] /\ Queued
  BY EngineAssumption DEF Init, Queued
<1>4. inq \in [Device -> Seq(GoodEvent(issued))]
      /\ completions \in [Device -> Seq(GoodCompletion(issued))]
  BY DEF Init
<1>5. left \in [Outside -> Nat]
  BY EngineAssumption DEF Init
<1> QED BY <1>1, <1>2, <1>3, <1>4, <1>5 DEF Init, IInv

LEMMA NextInv ==
    ASSUME IInv, Backed, [Next]_vars
    PROVE  IInv'
<1>1. CASE Connect \/ Drop
  BY <1>1, ConnectInv, DropInv
<1>2. ASSUME NEW d \in Device, User(d) \/ handleTransportEvent(d) \/ handleCompletion(d) \/ Puller(d)
      PROVE  IInv'
  BY <1>2, UserInv, ConnectedInv, RemovedInv, IndexInv, IndexUpdateInv, CompletionInv, PullerInv
  DEF handleTransportEvent
<1>3. ASSUME NEW d \in Device, (\E p \in Path : onLocalChange(d, p)) \/ rescan(d) \/ saveSnapshot(d)
      PROVE  IInv'
  BY <1>3, LocalChangeInv, RescanInv, SnapshotInv
<1>4. ASSUME NEW d \in Device, Start(d) \/ Crash(d) \/ Stop(d)
      PROVE  IInv'
  <2>1. CASE Start(d)
    BY <2>1, StartInv
  <2>2. CASE Crash(d)
    BY <2>2, HaltInv DEF Crash, IInv
  <2>3. CASE Stop(d)
    <3>1. snap' \in [Device -> GoodMap(issued)]
      BY <2>3 DEF Stop, IInv
    <3> QED BY <2>3, <3>1, HaltInv DEF Stop
  <2> QED BY <1>4, <2>1, <2>2, <2>3
<1>5. CASE UNCHANGED vars
  BY <1>5 DEF vars, loopVars, IInv, Queued
<1> QED BY <1>1, <1>2, <1>3, <1>4, <1>5 DEF Next

-----------------------------------------------------------------------------
(* Echoes. While users do not delete, the pullers are the only ones who     *)
(* change a disk behind the loop's back, and each change is reported.       *)

\* The completions in q that report a file at p as installed.
Landed(q, p) == {i \in 1 .. Len(q) : q[i].kind = "ok" /\ q[i].path = p}

\* The file at p is the one of the last report, or else of the recorded leaf.
Explains(leaf, q, p, file) ==
    /\ Landed(q, p) = {} => HashOf(leaf) = HashOf(file)
    /\ \A i \in Landed(q, p) :
          (\A j \in Landed(q, p) : j <= i) => q[i].leaf.hash = HashOf(file)

\* A daemon that is down has no pullers; what is recorded, saved or reported is on the
\* disk; and every file that is not the user's work is explained.
Quiet ==
    /\ left["delete"] = 0
    /\ \A d \in Device : ~up[d] => pulls[d] = {} /\ completions[d] = <<>>
    /\ \A d \in Device, p \in Path : disk[d][p] = Absent =>
          files[d][p] = Absent /\ snap[d][p] = Absent /\ Landed(completions[d], p) = {}
    /\ \A d \in Device, p \in Path : up[d] /\ p \notin mine[d] =>
          Explains(files[d][p], completions[d], p, disk[d][p])

LEMMA QuietIsBacked ==
    ASSUME ~MayDelete => Quiet
    PROVE  Backed
BY DEF Quiet, Backed

\* The oldest report is handled: the others move up by one.
LEMMA LandedNat ==
    ASSUME NEW S, NEW q \in Seq(S), NEW p
    PROVE  Landed(q, p) \subseteq Nat
BY DEF Landed

LEMMA LandedUp ==
    ASSUME NEW S, NEW q \in Seq(S), q # <<>>, NEW p, NEW i \in Landed(Tail(q), p)
    PROVE  i + 1 \in Landed(q, p) /\ Tail(q)[i] = q[i + 1]
<1>1. /\ Len(Tail(q)) = Len(q) - 1 /\ Len(q) \in Nat
      /\ \A j \in 1 .. Len(q) - 1 : Tail(q)[j] = q[j + 1]
  OBVIOUS
<1> QED BY <1>1 DEF Landed

LEMMA LandedDown ==
    ASSUME NEW S, NEW q \in Seq(S), q # <<>>, NEW p, NEW i \in Landed(q, p), i # 1
    PROVE  i - 1 \in Landed(Tail(q), p)
<1>1. /\ Len(Tail(q)) = Len(q) - 1 /\ Len(q) \in Nat
      /\ \A j \in 1 .. Len(q) - 1 : Tail(q)[j] = q[j + 1]
  OBVIOUS
<1>2. i \in 1 .. Len(q) /\ i - 1 \in 1 .. Len(q) - 1 /\ q[i].kind = "ok" /\ q[i].path = p
  BY <1>1 DEF Landed
<1>3. Tail(q)[i - 1] = q[i]
  BY <1>1, <1>2
<1> QED BY <1>1, <1>2, <1>3 DEF Landed

LEMMA LandedFirst ==
    ASSUME NEW S, NEW q \in Seq(S), q # <<>>, NEW p
    PROVE  1 \in Landed(q, p) <=> (Head(q).kind = "ok" /\ Head(q).path = p)
<1>1. Len(q) \in Nat /\ Len(q) >= 1 /\ Head(q) = q[1]
  OBVIOUS
<1> QED BY <1>1 DEF Landed

LEMMA TailOther ==
    ASSUME NEW S, NEW q \in Seq(S), q # <<>>, NEW p, NEW leaf, NEW file,
           Explains(leaf, q, p, file), Head(q).kind # "ok" \/ Head(q).path # p
    PROVE  Explains(leaf, Tail(q), p, file)
<1>0. Tail(q) \in Seq(S) /\ 1 \notin Landed(q, p)
  BY LandedFirst
<1>1. \A i \in Landed(Tail(q), p) : i + 1 \in Landed(q, p) /\ Tail(q)[i] = q[i + 1]
  BY LandedUp
<1>2. \A i \in Landed(q, p) : i - 1 \in Landed(Tail(q), p)
  BY <1>0, LandedDown
<1>3. Landed(q, p) \subseteq Nat /\ Landed(Tail(q), p) \subseteq Nat
  BY <1>0, LandedNat
<1>4. Landed(Tail(q), p) = {} => HashOf(leaf) = HashOf(file)
  BY <1>2 DEF Explains
<1>5. ASSUME NEW i \in Landed(Tail(q), p), \A j \in Landed(Tail(q), p) : j <= i
      PROVE  Tail(q)[i].leaf.hash = HashOf(file)
  <2>1. \A j \in Landed(q, p) : j <= i + 1
    <3> TAKE j \in Landed(q, p)
    <3>1. j - 1 \in Landed(Tail(q), p) /\ j \in Nat /\ i \in Nat
      BY <1>2, <1>3
    <3>2. j - 1 <= i
      BY <1>5, <3>1
    <3> QED BY <3>1, <3>2
  <2>2. i + 1 \in Landed(q, p) /\ Tail(q)[i] = q[i + 1]
    BY <1>1
  <2> QED BY <2>1, <2>2 DEF Explains
<1> QED BY <1>4, <1>5 DEF Explains

LEMMA TailLanded ==
    ASSUME NEW I, NEW q \in Seq(GoodCompletion(I)), q # <<>>, NEW p, NEW leaf, NEW file,
           Explains(leaf, q, p, file), Head(q).kind = "ok", Head(q).path = p
    PROVE  Explains(Head(q).leaf, Tail(q), p, file)
<1>0. Tail(q) \in Seq(GoodCompletion(I)) /\ 1 \in Landed(q, p)
  BY LandedFirst
<1>1. \A i \in Landed(Tail(q), p) : i + 1 \in Landed(q, p) /\ Tail(q)[i] = q[i + 1]
  BY LandedUp
<1>2. \A i \in Landed(q, p) : i # 1 => i - 1 \in Landed(Tail(q), p)
  BY LandedDown
<1>3. Landed(q, p) \subseteq Nat /\ Landed(Tail(q), p) \subseteq Nat
  BY <1>0, LandedNat
<1>4. Landed(Tail(q), p) = {} => HashOf(Head(q).leaf) = HashOf(file)
  <2> SUFFICES ASSUME Landed(Tail(q), p) = {}
               PROVE  HashOf(Head(q).leaf) = HashOf(file)
    OBVIOUS
  <2>1. \A j \in Landed(q, p) : j <= 1
    BY <1>2
  <2>2. q[1].leaf.hash = HashOf(file)
    BY <1>0, <2>1 DEF Explains
  <2>3. Head(q) = q[1] /\ Head(q) \in GoodCompletion(I)
    OBVIOUS
  <2>4. Head(q).leaf \in Leaf
    BY <2>3 DEF GoodCompletion, Good
  <2>5. Head(q).leaf # Absent
    BY <2>4, AbsentAssumption
  <2> QED BY <2>2, <2>3, <2>5 DEF HashOf
<1>5. ASSUME NEW i \in Landed(Tail(q), p), \A j \in Landed(Tail(q), p) : j <= i
      PROVE  Tail(q)[i].leaf.hash = HashOf(file)
  <2>1. \A j \in Landed(q, p) : j <= i + 1
    <3> TAKE j \in Landed(q, p)
    <3>1. j \in Nat /\ i \in Nat /\ (j # 1 => j - 1 \in Landed(Tail(q), p))
      BY <1>2, <1>3
    <3>2. j # 1 => j - 1 <= i
      BY <1>5, <3>1
    <3> QED BY <3>1, <3>2
  <2>2. i + 1 \in Landed(q, p) /\ Tail(q)[i] = q[i + 1]
    BY <1>1
  <2> QED BY <2>1, <2>2 DEF Explains
<1> QED BY <1>4, <1>5 DEF Explains

\* A report is added.
LEMMA LandedAppend ==
    ASSUME NEW S, NEW q \in Seq(S), NEW c \in S, NEW p
    PROVE  /\ Len(q) \in Nat /\ Landed(q, p) \subseteq 1 .. Len(q)
           /\ \A i \in Landed(q, p) : Append(q, c)[i] = q[i]
           /\ Append(q, c)[Len(q) + 1] = c
           /\ c.kind = "ok" /\ c.path = p =>
                  Landed(Append(q, c), p) = Landed(q, p) \cup {Len(q) + 1}
           /\ c.kind # "ok" \/ c.path # p => Landed(Append(q, c), p) = Landed(q, p)
<1>1. /\ Append(q, c) \in Seq(S) /\ Len(q) \in Nat
      /\ Len(Append(q, c)) = Len(q) + 1 /\ Append(q, c)[Len(q) + 1] = c
      /\ \A i \in 1 .. Len(q) : Append(q, c)[i] = q[i]
  OBVIOUS
<1>2. 1 .. Len(q) + 1 = (1 .. Len(q)) \cup {Len(q) + 1} /\ Len(q) + 1 \notin 1 .. Len(q)
  BY <1>1
<1> DEFINE r == Append(q, c)
           n == Len(q)
<1> HIDE DEF r, n
<1>3. /\ Landed(r, p) = {i \in 1 .. n + 1 : r[i].kind = "ok" /\ r[i].path = p}
      /\ Landed(q, p) = {i \in 1 .. n : r[i].kind = "ok" /\ r[i].path = p}
  BY <1>1 DEF Landed, r, n
<1>4. r[n + 1] = c /\ 1 .. n + 1 = (1 .. n) \cup {n + 1}
  BY <1>1, <1>2 DEF r, n
<1>5. c.kind = "ok" /\ c.path = p => Landed(r, p) = Landed(q, p) \cup {n + 1}
  BY <1>3, <1>4
<1>6. c.kind # "ok" \/ c.path # p => Landed(r, p) = Landed(q, p)
  BY <1>3, <1>4
<1> QED BY <1>1, <1>5, <1>6 DEF Landed, r, n

LEMMA AppendOther ==
    ASSUME NEW S, NEW q \in Seq(S), NEW c \in S, NEW p, NEW leaf, NEW file,
           Explains(leaf, q, p, file), c.kind # "ok" \/ c.path # p
    PROVE  Explains(leaf, Append(q, c), p, file)
<1>1. Landed(Append(q, c), p) = Landed(q, p)
  BY LandedAppend
<1>2. \A i \in Landed(q, p) : Append(q, c)[i] = q[i]
  BY LandedAppend
<1> QED BY <1>1, <1>2 DEF Explains

LEMMA AppendLanded ==
    ASSUME NEW S, NEW q \in Seq(S), NEW c \in S, NEW p, NEW leaf, NEW file,
           c.kind = "ok", c.path = p, c.leaf.hash = HashOf(file)
    PROVE  Explains(leaf, Append(q, c), p, file)
<1>1. Landed(Append(q, c), p) = Landed(q, p) \cup {Len(q) + 1}
  BY LandedAppend
<1>2. Len(q) \in Nat /\ Landed(q, p) \subseteq 1 .. Len(q) /\ Append(q, c)[Len(q) + 1] = c
  BY LandedAppend
<1>3. ASSUME NEW i \in Landed(Append(q, c), p), \A j \in Landed(Append(q, c), p) : j <= i
      PROVE  i = Len(q) + 1
  BY <1>1, <1>2, <1>3
<1> QED BY <1>1, <1>2, <1>3 DEF Explains

\* Without deletes a handler removes nothing: there is no tombstone to apply or to forget.
LEMMA GCKeeps ==
    ASSUME NEW I, NEW f \in GoodMap(I), NEW idx, ~MayDelete
    PROVE  gcTombstones(f, idx) = f
<1>1. \A p \in Path : ~Tombstone(f[p])
  BY DEF GoodMap, Good, Tombstone
<1> QED BY <1>1 DEF gcTombstones, GoodMap

LEMMA NoTombstones ==
    ASSUME NEW I, NEW s \in GoodState(I), NEW r \in applyTombstones(s, {})
    PROVE  r.files = s.files /\ r.disk = s.disk
<1> DEFINE f == [p \in Path |-> IF p \in Paths({}) THEN LeafAt({}, p) ELSE s.files[p]]
           dk == [p \in Path |-> IF p \in Paths({}) THEN Absent ELSE s.disk[p]]
<1>1. f = s.files /\ dk = s.disk
  BY DEF Paths, GoodState, GoodMap, DiskMap
<1>2. \E o : r = [s EXCEPT !.files = f, !.disk = dk, !.out = o]
  BY DEF applyTombstones
<1> HIDE DEF f, dk
<1> QED BY <1>1, <1>2 DEF GoodState

LEMMA ExecuteKeeps ==
    ASSUME NEW I \in History, NEW s \in GoodState(I), NEW P, \A c \in P : GoodPlan(I, c),
           NEW M, NEW u \in Execute(s, P, M), ~MayDelete
    PROVE  u.files = s.files /\ u.disk = s.disk
<1> DEFINE free == {c \in P : c.path \notin s.inflight}
           tombs == {c \in free : c.kind = "install" /\ c.leaf.del} \ {x[2] : x \in M}
           conflicts == {c \in P : c.kind = "conflict"}
           custody == {c \in conflicts : Custodian(s, c)}
           removed == {c \in conflicts \ custody : c.leaf.del}
<1>1. \E T : \E r \in applyTombstones(s, tombs \cup removed) : u = Executed(r, s.index, T)
  BY DEF Execute
<1>2. tombs \cup removed = {}
  <2>1. \A c \in P : c.kind \in {"install", "conflict"} => ~c.leaf.del
    BY DEF GoodPlan, Good
  <2> QED BY <2>1
<1> HIDE DEF tombs, removed
<1> PICK T : \E r \in applyTombstones(s, {}) : u = Executed(r, s.index, T)
  BY <1>1, <1>2
<1>3. PICK r \in applyTombstones(s, {}) : u = Executed(r, s.index, T)
  OBVIOUS
<1>4. r.files = s.files /\ r.disk = s.disk
  <2>1. s \in GoodState(I) /\ r \in applyTombstones(s, {})
    BY <1>3
  <2> QED BY <2>1, NoTombstones
<1>5. r \in GoodState(I)
  <2>1. Aimed(I, {})
    BY DEF Aimed
  <2> QED BY <1>3, <2>1, TombstonesGood
<1>6. gcTombstones(r.files, s.index) = r.files
  BY <1>5, GCKeeps DEF GoodState
<1> DEFINE G == gcTombstones(r.files, s.index)
           H == UNION {Held(t) : t \in Range(T)}
<1>7. u = [r EXCEPT !.files = G, !.inflight = @ \cup H, !.fetchQ = @ \o T]
  BY <1>3 DEF Executed
<1> HIDE DEF G, H
<1>8. u.files = G /\ u.disk = r.disk
  BY <1>5, <1>7 DEF GoodState
<1> QED BY <1>4, <1>6, <1>8 DEF G

LEMMA ReconciledKeeps ==
    ASSUME NEW I \in History, NEW d, NEW s \in GoodState(I), NEW u \in Reconciled(d, {s}),
           ~MayDelete
    PROVE  u.files = s.files /\ u.disk = s.disk
<1>1. CASE u = s
  BY <1>1
<1>2. CASE u \in reconcileWithPeer(s)
  <2> DEFINE P == Plans(s)
             C == {c \in P : c.kind = "install" /\ ~c.leaf.del /\ c.path \notin s.inflight}
             T == {c \in P : c.kind = "install" /\ c.leaf.del /\ c.path \notin s.inflight}
  <2>1. PICK M \in Pairings(C, T, s.files) : u \in Execute(s, P, M)
    BY <1>2 DEF reconcileWithPeer
  <2>2. \A c \in P : GoodPlan(I, c)
    BY PlansGood
  <2> HIDE DEF P
  <2> QED BY <2>1, <2>2, ExecuteKeeps
<1> QED BY <1>1, <1>2 DEF Reconciled

\* A step of d's daemon that leaves the disks, the users and the other daemon alone.
Inside(d) ==
    /\ up' = up /\ disk' = disk /\ mine' = mine /\ left'["delete"] = left["delete"]
    /\ \A e \in Device \ {d} : /\ files'[e] = files[e] /\ snap'[e] = snap[e]
                               /\ completions'[e] = completions[e] /\ pulls'[e] = pulls[e]
    /\ \A p \in Path : snap'[d][p] \in {snap[d][p], files'[d][p]}

LEMMA CommitKeeps ==
    ASSUME IInv, NEW d \in Device, NEW s, NEW rest, NEW known, Commit(d, s, rest, known),
           s.disk = disk[d]
    PROVE  /\ disk' = disk /\ mine' = mine /\ files'[d] = s.files
           /\ \A e \in Device \ {d} : files'[e] = files[e]
<1>1. disk' = disk /\ files' = [files EXCEPT ![d] = s.files]
  BY DEF Commit, IInv
<1>2. mine' = [mine EXCEPT ![d] = {p \in mine[d] : s.disk[p] = disk[d][p]}]
  BY DEF Commit
<1>3. mine' = mine
  BY <1>2 DEF IInv
<1> QED BY <1>1, <1>3 DEF IInv

LEMMA QuietStep ==
    ASSUME IInv, Quiet, NEW d \in Device, up[d], Inside(d),
           \A p \in Path : disk[d][p] = Absent =>
                              files'[d][p] = Absent /\ Landed(completions'[d], p) = {},
           \A p \in Path \ mine[d] : Explains(files'[d][p], completions'[d], p, disk[d][p])
    PROVE  Quiet'
<1>2. left'["delete"] = 0
  BY DEF Quiet, Inside
<1>3. ASSUME NEW e \in Device, ~up'[e]
      PROVE  pulls'[e] = {} /\ completions'[e] = <<>>
  BY <1>3 DEF Quiet, Inside
<1>4. ASSUME NEW e \in Device, NEW p \in Path, disk'[e][p] = Absent
      PROVE  files'[e][p] = Absent /\ snap'[e][p] = Absent /\ Landed(completions'[e], p) = {}
  BY <1>4 DEF Quiet, Inside
<1>5. ASSUME NEW e \in Device, NEW p \in Path, up'[e], p \notin mine'[e]
      PROVE  Explains(files'[e][p], completions'[e], p, disk'[e][p])
  BY <1>5 DEF Quiet, Inside
<1> QED BY <1>2, <1>3, <1>4, <1>5 DEF Quiet, Landed, Explains

\* A handler of d's loop that reports nothing: what it records at a path has the content
\* of the leaf before or of the file.
LEMMA QuietHandler ==
    ASSUME IInv, Quiet, NEW d \in Device, up[d], Inside(d), completions' = completions,
           \A p \in Path :
              /\ disk[d][p] = Absent => files'[d][p] = Absent
              /\ HashOf(files'[d][p]) \in {HashOf(files[d][p]), HashOf(disk[d][p])}
    PROVE  Quiet'
<1>1. \A p \in Path : disk[d][p] = Absent =>
                          files'[d][p] = Absent /\ Landed(completions'[d], p) = {}
  BY DEF Quiet
<1>2. \A p \in Path \ mine[d] : Explains(files'[d][p], completions'[d], p, disk[d][p])
  <2> TAKE p \in Path \ mine[d]
  <2>1. Explains(files[d][p], completions[d], p, disk[d][p])
    BY DEF Quiet
  <2> QED BY <2>1 DEF Explains
<1> QED BY <1>1, <1>2, QuietStep

LEMMA ConnectedQuiet ==
    ASSUME IInv, Quiet, NEW d \in Device, onPeerConnected(d)
    PROVE  Quiet'
<1> DEFINE s == [Local(d) EXCEPT !.index = EmptyMap, !.inflight = {}, !.fetchQ = <<>>]
           t == IF Root(Head(inq[d]).body) = Root(files[d]) THEN s
                ELSE [s EXCEPT !.out = <<IndexMsg(files[d])>>]
<1>1. t.files = files[d] /\ t.disk = disk[d]
  BY DEF Local
<1>2. /\ Commit(d, t, Tail(inq[d]), TRUE) /\ up[d]
      /\ UNCHANGED <<up, snap, pulls, completions, left>>
  BY DEF onPeerConnected, Receives
<1> HIDE DEF t
<1>3. /\ disk' = disk /\ mine' = mine /\ files'[d] = t.files
      /\ \A e \in Device \ {d} : files'[e] = files[e]
  BY <1>1, <1>2, CommitKeeps
<1>4. \A p \in Path : /\ disk[d][p] = Absent => files'[d][p] = Absent
                      /\ HashOf(files'[d][p]) = HashOf(files[d][p])
  BY <1>1, <1>3 DEF Quiet
<1>5. Inside(d)
  BY <1>2, <1>3 DEF Inside
<1> QED BY <1>2, <1>4, <1>5, QuietHandler

LEMMA RemovedQuiet ==
    ASSUME IInv, Quiet, NEW d \in Device, removePeer(d)
    PROVE  Quiet'
<1> DEFINE s == [Local(d) EXCEPT !.index = EmptyMap, !.inflight = {}, !.fetchQ = <<>>]
<1>1. s.files = files[d] /\ s.disk = disk[d]
  BY DEF Local
<1>2. /\ Commit(d, s, Tail(inq[d]), FALSE) /\ up[d]
      /\ UNCHANGED <<up, snap, completions, left>>
  BY DEF removePeer, Receives
<1> HIDE DEF s
<1>3. /\ disk' = disk /\ mine' = mine /\ files'[d] = s.files
      /\ \A e \in Device \ {d} : files'[e] = files[e]
  BY <1>1, <1>2, CommitKeeps
<1>4. \A p \in Path : /\ disk[d][p] = Absent => files'[d][p] = Absent
                      /\ HashOf(files'[d][p]) = HashOf(files[d][p])
  BY <1>1, <1>3 DEF Quiet
<1>5. \A e \in Device \ {d} : pulls'[e] = pulls[e]
  BY DEF removePeer, IInv
<1>6. Inside(d)
  BY <1>2, <1>3, <1>5 DEF Inside
<1> QED BY <1>2, <1>4, <1>6, QuietHandler

LEMMA BroadcastKeeps ==
    ASSUME NEW I, NEW s \in GoodState(I), NEW S
    PROVE  broadcastUpdate(s, S).files = s.files /\ broadcastUpdate(s, S).disk = s.disk
BY DEF broadcastUpdate, GoodState

LEMMA IndexQuiet ==
    ASSUME IInv, Quiet, ~MayDelete, NEW d \in Device, onIndex(d)
    PROVE  Quiet'
<1> DEFINE idx == Head(inq[d]).body
           bumped == {p \in Path : reseed[d] /\ NeedsReseed(files[d][p], idx[p])}
           f == [p \in Path |-> IF p \in bumped THEN reseeded(files[d][p], idx[p], d)
                                ELSE files[d][p]]
           s == [Local(d) EXCEPT !.index = idx, !.files = f]
           t == broadcastUpdate(s, bumped)
<1>1. /\ up[d] /\ inq[d] # <<>> /\ UNCHANGED <<up, snap, pulls, completions, left>>
      /\ \/ /\ \E r \in Reconciled(d, {t}) : Commit(d, r, Tail(inq[d]), TRUE)
            /\ Issue(d, f)
         \/ Commit(d, Local(d), Tail(inq[d]), FALSE)
  BY DEF onIndex, Receives
<1>2. idx \in GoodMap(issued)
  BY <1>1, HeadEvent
<1>3. /\ f \in ClaimedMap(issued, d)
      /\ \A p \in Path : /\ f[p] = Absent <=> files[d][p] = Absent
                         /\ HashOf(f[p]) = HashOf(files[d][p])
  <2>1. bumped \in SUBSET Path /\ \A p \in bumped : NeedsReseed(files[d][p], idx[p])
    OBVIOUS
  <2> HIDE DEF bumped, idx
  <2>2. \E g : g = f
    OBVIOUS
  <2>3. PICK g : g = f
    BY <2>2
  <2>4. g \in ClaimedMap(issued, d)
    BY <1>2, <2>1, <2>3, ReseedMap
  <2>5. \A p \in Path : /\ g[p] = Absent <=> files[d][p] = Absent
                        /\ HashOf(g[p]) = HashOf(files[d][p])
    BY <1>2, <2>1, <2>3, ReseedMap
  <2> QED BY <2>3, <2>4, <2>5
<1> HIDE DEF idx, f, bumped
<1>4. \E r, known : /\ Commit(d, r, Tail(inq[d]), known) /\ r.disk = disk[d]
                    /\ r.files = f \/ r.files = files[d]
  <2>1. CASE Issue(d, f) /\ \E r \in Reconciled(d, {t}) : Commit(d, r, Tail(inq[d]), TRUE)
    <3>1. Extends(issued, issued') /\ f \in GoodMap(issued')
      BY <1>3, <2>1, IssueGood
    <3>2. Local(d) \in GoodState(issued')
      BY <3>1, LocalGood
    <3>3. idx \in GoodMap(issued')
      BY <1>2, <3>1, Monotone
    <3>4. s \in GoodState(issued') /\ s.files = f /\ s.disk = disk[d]
      BY <3>1, <3>2, <3>3 DEF GoodState, Local
    <3> HIDE DEF s
    <3>5. t \in GoodState(issued')
      BY <3>1, <3>4, BroadcastGood DEF Extends
    <3>6. t.files = f /\ t.disk = disk[d]
      BY <3>4, BroadcastKeeps
    <3> HIDE DEF t
    <3>7. PICK r \in Reconciled(d, {t}) : Commit(d, r, Tail(inq[d]), TRUE)
      BY <2>1
    <3>8. r.files = f /\ r.disk = disk[d]
      BY <3>1, <3>5, <3>6, <3>7, ReconciledKeeps DEF Extends
    <3> QED BY <3>7, <3>8
  <2>2. CASE Commit(d, Local(d), Tail(inq[d]), FALSE)
    <3>1. Local(d).files = files[d] /\ Local(d).disk = disk[d]
      BY DEF Local
    <3> QED BY <2>2, <3>1
  <2> QED BY <1>1, <2>1, <2>2
<1>5. PICK r, known : /\ Commit(d, r, Tail(inq[d]), known) /\ r.disk = disk[d]
                      /\ r.files = f \/ r.files = files[d]
  BY <1>4
<1>6. /\ disk' = disk /\ mine' = mine /\ files'[d] = r.files
      /\ \A e \in Device \ {d} : files'[e] = files[e]
  <2>1. Commit(d, r, Tail(inq[d]), known) /\ r.disk = disk[d]
    BY <1>5
  <2> QED BY <2>1, CommitKeeps
<1>7. \A p \in Path : /\ disk[d][p] = Absent => files'[d][p] = Absent
                      /\ HashOf(files'[d][p]) = HashOf(files[d][p])
  BY <1>3, <1>5, <1>6 DEF Quiet
<1>8. Inside(d)
  BY <1>1, <1>6 DEF Inside
<1> QED BY <1>1, <1>7, <1>8, QuietHandler

LEMMA IndexUpdateQuiet ==
    ASSUME IInv, Quiet, ~MayDelete, NEW d \in Device, onIndexUpdate(d)
    PROVE  Quiet'
<1> DEFINE idx == Merged(index[d], Head(inq[d]).body)
           s == [Local(d) EXCEPT !.index = idx]
<1>1. /\ up[d] /\ inq[d] # <<>> /\ UNCHANGED <<up, snap, pulls, completions, left>>
      /\ \/ \E r \in Reconciled(d, {s}) : Commit(d, r, Tail(inq[d]), TRUE)
         \/ Commit(d, Local(d), Tail(inq[d]), FALSE)
  BY DEF onIndexUpdate, Receives, Local
<1>2. Head(inq[d]).body \in GoodMap(issued) /\ index[d] \in GoodMap(issued)
      /\ issued \in History
  BY <1>1, HeadEvent DEF IInv
<1>3. idx \in GoodMap(issued)
  BY <1>2 DEF Merged, GoodMap
<1>4. Local(d) \in GoodState(issued) /\ Local(d).files = files[d] /\ Local(d).disk = disk[d]
  BY NoIssue, LocalGood DEF Local
<1> HIDE DEF idx
<1>5. s \in GoodState(issued) /\ s.files = files[d] /\ s.disk = disk[d]
  BY <1>3, <1>4 DEF GoodState, Local
<1> HIDE DEF s
<1>6. PICK r, known : /\ Commit(d, r, Tail(inq[d]), known)
                      /\ r.files = files[d] /\ r.disk = disk[d]
  <2>1. \A r \in Reconciled(d, {s}) : r.files = files[d] /\ r.disk = disk[d]
    BY <1>2, <1>5, ReconciledKeeps
  <2> QED BY <1>1, <1>4, <2>1
<1>7. /\ disk' = disk /\ mine' = mine /\ files'[d] = r.files
      /\ \A e \in Device \ {d} : files'[e] = files[e]
  BY <1>6, CommitKeeps
<1>8. \A p \in Path : /\ disk[d][p] = Absent => files'[d][p] = Absent
                      /\ HashOf(files'[d][p]) = HashOf(files[d][p])
  BY <1>6, <1>7 DEF Quiet
<1>9. Inside(d)
  BY <1>1, <1>7 DEF Inside
<1> QED BY <1>1, <1>8, <1>9, QuietHandler

LEMMA CompletionQuiet ==
    ASSUME IInv, Quiet, ~MayDelete, NEW d \in Device, handleCompletion(d)
    PROVE  Quiet'
<1> DEFINE q == completions[d]
           c == Head(q)
           g == [files[d] EXCEPT ![c.path] = c.leaf]
<1>1. q # <<>> /\ up[d] /\ FinishCompletion(d)
  BY DEF handleCompletion, completeOk, completeFail, completeTomb, completeAbort, Completes
<1>2. c \in GoodCompletion(issued) /\ c.path \in Path /\ c.leaf \in Good(issued)
      /\ q \in Seq(GoodCompletion(issued))
  BY <1>1, HeadCompletion DEF GoodCompletion, IInv
<1>3. c.kind # "applyTomb"
  BY <1>2 DEF GoodCompletion, Good
<1>4. /\ Local(d) \in GoodState(issued) /\ issued \in History
      /\ Local(d).files = files[d] /\ Local(d).disk = disk[d]
  BY NoIssue, LocalGood DEF IInv, Local
<1>5. \A s \in GoodState(issued) : /\ Cleared(s, c.path) \in GoodState(issued)
                                   /\ Cleared(s, c.path).files = s.files
                                   /\ Cleared(s, c.path).disk = s.disk
  BY DEF Cleared, GoodState
<1>6. PICK r : /\ Commit(d, r, inq[d], peerUp[d]) /\ r.disk = disk[d]
               /\ r.files = IF c.kind = "ok" THEN g ELSE files[d]
  <2>1. CASE completeOk(d)
    <3> DEFINE s == [Local(d) EXCEPT !.files[c.path] = c.leaf]
               t == broadcastUpdate(s, IF c.advertise THEN {c.path} ELSE {})
    <3>1. s \in GoodState(issued) /\ s.files = g /\ s.disk = disk[d]
      <4>1. g \in GoodMap(issued)
        BY <1>2 DEF IInv, GoodMap
      <4>2. s = [Local(d) EXCEPT !.files = g]
        BY DEF Local
      <4> HIDE DEF g, s
      <4> QED BY <1>4, <4>1, <4>2 DEF GoodState
    <3>2. t \in GoodState(issued) /\ t.files = g /\ t.disk = disk[d]
      <4> HIDE DEF s
      <4>1. t \in GoodState(issued)
        BY <1>4, <3>1, BroadcastGood
      <4>2. t.files = g /\ t.disk = disk[d]
        BY <3>1, BroadcastKeeps
      <4> QED BY <4>1, <4>2
    <3>3. c.kind = "ok" /\ \E r \in Reconciled(d, {Cleared(t, c.path)}) : Commit(d, r, inq[d], peerUp[d])
      BY <2>1 DEF completeOk, Completes
    <3> HIDE DEF t, g
    <3> DEFINE u == Cleared(t, c.path)
    <3>4. u \in GoodState(issued) /\ u.files = g /\ u.disk = disk[d]
      BY <1>5, <3>2
    <3> HIDE DEF u
    <3>5. \A r \in Reconciled(d, {u}) : r.files = g /\ r.disk = disk[d]
      BY <1>4, <3>4, ReconciledKeeps
    <3> QED BY <3>3, <3>5 DEF u
  <2>2. CASE completeFail(d)
    <3>1. c.kind = "fail" /\ \E r \in Reconciled(d, {Cleared(Local(d), c.path)}) : Commit(d, r, inq[d], peerUp[d])
      BY <2>2 DEF completeFail, Completes
    <3> DEFINE u == Cleared(Local(d), c.path)
    <3>2. u \in GoodState(issued) /\ u.files = files[d] /\ u.disk = disk[d]
      BY <1>4, <1>5
    <3> HIDE DEF u
    <3>3. \A r \in Reconciled(d, {u}) : r.files = files[d] /\ r.disk = disk[d]
      BY <1>4, <3>2, ReconciledKeeps
    <3> QED BY <3>1, <3>3 DEF u
  <2>3. CASE completeAbort(d)
    BY <1>4, <1>5, <2>3 DEF completeAbort, Completes
  <2>4. ~completeTomb(d)
    BY <1>3 DEF completeTomb, Completes
  <2> QED BY <2>1, <2>2, <2>3, <2>4 DEF handleCompletion
<1>7. /\ disk' = disk /\ mine' = mine /\ files'[d] = r.files
      /\ \A e \in Device \ {d} : files'[e] = files[e]
  <2>1. Commit(d, r, inq[d], peerUp[d]) /\ r.disk = disk[d]
    BY <1>6
  <2> QED BY <2>1, CommitKeeps
<1>8. /\ UNCHANGED <<up, snap, pulls, left>> /\ completions'[d] = Tail(q)
      /\ \A e \in Device \ {d} : completions'[e] = completions[e]
  BY <1>1 DEF FinishCompletion, IInv
<1>9. Inside(d)
  BY <1>7, <1>8 DEF Inside
<1>10. \A p \in Path : files'[d][p] = IF c.kind = "ok" /\ p = c.path THEN c.leaf ELSE files[d][p]
  BY <1>2, <1>6, <1>7 DEF IInv, GoodMap
<1> HIDE DEF c, g, q
<1>11. ASSUME NEW p \in Path, disk[d][p] = Absent
       PROVE  files'[d][p] = Absent /\ Landed(Tail(q), p) = {}
  <2>1. files[d][p] = Absent /\ Landed(q, p) = {}
    BY <1>11 DEF Quiet, q
  <2>2. \A i \in Landed(Tail(q), p) : i + 1 \in Landed(q, p)
    BY <1>1, <1>2, LandedUp
  <2>3. ~(c.kind = "ok" /\ c.path = p)
    BY <1>1, <1>2, <2>1, LandedFirst DEF c
  <2> QED BY <1>10, <2>1, <2>2, <2>3
<1>12. ASSUME NEW p \in Path \ mine[d]
       PROVE  Explains(files'[d][p], Tail(q), p, disk[d][p])
  <2>1. Explains(files[d][p], q, p, disk[d][p])
    BY <1>1 DEF Quiet, q
  <2>2. CASE c.kind = "ok" /\ p = c.path
    BY <1>1, <1>2, <1>10, <2>1, <2>2, TailLanded DEF c
  <2>3. CASE ~(c.kind = "ok" /\ p = c.path)
    BY <1>1, <1>2, <1>10, <2>1, <2>3, TailOther DEF c
  <2> QED BY <2>2, <2>3
<1> QED BY <1>1, <1>8, <1>9, <1>11, <1>12, QuietStep

\* Change detection makes a leaf of the file's content, or leaves the leaf as it is.
LEMMA DetectedQuiet ==
    ASSUME IInv, Quiet, NEW d \in Device, NEW p \in Path
    PROVE  /\ disk[d][p] = Absent => Detected(d, p) = Absent
           /\ HashOf(Detected(d, p)) \in {HashOf(files[d][p]), HashOf(disk[d][p])}
<1> DEFINE prev == files[d][p]
           x == disk[d][p]
<1>1. issued \in History /\ prev \in Good(issued) \cup {Absent} /\ x \in File \cup {Absent}
      /\ Detected(d, p) \in Claimed(issued, d) \cup {Absent}
  BY DetectedClaimed, QuietIsBacked DEF IInv, GoodMap, DiskMap
<1>2. CASE x = Absent
  BY <1>2 DEF Quiet, Detected, Live
<1>3. CASE x # Absent /\ Unchanged(prev, x)
  <2>1. prev \in Leaf /\ prev # Absent
    BY <1>1, <1>3 DEF Unchanged, Live, Good
  <2>2. Detected(d, p) = [prev EXCEPT !.mtime = x.mtime]
    BY <1>3 DEF Detected
  <2>3. Detected(d, p) # Absent
    <3>1. x.mtime \in MTime
      BY <1>1, <1>3 DEF File
    <3>2. [prev EXCEPT !.mtime = x.mtime] \in Leaf
      BY <2>1, <3>1 DEF Leaf
    <3> QED BY <2>2, <3>2, AbsentAssumption
  <2> HIDE DEF prev, x
  <2>4. Detected(d, p).hash = prev.hash
    BY <2>1, <2>2 DEF Leaf
  <2> QED BY <1>3, <2>1, <2>3, <2>4 DEF HashOf, prev, x
<1>4. CASE x # Absent /\ ~Unchanged(prev, x)
  <2>1. Authored(prev, x, d) \in Leaf /\ Authored(prev, x, d) # Absent
    BY <1>1, <1>4, AuthoredClaimed, AbsentAssumption DEF Claimed
  <2>2. Authored(prev, x, d).hash = x.hash
    BY DEF Authored, Scanned
  <2>3. Detected(d, p) \in {prev, Authored(prev, x, d)}
    BY <1>4 DEF Detected
  <2> QED BY <1>4, <2>1, <2>2, <2>3 DEF HashOf
<1> QED BY <1>2, <1>3, <1>4

LEMMA LocalChangeQuiet ==
    ASSUME IInv, Quiet, NEW d \in Device, NEW p \in Path, onLocalChange(d, p)
    PROVE  Quiet'
<1> DEFINE f == [files[d] EXCEPT ![p] = Detected(d, p)]
           s == [Local(d) EXCEPT !.files = f]
           t == broadcastUpdate(s, News(d, f, {p}))
<1>1. /\ up[d] /\ Commit(d, t, inq[d], peerUp[d])
      /\ UNCHANGED <<up, snap, pulls, completions, left>>
  BY DEF onLocalChange
<1>2. t.files = f /\ t.disk = disk[d]
  BY DEF broadcastUpdate, Local
<1> HIDE DEF t
<1>3. /\ disk' = disk /\ mine' = mine /\ files'[d] = f
      /\ \A e \in Device \ {d} : files'[e] = files[e]
  BY <1>1, <1>2, CommitKeeps
<1>4. \A r \in Path : f[r] = IF r = p THEN Detected(d, p) ELSE files[d][r]
  BY DEF IInv, GoodMap
<1> HIDE DEF f
<1>5. \A r \in Path :
         /\ disk[d][r] = Absent => files'[d][r] = Absent
         /\ HashOf(files'[d][r]) \in {HashOf(files[d][r]), HashOf(disk[d][r])}
  <2> TAKE r \in Path
  <2>1. CASE r = p
    BY <1>3, <1>4, <2>1, DetectedQuiet
  <2>2. CASE r # p
    BY <1>3, <1>4, <2>2 DEF Quiet
  <2> QED BY <2>1, <2>2
<1>6. Inside(d)
  BY <1>1, <1>3 DEF Inside
<1> QED BY <1>1, <1>5, <1>6, QuietHandler

\* What the rescan leaves in the table, when there are no tombstones to forget.
LEMMA RescanFiles ==
    ASSUME IInv, Quiet, ~MayDelete, NEW d \in Device, rescan(d)
    PROVE  /\ disk' = disk /\ mine' = mine /\ \A e \in Device \ {d} : files'[e] = files[e]
           /\ files'[d] = [p \in Path |-> Detected(d, p)]
           /\ snap' = [snap EXCEPT ![d] = Saved(d, files'[d])]
<1> DEFINE f == [p \in Path |-> Detected(d, p)]
           told == broadcastUpdate([Local(d) EXCEPT !.files = f], News(d, f, Path))
           g == IF peerUp[d] THEN gcTombstones(f, index[d]) ELSE f
           s == [told EXCEPT !.files = g]
<1>1. Issue(d, f)
  BY DEF rescan
<1>2. PICK r \in Reconciled(d, {s}) :
          Commit(d, r, inq[d], peerUp[d]) /\ snap' = [snap EXCEPT ![d] = Saved(d, r.files)]
  BY DEF rescan
<1>3. f \in ClaimedMap(issued, d)
  BY DetectedClaimed, QuietIsBacked DEF ClaimedMap
<1>0. f = [p \in Path |-> Detected(d, p)]
  OBVIOUS
<1> HIDE DEF f
<1>4. Extends(issued, issued') /\ f \in GoodMap(issued')
  BY <1>1, <1>3, IssueGood
<1>5. Local(d) \in GoodState(issued')
  BY <1>4, LocalGood
<1>6. [Local(d) EXCEPT !.files = f] \in GoodState(issued')
      /\ [Local(d) EXCEPT !.files = f].disk = disk[d]
  BY <1>4, <1>5 DEF GoodState, Local
<1>7. told \in GoodState(issued')
  BY <1>4, <1>6, BroadcastGood DEF Extends
<1>8. told.disk = disk[d]
  BY <1>6, BroadcastKeeps
<1>9. g = f
  BY <1>4, GCKeeps
<1> HIDE DEF told, g
<1>10. s \in GoodState(issued') /\ s.files = f /\ s.disk = disk[d]
  BY <1>4, <1>7, <1>8, <1>9 DEF GoodState
<1> HIDE DEF s
<1>11. r.files = f /\ r.disk = disk[d]
  BY <1>2, <1>4, <1>10, ReconciledKeeps DEF Extends
<1>12. /\ disk' = disk /\ mine' = mine /\ files'[d] = r.files
       /\ \A e \in Device \ {d} : files'[e] = files[e]
  <2>1. Commit(d, r, inq[d], peerUp[d])
    BY <1>2
  <2> QED BY <1>11, <2>1, CommitKeeps
<1> QED BY <1>0, <1>2, <1>11, <1>12

LEMMA RescanQuiet ==
    ASSUME IInv, Quiet, ~MayDelete, NEW d \in Device, rescan(d)
    PROVE  Quiet'
<1>1. up[d] /\ UNCHANGED <<up, pulls, completions, left>>
  BY DEF rescan
<1>2. /\ disk' = disk /\ mine' = mine /\ \A e \in Device \ {d} : files'[e] = files[e]
      /\ files'[d] = [p \in Path |-> Detected(d, p)]
      /\ snap' = [snap EXCEPT ![d] = Saved(d, files'[d])]
  BY RescanFiles
<1>3. /\ \A e \in Device \ {d} : snap'[e] = snap[e]
      /\ \A p \in Path : snap'[d][p] \in {snap[d][p], files'[d][p]}
  BY <1>2 DEF IInv, Saved
<1>4. Inside(d)
  BY <1>1, <1>2, <1>3 DEF Inside
<1>5. \A p \in Path :
         /\ disk[d][p] = Absent => files'[d][p] = Absent
         /\ HashOf(files'[d][p]) \in {HashOf(files[d][p]), HashOf(disk[d][p])}
  BY <1>2, DetectedQuiet
<1> QED BY <1>1, <1>4, <1>5, QuietHandler

\* The pullers run only while their daemon does.
LEMMA PullingIsUp ==
    ASSUME Quiet, NEW d \in Device, NEW x \in pulls[d]
    PROVE  up[d]
BY DEF Quiet

\* A puller's step that reports nothing.
LEMMA SilentPull ==
    ASSUME IInv, Quiet, NEW d \in Device, PullTake(d) \/ \E x \in pulls[d] : FetchBytes(d, x)
    PROVE  Quiet'
<1>1. /\ up[d] /\ UNCHANGED <<up, disk, snap, files, completions, mine, left>>
      /\ \A e \in Device \ {d} : pulls'[e] = pulls[e]
  BY PullingIsUp DEF PullTake, FetchBytes, IInv, loopVars
<1>2. Inside(d)
  BY <1>1 DEF Inside
<1>3. \A p \in Path : /\ disk[d][p] = Absent => files'[d][p] = Absent
                      /\ HashOf(files'[d][p]) = HashOf(files[d][p])
  BY <1>1 DEF Quiet
<1> QED BY <1>1, <1>2, <1>3, QuietHandler

LEMMA PullFailQuiet ==
    ASSUME IInv, Quiet, NEW d \in Device, NEW x \in pulls[d], PullFail(d, x)
    PROVE  Quiet'
<1> DEFINE G == GoodCompletion(issued)
           q == completions[d]
           c == Target(x)
           fail == Report("fail", c, x.phase = "preserve" /\ x.task.advertise)
           abort == Report("abort", [path |-> x.task.path, leaf |-> x.task.leaf], FALSE)
           r == Append(q, fail)
           z == Append(r, abort)
<1>1. x \in GoodPull(issued) /\ q \in Seq(G)
  BY DEF IInv
<1>2. x.task.path \in Path /\ x.task.leaf \in Good(issued) /\ x.task.advertise \in BOOLEAN
  BY <1>1 DEF GoodPull, GoodTask
<1>3. c.path \in Path /\ c.leaf \in Good(issued)
  BY <1>1, TargetGood
<1>4. fail \in G /\ abort \in G /\ fail.kind = "fail" /\ abort.kind = "abort"
  BY <1>2, <1>3, ReportGood DEF Report
<1>5. /\ up[d] /\ UNCHANGED <<up, disk, snap, files, mine>>
      /\ \A e \in Device \ {d} : pulls'[e] = pulls[e]
  BY PullingIsUp DEF PullFail, IInv, loopVars
<1>6. left'["delete"] = left["delete"]
  BY DEF PullFail, Spend, IInv, Outside
<1>7. completions' = [completions EXCEPT ![d] = q \o <<fail>> \o
                        IF x.phase = "preserve" THEN <<abort>> ELSE <<>>]
  BY DEF PullFail
<1> HIDE DEF fail, abort, G, q
<1>8. q \o <<fail>> = r /\ r \in Seq(G) /\ r \o <<abort>> = z /\ r \o <<>> = r
  BY <1>1, <1>4
<1>9. completions'[d] \in {r, z} /\ \A e \in Device \ {d} : completions'[e] = completions[e]
  BY <1>7, <1>8 DEF IInv
<1> HIDE DEF r, z
<1>10. Inside(d)
  BY <1>5, <1>6, <1>9 DEF Inside
<1>11. ASSUME NEW p \in Path, disk[d][p] = Absent
       PROVE  files'[d][p] = Absent /\ Landed(completions'[d], p) = {}
  <2>1. files[d][p] = Absent /\ Landed(q, p) = {}
    BY <1>11 DEF Quiet, q
  <2>2. Landed(r, p) = Landed(q, p)
    BY <1>1, <1>4, LandedAppend DEF r
  <2>3. Landed(z, p) = Landed(r, p)
    BY <1>4, <1>8, LandedAppend DEF z
  <2> QED BY <1>5, <1>9, <2>1, <2>2, <2>3
<1>12. ASSUME NEW p \in Path \ mine[d]
       PROVE  Explains(files'[d][p], completions'[d], p, disk[d][p])
  <2>1. Explains(files[d][p], q, p, disk[d][p])
    BY <1>5 DEF Quiet, q
  <2>2. Explains(files[d][p], r, p, disk[d][p])
    BY <1>1, <1>4, <2>1, AppendOther DEF r
  <2>3. Explains(files[d][p], z, p, disk[d][p])
    BY <1>4, <1>8, <2>2, AppendOther DEF z
  <2> QED BY <1>5, <1>9, <2>2, <2>3
<1> QED BY <1>5, <1>10, <1>11, <1>12, QuietStep

LEMMA InstallQuiet ==
    ASSUME IInv, Quiet, ~MayDelete, NEW d \in Device, NEW x \in pulls[d], NEW m \in MTime,
           InstallBytes(d, x, m)
    PROVE  Quiet'
<1> DEFINE G == GoodCompletion(issued)
           q == completions[d]
           c == Target(x)
           done == Report("ok", c, x.phase = "preserve" /\ x.task.advertise)
           r == Append(q, done)
<1>1. x \in GoodPull(issued) /\ q \in Seq(G)
  BY DEF IInv
<1>2. x.task.leaf \in Good(issued) /\ x.task.advertise \in BOOLEAN /\ ~x.task.leaf.del
  BY <1>1 DEF GoodPull, GoodTask, Good
<1>3. c.path \in Path /\ c.leaf \in Good(issued) /\ c.leaf.hash \in Content
  BY <1>1, TargetGood
<1>4. done \in G /\ done.kind = "ok" /\ done.path = c.path /\ done.leaf = c.leaf
  BY <1>2, <1>3, ReportGood DEF Report
<1>5. up[d] /\ UNCHANGED <<up, snap, files, left>>
  BY PullingIsUp DEF InstallBytes, loopVars
<1>6. /\ \A e \in Device \ {d} : pulls'[e] = pulls[e]
      /\ completions' = [completions EXCEPT ![d] = r]
  <2>1. AfterLanding(d, x)
    BY DEF InstallBytes
  <2>2. \A e \in Device \ {d} : pulls'[e] = pulls[e]
    BY <2>1 DEF AfterLanding, IInv
  <2>3. \/ completions' = [completions EXCEPT ![d] = Append(q, done)]
        \/ completions' = [completions EXCEPT ![d] = q \o <<done>>]
    BY <1>2, <2>1 DEF AfterLanding
  <2> HIDE DEF done, G, q
  <2>4. q \o <<done>> = Append(q, done)
    BY <1>1, <1>4
  <2> QED BY <2>2, <2>3, <2>4
<1>7. /\ \A e \in Device, p \in Path :
            e # d \/ p # c.path => /\ disk'[e][p] = disk[e][p]
                                   /\ p \in mine'[e] <=> p \in mine[e]
      /\ disk'[d][c.path] # Absent /\ HashOf(disk'[d][c.path]) = c.leaf.hash
  <2> DEFINE file == [hash |-> c.leaf.hash, mtime |-> m]
  <2>1. \/ Holds(d, c.path, c.leaf.hash) /\ UNCHANGED <<disk, mine>>
        \/ /\ disk' = [disk EXCEPT ![d] = [disk[d] EXCEPT ![c.path] = file]]
           /\ mine' = [mine EXCEPT ![d] = @ \ {c.path}]
    BY DEF InstallBytes
  <2>2. file \in File /\ file.hash = c.leaf.hash /\ file # Absent /\ c.leaf.hash # 0
    BY <1>3, AbsentAssumption, DataAssumption DEF File
  <2> HIDE DEF file, c
  <2>3. CASE Holds(d, c.path, c.leaf.hash) /\ UNCHANGED <<disk, mine>>
    BY <2>2, <2>3 DEF Holds, HashOf
  <2>4. CASE /\ disk' = [disk EXCEPT ![d] = [disk[d] EXCEPT ![c.path] = file]]
             /\ mine' = [mine EXCEPT ![d] = @ \ {c.path}]
    <3>1. disk[d] \in DiskMap /\ DOMAIN disk[d] = Path /\ DOMAIN disk = Device
      BY DEF IInv, DiskMap
    <3>2. disk'[d][c.path] = file
      BY <1>3, <2>4, <3>1
    <3>3. \A e \in Device, p \in Path : e # d \/ p # c.path => disk'[e][p] = disk[e][p]
      BY <1>3, <2>4, <3>1
    <3>4. \A e \in Device, p \in Path : e # d \/ p # c.path => (p \in mine'[e] <=> p \in mine[e])
      BY <2>4 DEF IInv
    <3> QED BY <2>2, <3>2, <3>3, <3>4 DEF HashOf
  <2> QED BY <2>1, <2>3, <2>4
<1>8. \A e \in Device : completions'[e] = IF e = d THEN r ELSE completions[e]
  BY <1>6 DEF IInv
<1> HIDE DEF G, q, c, done
<1>9. \A p \in Path : p # c.path => Landed(r, p) = Landed(q, p)
  BY <1>1, <1>4, LandedAppend
<1> HIDE DEF r
<1>10. left'["delete"] = 0
  BY <1>5 DEF Quiet
<1>11. ASSUME NEW e \in Device, ~up'[e]
       PROVE  pulls'[e] = {} /\ completions'[e] = <<>>
  BY <1>5, <1>6, <1>8, <1>11 DEF Quiet
<1>12. ASSUME NEW e \in Device, NEW p \in Path, disk'[e][p] = Absent
       PROVE  files'[e][p] = Absent /\ snap'[e][p] = Absent /\ Landed(completions'[e], p) = {}
  <2>1. (e # d \/ p # c.path) /\ disk[e][p] = Absent
    BY <1>7, <1>12
  <2>2. files[e][p] = Absent /\ snap[e][p] = Absent /\ Landed(completions[e], p) = {}
    BY <2>1 DEF Quiet
  <2>3. Landed(completions'[e], p) = Landed(completions[e], p)
    BY <1>8, <1>9, <2>1 DEF q
  <2> QED BY <1>5, <2>2, <2>3
<1>13. ASSUME NEW e \in Device, NEW p \in Path, up'[e], p \notin mine'[e]
       PROVE  Explains(files'[e][p], completions'[e], p, disk'[e][p])
  <2>1. CASE e = d /\ p = c.path
    <3>1. done.leaf.hash = HashOf(disk'[e][p])
      BY <1>4, <1>7, <2>1
    <3>2. Explains(files'[e][p], r, p, disk'[e][p])
      BY <1>1, <1>4, <2>1, <3>1, AppendLanded DEF r
    <3> QED BY <1>8, <2>1, <3>2
  <2>2. CASE e # d \/ p # c.path
    <3>1. Explains(files[e][p], completions[e], p, disk[e][p]) /\ disk'[e][p] = disk[e][p]
      BY <1>5, <1>7, <1>13, <2>2 DEF Quiet
    <3>2. CASE e # d
      BY <1>5, <1>8, <3>1, <3>2
    <3>3. CASE e = d /\ p # c.path
      <4>1. Explains(files[e][p], q, p, disk[e][p])
        BY <3>1, <3>3 DEF q
      <4>2. Explains(files[e][p], r, p, disk[e][p])
        BY <1>1, <1>4, <3>3, <4>1, AppendOther DEF r
      <4> QED BY <1>5, <1>8, <3>1, <3>3, <4>2
    <3> QED BY <2>2, <3>2, <3>3
  <2> QED BY <2>1, <2>2
<1> QED BY <1>10, <1>11, <1>12, <1>13 DEF Quiet, Landed, Explains

\* restoreVVs gives a scanned file a history, not another content.
LEMMA RestoredContent ==
    ASSUME NEW I \in History, NEW d \in Device, NEW l \in Good(I) \cup {Absent}, NEW x \in File
    PROVE  restoreVV(l, x, d) # Absent /\ restoreVV(l, x, d).hash = x.hash
<1>1. Scanned(x) \in Leaf /\ Scanned(x).hash = x.hash
  BY ScannedGood DEF Good
<1>2. CASE l = Absent
  BY <1>1, <1>2, AbsentAssumption DEF restoreVV, Live
<1>3. CASE Live(l) /\ l.hash = x.hash
  <2>1. l.vv \in VersionVector
    BY <1>3 DEF Live, Good, Leaf
  <2>2. [Scanned(x) EXCEPT !.vv = l.vv] \in Leaf /\ [Scanned(x) EXCEPT !.vv = l.vv].hash = x.hash
    BY <1>1, <2>1 DEF Leaf
  <2>3. restoreVV(l, x, d) = [Scanned(x) EXCEPT !.vv = l.vv]
    BY <1>3 DEF restoreVV, Live
  <2> QED BY <2>2, <2>3, AbsentAssumption
<1>4. CASE l # Absent /\ ~(Live(l) /\ l.hash = x.hash)
  <2>1. Authored(l, x, d) \in Leaf
    BY AuthoredClaimed DEF Claimed
  <2>2. Authored(l, x, d).hash = x.hash
    BY DEF Authored, Scanned
  <2>3. restoreVV(l, x, d) = Authored(l, x, d)
    BY <1>4 DEF restoreVV
  <2> QED BY <2>1, <2>2, <2>3, AbsentAssumption
<1> QED BY <1>2, <1>3, <1>4

\* A restart records what it finds on the disk.
LEMMA StartQuiet ==
    ASSUME IInv, Quiet, NEW d \in Device, Start(d)
    PROVE  Quiet'
<1> DEFINE f == startupFiles(snap[d], disk[d], d)
<1>1. /\ ~up[d] /\ up' = [up EXCEPT ![d] = TRUE] /\ files' = [files EXCEPT ![d] = f]
      /\ UNCHANGED <<disk, snap, pulls, completions, mine, left>>
  BY DEF Start
<1>2. \A p \in Path : /\ disk[d][p] = Absent => f[p] = Absent
                      /\ HashOf(f[p]) = HashOf(disk[d][p])
  <2> TAKE p \in Path
  <2> DEFINE x == disk[d][p]
             l == snap[d][p]
  <2>1. x \in File \cup {Absent} /\ l \in Good(issued) \cup {Absent} /\ issued \in History
    BY DEF IInv, DiskMap, GoodMap
  <2>2. CASE x = Absent
    BY <2>2 DEF Quiet, startupFiles, synthesizeDeletion, Live
  <2>3. CASE x # Absent
    <3>1. f[p] = restoreVV(l, x, d)
      BY <2>3 DEF startupFiles
    <3> HIDE DEF f, x, l
    <3>2. f[p] # Absent /\ f[p].hash = x.hash
      BY <2>1, <2>3, <3>1, RestoredContent
    <3> QED BY <2>3, <3>2 DEF HashOf, x
  <2> QED BY <2>2, <2>3
<1> HIDE DEF f
<1>3. completions[d] = <<>> /\ \A p : Landed(<<>>, p) = {}
  BY <1>1 DEF Quiet, Landed
<1>4. \A e \in Device : /\ files'[e] = IF e = d THEN f ELSE files[e]
                        /\ up'[e] <=> e = d \/ up[e]
  BY <1>1 DEF IInv
<1>5. left'["delete"] = 0
  BY <1>1 DEF Quiet
<1>6. ASSUME NEW e \in Device, ~up'[e]
      PROVE  pulls'[e] = {} /\ completions'[e] = <<>>
  BY <1>1, <1>4, <1>6 DEF Quiet
<1>7. ASSUME NEW e \in Device, NEW p \in Path, disk'[e][p] = Absent
      PROVE  files'[e][p] = Absent /\ snap'[e][p] = Absent /\ Landed(completions'[e], p) = {}
  BY <1>1, <1>2, <1>4, <1>7 DEF Quiet
<1>8. ASSUME NEW e \in Device, NEW p \in Path, up'[e], p \notin mine'[e]
      PROVE  Explains(files'[e][p], completions'[e], p, disk'[e][p])
  <2>1. CASE e = d
    BY <1>1, <1>2, <1>3, <1>4, <2>1 DEF Explains
  <2>2. CASE e # d
    BY <1>1, <1>4, <1>8, <2>2 DEF Quiet
  <2> QED BY <2>1, <2>2
<1> QED BY <1>5, <1>6, <1>7, <1>8 DEF Quiet, Landed, Explains

LEMMA HaltQuiet ==
    ASSUME IInv, Quiet, NEW d \in Device, Crash(d) \/ Stop(d)
    PROVE  Quiet'
<1>1. /\ up' = [up EXCEPT ![d] = FALSE] /\ files' = [files EXCEPT ![d] = EmptyMap]
      /\ pulls' = [pulls EXCEPT ![d] = {}] /\ completions' = [completions EXCEPT ![d] = <<>>]
      /\ UNCHANGED <<disk, mine>> /\ Spend("crash")
  BY DEF Crash, Stop, Halt
<1>2. left'["delete"] = 0
  BY <1>1 DEF Quiet, Spend, IInv, Outside
<1>3. \A e \in Device : /\ up'[e] <=> e # d /\ up[e]
                        /\ files'[e] = IF e = d THEN EmptyMap ELSE files[e]
                        /\ pulls'[e] = IF e = d THEN {} ELSE pulls[e]
                        /\ completions'[e] = IF e = d THEN <<>> ELSE completions[e]
  BY <1>1 DEF IInv
<1>4. \A e \in Device, p \in Path : snap'[e][p] \in {snap[e][p], files[e][p]}
  BY DEF Crash, Stop, IInv
<1>5. \A p : Landed(<<>>, p) = {}
  BY DEF Landed
<1>6. ASSUME NEW e \in Device, ~up'[e]
      PROVE  pulls'[e] = {} /\ completions'[e] = <<>>
  BY <1>3, <1>6 DEF Quiet
<1>7. ASSUME NEW e \in Device, NEW p \in Path, disk'[e][p] = Absent
      PROVE  files'[e][p] = Absent /\ snap'[e][p] = Absent /\ Landed(completions'[e], p) = {}
  BY <1>1, <1>3, <1>4, <1>5, <1>7 DEF Quiet, EmptyMap
<1>8. ASSUME NEW e \in Device, NEW p \in Path, up'[e], p \notin mine'[e]
      PROVE  Explains(files'[e][p], completions'[e], p, disk'[e][p])
  BY <1>1, <1>3, <1>8 DEF Quiet
<1> QED BY <1>2, <1>6, <1>7, <1>8 DEF Quiet, Landed, Explains

LEMMA SnapshotQuiet ==
    ASSUME IInv, Quiet, NEW d \in Device, saveSnapshot(d)
    PROVE  Quiet'
<1>1. /\ up[d] /\ UNCHANGED <<up, disk, files, pulls, completions, mine, left>>
      /\ snap' = [snap EXCEPT ![d] = files[d]]
  BY DEF saveSnapshot, loopVars
<1>2. Inside(d)
  BY <1>1 DEF Inside, IInv
<1>3. \A p \in Path : /\ disk[d][p] = Absent => files'[d][p] = Absent
                      /\ HashOf(files'[d][p]) = HashOf(files[d][p])
  BY <1>1 DEF Quiet
<1> QED BY <1>1, <1>2, <1>3, QuietHandler

\* A write makes a path the user's, a touch leaves its content alone.
LEMMA UserQuiet ==
    ASSUME IInv, Quiet, NEW d \in Device, User(d)
    PROVE  Quiet'
<1> PICK p \in UserPath :
        \/ \E c \in Content, m \in MTime : UserWrite(d, p, c, m)
        \/ UserDelete(d, p)
        \/ \E m \in MTime : UserTouch(d, p, m)
  BY DEF User
<1>1. /\ UNCHANGED <<up, snap, files, pulls, completions>>
      /\ left'["delete"] = 0 /\ ~UserDelete(d, p)
  BY DEF UserWrite, UserDelete, UserTouch, Spend, Quiet, IInv, Outside, loopVars
<1>2. \A e \in Device, r \in Path :
         \/ disk'[e][r] = disk[e][r] /\ (r \notin mine'[e] => r \notin mine[e])
         \/ disk'[e][r] # Absent /\ r \in mine'[e]
         \/ disk'[e][r] # Absent /\ mine' = mine /\ HashOf(disk'[e][r]) = HashOf(disk[e][r])
  <2> SUFFICES ASSUME NEW e \in Device, NEW r \in Path
               PROVE  \/ disk'[e][r] = disk[e][r] /\ (r \notin mine'[e] => r \notin mine[e])
                      \/ disk'[e][r] # Absent /\ r \in mine'[e]
                      \/ disk'[e][r] # Absent /\ mine' = mine
                                /\ HashOf(disk'[e][r]) = HashOf(disk[e][r])
    OBVIOUS
  <2>0. disk[d] \in DiskMap /\ disk[e] \in DiskMap /\ DOMAIN disk = Device
        /\ DOMAIN disk[d] = Path /\ DOMAIN disk[e] = Path
    BY DEF IInv, DiskMap
  <2>1. CASE \E c \in Content, m \in MTime : UserWrite(d, p, c, m)
    <3>1. PICK c \in Content, m \in MTime : UserWrite(d, p, c, m)
      BY <2>1
    <3> DEFINE file == [hash |-> c, mtime |-> m]
    <3>2. file \in File /\ file # Absent
      BY AbsentAssumption DEF File
    <3>3. disk' = [disk EXCEPT ![d] = [disk[d] EXCEPT ![p] = file]]
          /\ mine' = [mine EXCEPT ![d] = @ \cup {p}]
      BY <3>1 DEF UserWrite
    <3> HIDE DEF file
    <3>4. CASE e = d /\ r = p
      BY <2>0, <3>2, <3>3, <3>4 DEF IInv
    <3>5. CASE e # d \/ r # p
      BY <2>0, <3>3, <3>5 DEF IInv
    <3> QED BY <3>4, <3>5
  <2>2. CASE \E m \in MTime : UserTouch(d, p, m)
    <3>1. PICK m \in MTime : UserTouch(d, p, m)
      BY <2>2
    <3> DEFINE file == [disk[d][p] EXCEPT !.mtime = m]
    <3>2. disk' = [disk EXCEPT ![d] = [disk[d] EXCEPT ![p] = file]] /\ mine' = mine
          /\ disk[d][p] # Absent
      BY <3>1 DEF UserTouch
    <3>3. CASE e = d /\ r = p
      <4>1. disk[d][p] \in File
        BY <2>0, <3>2, <3>3 DEF DiskMap
      <4>2. file \in File /\ file.hash = disk[d][p].hash
        BY <4>1 DEF File
      <4>3. file # Absent
        BY <4>2, AbsentAssumption
      <4> HIDE DEF file
      <4>4. disk'[e][r] = file
        BY <2>0, <3>2, <3>3
      <4> QED BY <3>2, <3>3, <4>2, <4>3, <4>4 DEF HashOf
    <3> HIDE DEF file
    <3>4. CASE e # d \/ r # p
      BY <2>0, <3>2, <3>4
    <3> QED BY <3>3, <3>4
  <2> QED BY <1>1, <2>1, <2>2
<1>3. ASSUME NEW e \in Device, ~up'[e]
      PROVE  pulls'[e] = {} /\ completions'[e] = <<>>
  BY <1>1, <1>3 DEF Quiet
<1>4. ASSUME NEW e \in Device, NEW r \in Path, disk'[e][r] = Absent
      PROVE  files'[e][r] = Absent /\ snap'[e][r] = Absent /\ Landed(completions'[e], r) = {}
  BY <1>1, <1>2, <1>4 DEF Quiet
<1>5. ASSUME NEW e \in Device, NEW r \in Path, up'[e], r \notin mine'[e]
      PROVE  Explains(files'[e][r], completions'[e], r, disk'[e][r])
  <2>1. /\ HashOf(disk'[e][r]) = HashOf(disk[e][r]) /\ r \notin mine[e]
        /\ up[e] /\ files'[e] = files[e] /\ completions'[e] = completions[e]
    BY <1>1, <1>2, <1>5
  <2>2. Explains(files[e][r], completions[e], r, disk[e][r])
    BY <2>1 DEF Quiet
  <2> QED BY <2>1, <2>2 DEF Explains
<1> QED BY <1>1, <1>3, <1>4, <1>5 DEF Quiet, Landed, Explains

LEMMA LinkQuiet ==
    ASSUME IInv, Quiet, Connect \/ Drop \/ UNCHANGED vars
    PROVE  Quiet'
<1>1. UNCHANGED <<up, disk, snap, files, pulls, completions, mine>>
  BY DEF Connect, Drop, vars, loopVars
<1>2. left'["delete"] = 0
  BY DEF Connect, Drop, vars, Spend, Quiet, IInv, Outside
<1> QED BY <1>1, <1>2 DEF Quiet, Landed, Explains

LEMMA InitQuiet ==
    ASSUME Init, ~MayDelete
    PROVE  Quiet
<1>1. left["delete"] = 0
  BY EngineAssumption DEF Init, MayDelete, Outside
<1>2. \A p : Landed(<<>>, p) = {}
  BY DEF Landed
<1> QED BY <1>1, <1>2 DEF Init, Quiet, EmptyMap

LEMMA NextQuiet ==
    ASSUME IInv, Quiet, ~MayDelete, [Next]_vars
    PROVE  Quiet'
<1>1. CASE Connect \/ Drop \/ UNCHANGED vars
  BY <1>1, LinkQuiet
<1>2. ASSUME NEW d \in Device, User(d) \/ handleTransportEvent(d) \/ handleCompletion(d)
      PROVE  Quiet'
  BY <1>2, UserQuiet, ConnectedQuiet, RemovedQuiet, IndexQuiet, IndexUpdateQuiet, CompletionQuiet
  DEF handleTransportEvent
<1>3. ASSUME NEW d \in Device, Puller(d)
      PROVE  Quiet'
  BY <1>3, SilentPull, InstallQuiet, PullFailQuiet DEF Puller
<1>4. ASSUME NEW d \in Device, (\E p \in Path : onLocalChange(d, p)) \/ rescan(d) \/ saveSnapshot(d)
      PROVE  Quiet'
  BY <1>4, LocalChangeQuiet, RescanQuiet, SnapshotQuiet
<1>5. ASSUME NEW d \in Device, Start(d) \/ Crash(d) \/ Stop(d)
      PROVE  Quiet'
  BY <1>5, StartQuiet, HaltQuiet
<1> QED BY <1>1, <1>2, <1>3, <1>4, <1>5 DEF Next

\* The invariant holds in every reachable state of two daemons.
THEOREM Inductive == Spec => [](IInv /\ (~MayDelete => Quiet))
<1>1. Init => IInv /\ (~MayDelete => Quiet)
  BY InitInv, InitQuiet
<1>2. IInv /\ (~MayDelete => Quiet) /\ [Next]_vars => (IInv /\ (~MayDelete => Quiet))'
  <2> SUFFICES ASSUME IInv, ~MayDelete => Quiet, [Next]_vars
               PROVE  IInv' /\ (~MayDelete => Quiet')
    BY DEF MayDelete
  <2> QED BY QuietIsBacked, NextInv, NextQuiet
<1> QED BY <1>1, <1>2, PTL DEF Spec

LEMMA GoodIsTyped ==
    ASSUME NEW I
    PROVE  /\ GoodMap(I) \subseteq FileMap /\ GoodTask(I) \subseteq Task
           /\ GoodPull(I) \subseteq Pull /\ GoodCompletion(I) \subseteq Completion
           /\ GoodEvent(I) \subseteq Event
<1>1. Good(I) \subseteq Leaf
  BY DEF Good
<1>2. GoodMap(I) \subseteq FileMap
  BY <1>1 DEF GoodMap, FileMap
<1>3. GoodTask(I) \subseteq Task
  BY <1>1 DEF GoodTask, GoodCopy, Task, Copy
<1>4. GoodPull(I) \subseteq Pull
  BY <1>3 DEF GoodPull, Pull
<1>5. GoodCompletion(I) \subseteq Completion
  BY <1>1 DEF GoodCompletion, Completion
<1>6. GoodEvent(I) \subseteq Event
  BY <1>2 DEF GoodEvent, Event
<1> QED BY <1>2, <1>3, <1>4, <1>5, <1>6

\* Type correctness of the two daemons, with the bound of the fetch queue: enqueueFetch,
\* enqueueConflict and enqueueRename never put more into fetchQ than it holds.
THEOREM TypeCorrect == Spec => []TypeOK
<1>1. IInv => TypeOK
  <2> SUFFICES ASSUME IInv PROVE TypeOK
    OBVIOUS
  <2>1. /\ GoodMap(issued) \subseteq FileMap /\ GoodTask(issued) \subseteq Task
        /\ GoodPull(issued) \subseteq Pull /\ GoodCompletion(issued) \subseteq Completion
        /\ GoodEvent(issued) \subseteq Event
    BY GoodIsTyped
  <2>2. /\ Seq(GoodTask(issued)) \subseteq Seq(Task)
        /\ Seq(GoodCompletion(issued)) \subseteq Seq(Completion)
        /\ Seq(GoodEvent(issued)) \subseteq Seq(Event)
    BY <2>1, SeqMonotonic
  <2>3. /\ snap \in [Device -> FileMap] /\ files \in [Device -> FileMap]
        /\ index \in [Device -> FileMap]
    BY <2>1 DEF IInv
  <2>4. pulls \in [Device -> SUBSET Pull]
    BY <2>1 DEF IInv
  <2>5. fetchQ \in [Device -> Seq(Task)] /\ completions \in [Device -> Seq(Completion)]
        /\ inq \in [Device -> Seq(Event)]
    BY <2>2 DEF IInv
  <2> QED BY <2>3, <2>4, <2>5 DEF IInv, TypeOK, Queued, History
<1> QED BY <1>1, Inductive, PTL

\* NoForgedCounter for every instance: whatever the two engines exchange, drop, crash and
\* restart with, no version of a file carries a counter its device has not given out.
THEOREM CountersIssued == Spec => []NoForgedCounter
<1>1. IInv => NoForgedCounter
  <2> SUFFICES ASSUME IInv, NEW d \in Device, NEW p \in Path, NEW v \in Versions(p)
               PROVE  v.vv[d] \in issued[d]
    BY DEF NoForgedCounter
  <2>1. PICK e \in Device :
            v \in {files[e][p], index[e][p]} \cup {inq[e][i].body[p] : i \in Sent(e)}
    BY DEF Versions
  <2>2. v # Absent
    BY DEF Versions
  <2>3. /\ files[e][p] \in Good(issued) \cup {Absent}
        /\ index[e][p] \in Good(issued) \cup {Absent}
    BY DEF IInv, GoodMap
  <2>4. \A i \in Sent(e) : inq[e][i].body[p] \in Good(issued) \cup {Absent}
    <3> TAKE i \in Sent(e)
    <3>1. inq[e][i] \in GoodEvent(issued)
      BY LenProperties DEF Sent, IInv
    <3> QED BY <3>1 DEF GoodEvent, GoodMap
  <2>5. v \in Good(issued)
    BY <2>1, <2>2, <2>3, <2>4
  <2> QED BY <2>5 DEF Good
<1> QED BY <1>1, Inductive, PTL

-----------------------------------------------------------------------------
(* Who detects what. *)

\* A version is never its own successor.
LEMMA BumpDiffers ==
    ASSUME NEW v \in VersionVector, NEW d \in Device
    PROVE  Bump(v, d) # v
<1>1. v[d] \in Nat /\ Bump(v, d)[d] = v[d] + 1
  BY DEF Bump, VersionVector
<1> QED BY <1>1

LEMMA TailDiffers ==
    ASSUME NEW S, NEW q \in Seq(S), q # <<>>
    PROVE  Tail(q) # q
<1>1. Len(Tail(q)) = Len(q) - 1 /\ Len(q) \in Nat
  OBVIOUS
<1> DEFINE n == Len(q)
           m == Len(Tail(q))
<1>2. m = n - 1 /\ n \in Nat
  BY <1>1
<1>3. m # n
  <2> HIDE DEF m, n
  <2> QED BY <1>2
<1> QED BY <1>3, Zenon

\* A handler of d takes an event or a completion away.
LEMMA HandlerTakes ==
    ASSUME IInv, NEW d \in Device, handleTransportEvent(d) \/ handleCompletion(d)
    PROVE  ~Detection(d)
<1>1. CASE handleTransportEvent(d)
  <2>1. inq[d] # <<>> /\ \E s, known : Commit(d, s, Tail(inq[d]), known)
    BY <1>1 DEF handleTransportEvent, onPeerConnected, removePeer, onIndex, onIndexUpdate, Receives
  <2>2. inq'[d] = Tail(inq[d])
    BY <2>1, PeerType DEF Commit, IInv
  <2>3. inq[d] \in Seq(GoodEvent(issued))
    BY DEF IInv
  <2>4. Tail(inq[d]) # inq[d]
    BY <2>1, <2>3, TailDiffers
  <2> QED BY <2>2, <2>4 DEF Detection
<1>2. CASE handleCompletion(d)
  <2>1. completions[d] # <<>> /\ completions'[d] = Tail(completions[d])
    BY <1>2 DEF handleCompletion, completeOk, completeFail, completeTomb, completeAbort,
                Completes, FinishCompletion, IInv
  <2>2. completions[d] \in Seq(GoodCompletion(issued))
    BY DEF IInv
  <2>3. Tail(completions[d]) # completions[d]
    BY <2>1, <2>2, TailDiffers
  <2> QED BY <2>1, <2>3 DEF Detection
<1> QED BY <1>1, <1>2

\* The table of d belongs to its own loop.
LEMMA OthersLeaveFiles ==
    ASSUME IInv, NEW d \in Device, NEW e \in Device, e # d,
           \/ handleTransportEvent(e) \/ handleCompletion(e)
           \/ (\E p \in Path : onLocalChange(e, p)) \/ rescan(e)
           \/ Start(e) \/ Crash(e) \/ Stop(e)
    PROVE  files'[d] = files[d]
<1>1. \E f : files' = [files EXCEPT ![e] = f]
  <2>1. CASE handleTransportEvent(e)
    BY <2>1 DEF handleTransportEvent, onPeerConnected, removePeer, onIndex, onIndexUpdate, Commit
  <2>2. CASE handleCompletion(e)
    BY <2>2 DEF handleCompletion, completeOk, completeFail, completeTomb, completeAbort, Commit
  <2>3. CASE (\E p \in Path : onLocalChange(e, p)) \/ rescan(e)
    BY <2>3 DEF onLocalChange, rescan, Commit
  <2>4. CASE Start(e) \/ Crash(e) \/ Stop(e)
    BY <2>4 DEF Start, Crash, Stop, Halt
  <2> QED BY <2>1, <2>2, <2>3, <2>4
<1> QED BY <1>1 DEF IInv

LEMMA DetectionOnly ==
    ASSUME IInv, Quiet, ~MayDelete, [Next]_vars, NEW d \in Device, NEW p \in Path, Detection(d)
    PROVE  files'[d][p] \in {files[d][p], Absent, Detected(d, p)}
<1>1. CASE Connect \/ Drop \/ UNCHANGED vars
  BY <1>1 DEF Connect, Drop, vars, loopVars
<1>2. ASSUME NEW e \in Device, User(e) \/ Puller(e) \/ saveSnapshot(e)
      PROVE  files' = files
  BY <1>2 DEF User, UserWrite, UserDelete, UserTouch, Puller, PullTake, FetchBytes,
              InstallBytes, PullFail, saveSnapshot, loopVars
<1>3. ASSUME NEW e \in Device, e # d,
             \/ handleTransportEvent(e) \/ handleCompletion(e)
             \/ (\E r \in Path : onLocalChange(e, r)) \/ rescan(e)
             \/ Start(e) \/ Crash(e) \/ Stop(e)
      PROVE  files'[d] = files[d]
  BY <1>3, OthersLeaveFiles
<1>4. ~handleTransportEvent(d) /\ ~handleCompletion(d) /\ ~Start(d)
  BY HandlerTakes DEF Start, Detection
<1>5. ASSUME NEW r \in Path, onLocalChange(d, r)
      PROVE  files'[d][p] \in {files[d][p], Detected(d, p)}
  <2> DEFINE f == [files[d] EXCEPT ![r] = Detected(d, r)]
             t == broadcastUpdate([Local(d) EXCEPT !.files = f], News(d, f, {r}))
  <2>1. Commit(d, t, inq[d], peerUp[d])
    BY <1>5 DEF onLocalChange
  <2>2. t.files = f
    BY DEF broadcastUpdate, Local
  <2> HIDE DEF t, f
  <2>3. files'[d] = f
    BY <2>1, <2>2 DEF Commit, IInv
  <2> QED BY <2>3 DEF f, IInv, GoodMap
<1>6. CASE rescan(d)
  BY <1>6, RescanFiles
<1>7. CASE Crash(d) \/ Stop(d)
  BY <1>7 DEF Crash, Stop, Halt, EmptyMap, IInv
<1> QED BY <1>1, <1>2, <1>3, <1>4, <1>5, <1>6, <1>7 DEF Next

LEMMA NotTheUsers ==
    ASSUME IInv, Quiet, NEW d \in Device, NEW p \in Path, up[d], ~Unguarded(d, p),
           p \notin mine[d], Detected(d, p) # Absent
    PROVE  files[d][p] # Absent /\ Detected(d, p).vv = files[d][p].vv
<1> DEFINE prev == files[d][p]
           x == disk[d][p]
<1>1. prev \in Good(issued) \cup {Absent} /\ x \in File \cup {Absent}
  BY DEF IInv, GoodMap, DiskMap
<1>2. x # Absent
  BY DetectedQuiet
<1>3. CASE Unchanged(prev, x)
  <2>1. prev \in Leaf /\ prev # Absent
    BY <1>1, <1>3 DEF Unchanged, Live, Good
  <2>2. Detected(d, p) = [prev EXCEPT !.mtime = x.mtime]
    BY <1>2, <1>3 DEF Detected
  <2> HIDE DEF prev, x
  <2> QED BY <2>1, <2>2 DEF Leaf, prev
<1>4. CASE ~Unchanged(prev, x)
  <2>1. CASE p \in inflight[d]
    BY <1>2, <1>4, <2>1 DEF Detected
  <2>2. CASE p \notin inflight[d]
    <3>1. Landed(completions[d], p) = {}
      <4> SUFFICES ASSUME NEW i \in Landed(completions[d], p)
                   PROVE  FALSE
        OBVIOUS
      <4>1. completions[d] \in Seq(GoodCompletion(issued))
        BY DEF IInv
      <4>2. i \in DOMAIN completions[d] /\ completions[d][i].path = p
        BY <4>1, LenProperties DEF Landed
      <4>3. completions[d][i] \in Range(completions[d])
        BY <4>2 DEF Range
      <4> QED BY <2>2, <4>2, <4>3 DEF Unguarded
    <3>2. HashOf(prev) = HashOf(x)
      BY <3>1 DEF Quiet, Explains
    <3>3. x.hash \in Content /\ x.hash # 0 /\ HashOf(x) = x.hash
      BY <1>1, <1>2, DataAssumption DEF File, HashOf
    <3>4. prev # Absent /\ prev.hash = x.hash
      BY <3>2, <3>3 DEF HashOf
    <3>5. ~prev.del
      BY <1>1, <3>3, <3>4 DEF Good
    <3> QED BY <1>4, <3>4, <3>5 DEF Unchanged, Live
  <2> QED BY <2>1, <2>2
<1> QED BY <1>3, <1>4

\* NoEcho wherever users do not delete, for any number of writes, touches, drops, crashes
\* and faults: onLocalChange and rescan never claim the bytes that an apply has installed,
\* as long as the completions and the inflight marks of the apply are there to be seen.
\* With deletes it fails: the tombstone of a conflict is applied even to a muted path.
THEOREM NoEchoWithoutDeletes ==
    ASSUME ~MayDelete
    PROVE  Spec => NoEcho
<1> DEFINE Safe(d, p) ==
        (/\ Detection(d) /\ ~Unguarded(d, p)
         /\ files'[d][p] # Absent /\ files'[d][p].vv = Bump(HistoryOf(files[d][p]), d))
        => p \in mine[d]
<1>1. ASSUME IInv, Quiet, [Next]_vars, NEW d \in Device, NEW p \in Path
      PROVE  Safe(d, p)
  <2> SUFFICES ASSUME Detection(d), ~Unguarded(d, p), p \notin mine[d], files'[d][p] # Absent
               PROVE  files'[d][p].vv # Bump(HistoryOf(files[d][p]), d)
    OBVIOUS
  <2>1. files'[d][p] \in {files[d][p], Detected(d, p)}
    BY <1>1, DetectionOnly
  <2>2. files[d][p] # Absent /\ files'[d][p].vv = files[d][p].vv
    BY <1>1, <2>1, NotTheUsers DEF Detection
  <2>3. files[d][p].vv \in VersionVector
    BY <1>1, <2>2 DEF IInv, GoodMap, Good, Leaf
  <2> QED BY <2>2, <2>3, BumpDiffers DEF HistoryOf
<1>2. IInv /\ Quiet /\ [Next]_vars => [\A d \in Device, p \in Path : Safe(d, p)]_vars
  BY <1>1
<1>3. IInv /\ (~MayDelete => Quiet) => IInv /\ Quiet
  OBVIOUS
<1> QED BY <1>2, <1>3, Inductive, PTL DEF Spec, NoEcho
=============================================================================
