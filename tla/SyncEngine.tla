----------------------------- MODULE SyncEngine -----------------------------
(***************************************************************************)
(* Two paired daemons of merkle-lan-sync: each one's reconcile engine      *)
(* (internal/reconcile), its disk, the user who edits it, the connection   *)
(* between them, link drops, crashes and restarts.                         *)
(*                                                                         *)
(* The engine is one loop (Engine.Run) that is the only writer of its      *)
(* tables; every case of its select is one action here. Its pullers write  *)
(* the disk concurrently, and so does the user.                            *)
(***************************************************************************)
EXTENDS SyncData

CONSTANTS
    FetchQueueDepth,  \* capacity of a peer's fetchQ (256 in the code)
    MaxInq,           \* bound: undelivered events towards one engine
    Budgets           \* bounds: how often each outside event may happen, per scenario

\* The outside events that are bounded by a budget.
Outside == {"write", "delete", "touch", "drop", "crash", "fault"}

ASSUME EngineAssumption ==
    /\ IsFiniteSet(Path)
    /\ FetchQueueDepth \in Nat \ {0}
    /\ MaxInq \in Nat
    /\ Budgets \subseteq [Outside -> Nat]
ASSUME TwoDevices == \E a, b \in Device : a # b /\ Device = {a, b}

VARIABLES
    up,           \* the daemon runs
    disk,         \* the sync root's files
    snap,         \* the persisted snapshot
    files,        \* e.files: the recorded FileInfo set
    reseed,       \* e.reseed: cold-start reseed pending
    peerUp,       \* e.peers has an entry for the other device
    index,        \* ps.index: the peer's last advertised set
    inflight,     \* ps.inflight: paths queued or fetching
    fetchQ,       \* ps.fetchQ
    pulls,        \* runFetch calls in progress, those of removed peerStates too
    completions,  \* e.completions
    link,         \* a connection is established
    inq,          \* events towards an engine: the wire and the events channel
    issued,       \* history: the counters a device has given its own versions
    mine,         \* history: paths whose bytes on disk are the user's own work
    left          \* what remains of the budgets

loopVars == <<files, reseed, peerUp, index, inflight, fetchQ>>
vars == <<up, disk, snap, loopVars, pulls, completions, link, inq, issued, mine, left>>

Peer(d) == CHOOSE e \in Device : e # d

-----------------------------------------------------------------------------
(* Tasks, completions, messages. *)


\* fetchTask: install leaf at path, after preserve (if any) has been materialised.
Task == [path : Path, leaf : Leaf, preserve : Copy \cup {Absent}, advertise : BOOLEAN]
FetchTask(p, leaf) ==
    [path |-> p, leaf |-> leaf, preserve |-> Absent, advertise |-> FALSE]
CoupledTask(p, leaf, copy, adv) ==
    [path |-> p, leaf |-> leaf, preserve |-> copy, advertise |-> adv]

\* runFetch in progress: which half, whether the verified bytes of that half are in
\* the temp file, and whether its peerState was removed meanwhile.
Pull == [task : Task, phase : {"preserve", "leaf"}, got : BOOLEAN, old : BOOLEAN]

\* Mutant of StartPull: the winner is installed without the copy.
StartPull_NoCopy(t) == [task |-> t, phase |-> "leaf", got |-> FALSE, old |-> FALSE]

StartPull(t) == [task |-> t, phase |-> IF t.preserve = Absent THEN "leaf" ELSE "preserve",
                 got |-> FALSE, old |-> FALSE]
Target(x) == IF x.phase = "preserve" THEN x.task.preserve
             ELSE [path |-> x.task.path, leaf |-> x.task.leaf]

Completion == [kind : {"ok", "fail", "applyTomb", "abort"}, path : Path, leaf : Leaf,
               advertise : BOOLEAN]
Report(kind, c, adv) ==
    [kind |-> kind, path |-> c.path, leaf |-> c.leaf, advertise |-> adv]

\* Events of the transport: a new connection (with the root in the peer's HELLO), the
\* two index messages, the end of a connection.
Event == [kind : {"connected", "index", "update", "disconnected"}, body : FileMap]
Connected(f) == [kind |-> "connected", body |-> f]
IndexMsg(f) == [kind |-> "index", body |-> f]
UpdateMsg(f, S) ==
    [kind |-> "update", body |-> [p \in Path |-> IF p \in S THEN f[p] ELSE Absent]]
Disconnected == [kind |-> "disconnected", body |-> EmptyMap]

Lifecycle(ev) == ev.kind \in {"connected", "disconnected"}

-----------------------------------------------------------------------------
(* The state a loop handler works on. A handler builds one from the         *)
(* variables, transforms it and commits it; out is what it sends.           *)

LocalState == [files : FileMap, disk : DiskMap, index : FileMap,
               inflight : SUBSET Path, fetchQ : Seq(Task), out : Seq(Event)]

Local(d) == [files |-> files[d], disk |-> disk[d], index |-> index[d],
             inflight |-> inflight[d], fetchQ |-> fetchQ[d], out |-> <<>>]

\* broadcastUpdate of the leaves at S.
broadcastUpdate(s, S) ==
    IF S = {} THEN s ELSE [s EXCEPT !.out = Append(@, UpdateMsg(s.files, S))]

\* applyTombstone for every [path, leaf] of S: remove the file, record the tombstone,
\* and re-advertise it unless it is the one already recorded. One message per
\* tombstone; the code walks the diff by path, the model in any order.
Redundant(prev, t) == Tombstone(prev) /\ prev.vv = t.vv
Orderings(S) == Injection(1 .. Cardinality(S), S)
LeafAt(S, p) == (CHOOSE t \in S : t.path = p).leaf
Paths(S) == {t.path : t \in S}
applyTombstones(s, S) ==
    LET f == [p \in Path |-> IF p \in Paths(S) THEN LeafAt(S, p) ELSE s.files[p]]
        dk == [p \in Path |-> IF p \in Paths(S) THEN Absent ELSE s.disk[p]]
        told == Paths({t \in S : ~Redundant(s.files[t.path], t.leaf)})
    IN  {[s EXCEPT !.files = f, !.disk = dk,
                   !.out = @ \o [i \in 1 .. Cardinality(told) |-> UpdateMsg(f, {o[i]})]] :
            o \in Orderings(told)}

hasLocalContent(f, hash) == \E p \in Path : Live(f[p]) /\ f[p].hash = hash

\* Mutant of Pairings: creates and tombstones are coupled whatever their content.
Pairings_AnyContent(C, T, f) ==
    {M \in SUBSET (C \X T) : /\ \A x, y \in M : (x[1] = y[1]) <=> (x[2] = y[2])
                             /\ \A ct \in C \X T : \E x \in M : x[1] = ct[1] \/ x[2] = ct[2]}

\* Which creates and same-content tombstones are coupled into renames: each at most
\* once, and no two are left over that could have been coupled.
Pairings(C, T, f) ==
    LET match == {ct \in C \X T : /\ Live(f[ct[2].path])
                                  /\ f[ct[2].path].hash = ct[1].leaf.hash}
    IN  {M \in SUBSET match :
            /\ \A x, y \in M : (x[1] = y[1]) <=> (x[2] = y[2])
            /\ \A ct \in match : \E x \in M : x[1] = ct[1] \/ x[2] = ct[2]}

Room(q) == FetchQueueDepth - Len(q)

\* Mutant of Accepted: one task too many.
Accepted_OneMore(q, tasks) ==
    {T \in UNION {[1 .. n -> tasks] : n \in 0 .. Room(q) + 1} :
        \A i, j \in DOMAIN T : T[i] = T[j] => i = j}

\* Mutant of Accepted: what does not fit as a whole is not queued at all.
Accepted_AllOrNone(q, tasks) ==
    IF Cardinality(tasks) > Room(q) THEN {<<>>}
    ELSE {T \in [1 .. Cardinality(tasks) -> tasks] : \A i, j \in DOMAIN T : T[i] = T[j] => i = j}

\* What goes into the fetchQ q, in which order: a full queue drops what does not fit.
\* A coupled task is one slot.
Accepted(q, tasks) ==
    {T \in UNION {[1 .. n -> tasks] : n \in 0 .. Room(q)} :
        /\ \A i, j \in DOMAIN T : T[i] = T[j] => i = j
        /\ Len(T) = Room(q) \/ \A t \in tasks : \E i \in DOMAIN T : T[i] = t}

\* Paths a task keeps inflight: a rename holds both ends, a conflict only its path.
Held(t) == {t.path} \cup IF t.preserve # Absent /\ ~t.advertise THEN {t.preserve.path} ELSE {}

\* The verdicts for the paths on which the two sets differ.
Plans(s) == {resolve(p, s.files[p], s.index[p]) : p \in Diff(s.files, s.index)}

\* Mutant of Custodian: no copy, no custodian.
Custodian_IfItFits(s, c) ==
    /\ c.preserve # Absent /\ hasLocalContent(s.files, c.preserve.leaf.hash)
    /\ ~WouldExceedMaxPath(c.preserve.path)

\* Custodian of a conflict: this side has the loser's bytes and must copy them.
Custodian(s, c) == c.preserve # Absent /\ hasLocalContent(s.files, c.preserve.leaf.hash)

\* The end of execute: the tasks T are queued, acknowledged tombstones forgotten.
Executed(r, idx, T) ==
    [r EXCEPT !.files = gcTombstones(@, idx),
              !.inflight = @ \cup UNION {Held(t) : t \in Range(T)},
              !.fetchQ = @ \o T]

\* execute over the plans P, with M the coupled renames: enqueue what needs bytes,
\* apply tombstones, then GC what the peer has acknowledged.
Execute(s, P, M) ==
    LET free == {c \in P : c.path \notin s.inflight}
        creates == {c \in free : c.kind = "install" /\ ~c.leaf.del} \ {x[1] : x \in M}
        tombs == {c \in free : c.kind = "install" /\ c.leaf.del} \ {x[2] : x \in M}
        conflicts == {c \in P : c.kind = "conflict"}
        custody == {c \in conflicts : Custodian(s, c)}
        copied == {c \in custody \cap free : ~WouldExceedMaxPath(c.preserve.path)}
        removed == {c \in conflicts \ custody : c.leaf.del}
        kept == {c \in (conflicts \ custody) \cap free : ~c.leaf.del}
        tasks == {CoupledTask(c.path, c.leaf, c.preserve, TRUE) : c \in copied}
            \cup {CoupledTask(x[2].path, x[2].leaf,
                              [path |-> x[1].path, leaf |-> x[1].leaf], FALSE) : x \in M}
            \cup {FetchTask(c.path, c.leaf) : c \in kept \cup creates}
    IN  UNION {{Executed(r, s.index, T) : r \in applyTombstones(s, tombs \cup removed)} :
                  T \in Accepted(s.fetchQ, tasks)}

\* reconcileWithPeer: resolve every differing path, couple the renames, execute.
reconcileWithPeer(s) ==
    UNION {UNION {Execute(s, P, M) :
                    M \in Pairings({c \in P : c.kind = "install" /\ ~c.leaf.del
                                                /\ c.path \notin s.inflight},
                                   {c \in P : c.kind = "install" /\ c.leaf.del
                                                /\ c.path \notin s.inflight}, s.files)} :
              P \in {Plans(s)}}

\* reconcileWithPeer for each state of S when e.peers has the peer of d, S otherwise.
Reconciled(d, S) == IF peerUp[d] THEN UNION {reconcileWithPeer(s) : s \in S} ELSE S

-----------------------------------------------------------------------------
(* Committing a handler. *)

\* The peerState of d talks to the present connection: no lifecycle event waits in q.
Talking(q) == link /\ \A i \in 1 .. Len(q) : ~Lifecycle(q[i])

\* The handler of d ends in s, rest of its events are still to come. What it sends
\* reaches the peer unless the connection is gone.
Commit(d, s, rest, known) ==
    LET sent == IF known /\ Talking(rest) THEN s.out ELSE <<>> IN
    /\ Len(inq[Peer(d)]) + Len(sent) <= MaxInq
    /\ files' = [files EXCEPT ![d] = s.files]
    /\ disk' = [disk EXCEPT ![d] = s.disk]
    /\ index' = [index EXCEPT ![d] = s.index]
    /\ inflight' = [inflight EXCEPT ![d] = s.inflight]
    /\ fetchQ' = [fetchQ EXCEPT ![d] = s.fetchQ]
    /\ inq' = [inq EXCEPT ![d] = rest, ![Peer(d)] = @ \o sent]
    /\ mine' = [mine EXCEPT ![d] = {p \in @ : s.disk[p] = disk[d][p]}]

\* The own counters of d in the versions that f changes.
Issue(d, f) ==
    issued' = [issued EXCEPT ![d] = @ \cup
        {f[p].vv[d] : p \in {q \in Path : f[q] # Absent /\ f[q] # files[d][q]}}]

\* saveSnapshot. A snapshot nobody can read any more (no crash is left) is not kept.
Saved(d, f) == IF left["crash"] = 0 THEN snap[d] ELSE f

Spend(what) == left[what] > 0 /\ left' = [left EXCEPT ![what] = @ - 1]

-----------------------------------------------------------------------------
(* The user. *)

UserWrite(d, p, c, m) ==
    /\ Spend("write")
    /\ HashOf(disk[d][p]) # c
    /\ disk' = [disk EXCEPT ![d][p] = [hash |-> c, mtime |-> m]]
    /\ mine' = [mine EXCEPT ![d] = @ \cup {p}]
    /\ UNCHANGED <<up, snap, loopVars, pulls, completions, link, inq, issued>>

UserDelete(d, p) ==
    /\ Spend("delete")
    /\ disk[d][p] # Absent
    /\ disk' = [disk EXCEPT ![d][p] = Absent]
    /\ mine' = [mine EXCEPT ![d] = @ \cup {p}]
    /\ UNCHANGED <<up, snap, loopVars, pulls, completions, link, inq, issued>>

UserTouch(d, p, m) ==
    /\ Spend("touch")
    /\ disk[d][p] # Absent /\ disk[d][p].mtime # m
    /\ disk' = [disk EXCEPT ![d][p].mtime = m]
    /\ UNCHANGED <<up, snap, loopVars, pulls, completions, link, inq, issued, mine>>

-----------------------------------------------------------------------------
(* The connection, as the engines see it (internal/transport). *)

\* Both HELLOs carry the sender's root at the handshake.
Connect ==
    /\ ~link /\ \A d \in Device : up[d] /\ Len(inq[d]) < MaxInq
    /\ link' = TRUE
    /\ inq' = [d \in Device |-> Append(inq[d], Connected(files[Peer(d)]))]
    /\ UNCHANGED <<up, disk, snap, loopVars, pulls, completions, issued, mine, left>>

\* The end of a connection as d sees it: messages still on the wire are lost, events
\* the transport already produced are not.
Severed(d) ==
    {Append(SubSeq(inq[d], 1, k), Disconnected) :
        k \in {j \in 0 .. Len(inq[d]) : \A i \in j + 1 .. Len(inq[d]) : ~Lifecycle(inq[d][i])}}

Drop ==
    /\ link /\ Spend("drop")
    /\ link' = FALSE
    /\ \E q \in [Device -> UNION {Severed(d) : d \in Device}] :
          /\ \A d \in Device : q[d] \in Severed(d)
          /\ inq' = q
    /\ UNCHANGED <<up, disk, snap, loopVars, pulls, completions, issued, mine>>

-----------------------------------------------------------------------------
(* The loop's handlers. *)

Receives(d, kind) == up[d] /\ inq[d] # <<>> /\ Head(inq[d]).kind = kind

\* addPeer, then our INDEX unless the roots already match.
onPeerConnected(d) ==
    /\ Receives(d, "connected")
    /\ peerUp' = [peerUp EXCEPT ![d] = TRUE]
    /\ LET s == [Local(d) EXCEPT !.index = EmptyMap, !.inflight = {}, !.fetchQ = <<>>]
       IN  Commit(d, IF Root(Head(inq[d]).body) = Root(files[d]) THEN s
                     ELSE [s EXCEPT !.out = <<IndexMsg(files[d])>>], Tail(inq[d]), TRUE)
    /\ UNCHANGED <<up, snap, reseed, pulls, completions, link, issued, left>>

\* removePeer cancels the puller: it may still be in a task, and its select may still
\* have picked some of the queued ones.
removePeer(d) ==
    /\ Receives(d, "disconnected")
    /\ peerUp' = [peerUp EXCEPT ![d] = FALSE]
    /\ \E k \in 0 .. Len(fetchQ[d]) :
          pulls' = [pulls EXCEPT ![d] = {[x EXCEPT !.old = TRUE] :
                                  x \in @ \cup {StartPull(fetchQ[d][i]) : i \in 1 .. k}}]
    /\ Commit(d, [Local(d) EXCEPT !.index = EmptyMap, !.inflight = {}, !.fetchQ = <<>>],
              Tail(inq[d]), FALSE)
    /\ UNCHANGED <<up, snap, reseed, completions, link, issued, left>>

\* onIndex with doReseed.
onIndex(d) ==
    /\ Receives(d, "index")
    /\ LET idx == Head(inq[d]).body
           bumped == {p \in Path : reseed[d] /\ NeedsReseed(files[d][p], idx[p])}
           f == [p \in Path |-> IF p \in bumped THEN reseeded(files[d][p], idx[p], d)
                                ELSE files[d][p]]
           s == broadcastUpdate([Local(d) EXCEPT !.index = idx, !.files = f], bumped)
       IN  IF peerUp[d]
           THEN /\ \E r \in Reconciled(d, {s}) : Commit(d, r, Tail(inq[d]), TRUE)
                /\ reseed' = [reseed EXCEPT ![d] = FALSE]
                /\ Issue(d, f)
           ELSE /\ Commit(d, Local(d), Tail(inq[d]), FALSE)
                /\ UNCHANGED <<reseed, issued>>
    /\ UNCHANGED <<up, snap, peerUp, pulls, completions, link, left>>

Merged(idx, body) == [p \in Path |-> IF body[p] = Absent THEN idx[p] ELSE body[p]]

onIndexUpdate(d) ==
    /\ Receives(d, "update")
    /\ LET s == [Local(d) EXCEPT !.index = Merged(@, Head(inq[d]).body)]
       IN  IF peerUp[d]
           THEN \E r \in Reconciled(d, {s}) : Commit(d, r, Tail(inq[d]), TRUE)
           ELSE Commit(d, Local(d), Tail(inq[d]), FALSE)
    /\ UNCHANGED <<up, snap, reseed, peerUp, pulls, completions, link, issued, left>>

\* Mutant of Detected: an apply in flight does not mute detection.
Detected_Unmuted(d, p) ==
    LET prev == files[d][p]
        file == disk[d][p]
    IN  CASE file = Absent -> IF Live(prev) THEN SetDeleted(prev, d) ELSE prev
          [] file # Absent /\ Unchanged(prev, file) -> [prev EXCEPT !.mtime = file.mtime]
          [] file # Absent /\ ~Unchanged(prev, file) -> Authored(prev, file, d)

\* What change detection makes of path p: quiet mtime update, muted while in flight,
\* authorship, or a tombstone. The rescan tombstones a vanished file even in flight.
Detected(d, p) ==
    LET prev == files[d][p]
        file == disk[d][p]
    IN  CASE file = Absent -> IF Live(prev) THEN SetDeleted(prev, d) ELSE prev
          [] file # Absent /\ Unchanged(prev, file) -> [prev EXCEPT !.mtime = file.mtime]
          [] file # Absent /\ ~Unchanged(prev, file) ->
                IF p \in inflight[d] THEN prev ELSE Authored(prev, file, d)

\* Detected paths that are news for the peer.
News(d, f, S) == {p \in S : f[p] # Absent /\ HistoryOf(f[p]) # HistoryOf(files[d][p])}

\* onLocalChange: a settled watcher hint for p. A hint may be late or missing; one that
\* finds nothing new changes nothing.
onLocalChange(d, p) ==
    /\ up[d] /\ p \notin inflight[d]
    /\ Detected(d, p) # files[d][p]
    /\ LET f == [files[d] EXCEPT ![p] = Detected(d, p)]
       IN  /\ Commit(d, broadcastUpdate([Local(d) EXCEPT !.files = f], News(d, f, {p})),
                     inq[d], peerUp[d])
           /\ Issue(d, f)
    /\ UNCHANGED <<up, snap, reseed, peerUp, pulls, completions, link, left>>

\* rescan: scan, author, tombstone, GC, broadcast, reconcile, save.
rescan(d) ==
    /\ up[d]
    /\ UNCHANGED <<up, reseed, peerUp, pulls, completions, link, left>>
    /\ LET f == [p \in Path |-> Detected(d, p)]
           told == broadcastUpdate([Local(d) EXCEPT !.files = f], News(d, f, Path))
           s == [told EXCEPT !.files = IF peerUp[d] THEN gcTombstones(f, index[d]) ELSE f]
       IN  /\ Issue(d, f)
           /\ \E r \in Reconciled(d, {s}) :
                 /\ Commit(d, r, inq[d], peerUp[d])
                 /\ snap' = [snap EXCEPT ![d] = Saved(d, r.files)]

\* handleCompletion, one action per kind of completion.
Completes(d, kinds) == up[d] /\ completions[d] # <<>> /\ Head(completions[d]).kind \in kinds

\* Mutant of Cleared: the path stays inflight.
Cleared_Leaks(s, p) == s

Cleared(s, p) == [s EXCEPT !.inflight = @ \ {p}]

FinishCompletion(d) ==
    /\ completions' = [completions EXCEPT ![d] = Tail(@)]
    /\ UNCHANGED <<up, snap, reseed, peerUp, pulls, link, issued, left>>


completeOk(d) ==
    /\ Completes(d, {"ok"})
    /\ LET c == Head(completions[d])
           s == [Local(d) EXCEPT !.files[c.path] = c.leaf]
           t == broadcastUpdate(s, IF c.advertise THEN {c.path} ELSE {})
       IN  \E r \in Reconciled(d, {Cleared(t, c.path)}) : Commit(d, r, inq[d], peerUp[d])
    /\ FinishCompletion(d)

completeFail(d) ==
    /\ Completes(d, {"fail"})
    /\ \E r \in Reconciled(d, {Cleared(Local(d), Head(completions[d]).path)}) :
          Commit(d, r, inq[d], peerUp[d])
    /\ FinishCompletion(d)

completeTomb(d) ==
    /\ Completes(d, {"applyTomb"})
    /\ LET c == Head(completions[d])
           S == applyTombstones(Local(d), {[path |-> c.path, leaf |-> c.leaf]})
       IN  \E r \in Reconciled(d, {Cleared(s, c.path) : s \in S}) :
              Commit(d, r, inq[d], peerUp[d])
    /\ FinishCompletion(d)

completeAbort(d) ==
    /\ Completes(d, {"abort"})
    /\ Commit(d, Cleared(Local(d), Head(completions[d]).path), inq[d], peerUp[d])
    /\ FinishCompletion(d)

-----------------------------------------------------------------------------
(* The pullers: pullLoop, runFetch, materialise. *)

PullTake(d) ==
    /\ up[d] /\ peerUp[d] /\ fetchQ[d] # <<>>
    /\ \A x \in pulls[d] : x.old
    /\ fetchQ' = [fetchQ EXCEPT ![d] = Tail(@)]
    /\ pulls' = [pulls EXCEPT ![d] = @ \cup {StartPull(Head(fetchQ[d]))}]
    /\ UNCHANGED <<up, disk, snap, files, reseed, peerUp, index, inflight, completions, link,
                   inq, issued, mine, left>>

Holds(d, p, hash) == HashOf(disk[d][p]) = hash

\* localSource: one of the recorded files with that content, if its bytes on disk still
\* are the ones recorded; the code tries just one of them.
candidates(d, c) ==
    {q \in Path \ {c.path} : Live(files[d][q]) /\ files[d][q].hash = c.leaf.hash}
localSource(d, c) == \E q \in candidates(d, c) : Holds(d, q, c.leaf.hash)

reusable(d, c) ==
    candidates(d, c) # {} /\ \A q \in candidates(d, c) : Holds(d, q, c.leaf.hash)

\* The peer can serve the bytes now: its file at the path holds them.
Served(d, x) ==
    /\ ~x.old /\ Talking(inq[d])
    /\ up[Peer(d)] /\ peerUp[Peer(d)] /\ Talking(inq[Peer(d)])
    /\ Holds(Peer(d), Target(x).path, Target(x).leaf.hash)

\* fetchOverWire into the temp file and the verification of its hash.
FetchBytes(d, x) ==
    /\ x \in pulls[d] /\ ~x.got
    /\ ~Holds(d, Target(x).path, Target(x).leaf.hash) /\ ~reusable(d, Target(x))
    /\ Served(d, x)
    /\ pulls' = [pulls EXCEPT ![d] = (@ \ {x}) \cup {[x EXCEPT !.got = TRUE]}]
    /\ UNCHANGED <<up, disk, snap, loopVars, completions, link, inq, issued, mine, left>>

\* What runFetch does next when the half at hand has landed, and when it has not.
AfterLanding(d, x) ==
    LET done == Report("ok", Target(x), x.phase = "preserve" /\ x.task.advertise)
        winner_ == [path |-> x.task.path, leaf |-> x.task.leaf]
        rest == pulls[d] \ {x}
    IN  IF x.phase = "preserve" /\ ~x.task.leaf.del
        THEN /\ completions' = [completions EXCEPT ![d] = Append(@, done)]
             /\ pulls' = [pulls EXCEPT ![d] = rest \cup {[x EXCEPT !.phase = "leaf", !.got = FALSE]}]
        ELSE /\ completions' = [completions EXCEPT ![d] = @ \o
                   IF x.phase = "preserve" THEN <<done, Report("applyTomb", winner_, FALSE)>>
                   ELSE <<done>>]
             /\ pulls' = [pulls EXCEPT ![d] = rest]

\* The rename (or the idempotent skip, which leaves the file alone).
InstallBytes(d, x, m) ==
    LET c == Target(x) IN
    /\ x \in pulls[d]
    /\ IF ~x.got /\ Holds(d, c.path, c.leaf.hash)
       THEN m = disk[d][c.path].mtime /\ UNCHANGED <<disk, mine>>
       ELSE /\ x.got \/ localSource(d, c)
            /\ disk' = [disk EXCEPT ![d][c.path] = [hash |-> c.leaf.hash, mtime |-> m]]
            /\ mine' = [mine EXCEPT ![d] = @ \ {c.path}]
    /\ AfterLanding(d, x)
    /\ UNCHANGED <<up, snap, loopVars, link, inq, issued, left>>

\* Declined, timed out or cancelled. Without a cause on the other side it costs a fault.
PullFail(d, x) ==
    LET c == Target(x)
        possible == Holds(d, c.path, c.leaf.hash) \/ reusable(d, c) \/ Served(d, x)
    IN  /\ x \in pulls[d] /\ ~x.got
        /\ IF possible THEN Spend("fault") ELSE UNCHANGED left
        /\ pulls' = [pulls EXCEPT ![d] = @ \ {x}]
        /\ completions' = [completions EXCEPT ![d] = @ \o
              <<Report("fail", c, x.phase = "preserve" /\ x.task.advertise)>> \o
              IF x.phase = "preserve"
              THEN <<Report("abort", [path |-> x.task.path, leaf |-> x.task.leaf], FALSE)>>
              ELSE <<>>]
        /\ UNCHANGED <<up, disk, snap, loopVars, link, inq, issued, mine>>

-----------------------------------------------------------------------------
(* Start, stop, crash. *)

Start(d) ==
    /\ ~up[d]
    /\ up' = [up EXCEPT ![d] = TRUE]
    /\ files' = [files EXCEPT ![d] = startupFiles(snap[d], disk[d], d)]
    /\ reseed' = [reseed EXCEPT ![d] = snap[d] = EmptyMap]
    /\ Issue(d, startupFiles(snap[d], disk[d], d))
    /\ UNCHANGED <<disk, snap, peerUp, index, inflight, fetchQ, pulls, completions, link, inq,
                   mine, left>>

\* The process ends; its connection ends with it, as the peer will notice.
Halt(d) ==
    /\ up[d] /\ Spend("crash")
    /\ up' = [up EXCEPT ![d] = FALSE]
    /\ files' = [files EXCEPT ![d] = EmptyMap]
    /\ reseed' = [reseed EXCEPT ![d] = FALSE]
    /\ peerUp' = [peerUp EXCEPT ![d] = FALSE]
    /\ index' = [index EXCEPT ![d] = EmptyMap]
    /\ inflight' = [inflight EXCEPT ![d] = {}]
    /\ fetchQ' = [fetchQ EXCEPT ![d] = <<>>]
    /\ pulls' = [pulls EXCEPT ![d] = {}]
    /\ completions' = [completions EXCEPT ![d] = <<>>]
    /\ link' = FALSE
    /\ \E q \in Severed(Peer(d)) :
          inq' = [inq EXCEPT ![d] = <<>>, ![Peer(d)] = IF link THEN q ELSE @]
    /\ UNCHANGED <<disk, issued, mine>>

Crash(d) == Halt(d) /\ UNCHANGED snap

\* A graceful stop saves the snapshot last.
Stop(d) == Halt(d) /\ snap' = [snap EXCEPT ![d] = files[d]]

\* The snapshot ticker.
saveSnapshot(d) ==
    /\ up[d] /\ Saved(d, files[d]) # snap[d]
    /\ snap' = [snap EXCEPT ![d] = files[d]]
    /\ UNCHANGED <<up, disk, loopVars, pulls, completions, link, inq, issued, mine, left>>

-----------------------------------------------------------------------------
Init ==
    /\ up = [d \in Device |-> FALSE]
    /\ disk = [d \in Device |-> EmptyMap]
    /\ snap = [d \in Device |-> EmptyMap]
    /\ files = [d \in Device |-> EmptyMap]
    /\ reseed = [d \in Device |-> FALSE]
    /\ peerUp = [d \in Device |-> FALSE]
    /\ index = [d \in Device |-> EmptyMap]
    /\ inflight = [d \in Device |-> {}]
    /\ fetchQ = [d \in Device |-> <<>>]
    /\ pulls = [d \in Device |-> {}]
    /\ completions = [d \in Device |-> <<>>]
    /\ link = FALSE
    /\ inq = [d \in Device |-> <<>>]
    /\ issued = [d \in Device |-> {0}]
    /\ mine = [d \in Device |-> {}]
    /\ left \in Budgets

User(d) ==
    \E p \in UserPath :
        \/ \E c \in Content, m \in MTime : UserWrite(d, p, c, m)
        \/ UserDelete(d, p)
        \/ \E m \in MTime : UserTouch(d, p, m)

handleTransportEvent(d) ==
    onPeerConnected(d) \/ removePeer(d) \/ onIndex(d) \/ onIndexUpdate(d)

handleCompletion(d) ==
    completeOk(d) \/ completeFail(d) \/ completeTomb(d) \/ completeAbort(d)

Puller(d) ==
    \/ PullTake(d)
    \/ \E x \in pulls[d] :
          \/ FetchBytes(d, x)
          \/ \E m \in MTime : InstallBytes(d, x, m)
          \/ PullFail(d, x)

Next ==
    \/ Connect \/ Drop
    \/ \E d \in Device :
          \/ User(d) \/ handleTransportEvent(d) \/ handleCompletion(d) \/ Puller(d)
          \/ \E p \in Path : onLocalChange(d, p)
          \/ rescan(d) \/ saveSnapshot(d)
          \/ Start(d) \/ Crash(d) \/ Stop(d)

Spec == Init /\ [][Next]_vars

-----------------------------------------------------------------------------
TypeOK ==
    /\ up \in [Device -> BOOLEAN]
    /\ disk \in [Device -> DiskMap]
    /\ snap \in [Device -> FileMap]
    /\ files \in [Device -> FileMap]
    /\ reseed \in [Device -> BOOLEAN]
    /\ peerUp \in [Device -> BOOLEAN]
    /\ index \in [Device -> FileMap]
    /\ inflight \in [Device -> SUBSET Path]
    /\ fetchQ \in [Device -> Seq(Task)] /\ \A d \in Device : Len(fetchQ[d]) <= FetchQueueDepth
    /\ pulls \in [Device -> SUBSET Pull]
    /\ completions \in [Device -> Seq(Completion)]
    /\ link \in BOOLEAN
    /\ inq \in [Device -> Seq(Event)]
    /\ issued \in [Device -> SUBSET Nat]
    /\ mine \in [Device -> SUBSET Path]
    /\ left \in [Outside -> Nat]

-----------------------------------------------------------------------------
(* Fairness: what the code's goroutines keep doing. The select of            *)
(* Engine.Run serves every ready channel, pullers run, the rescan ticker     *)
(* fires. Users, faults, drops, crashes, watcher hints and restarts are      *)
(* never promised, and neither is a connection: nothing redials after        *)
(* PeerDisconnected, so that two peers may stay apart for good.              *)
Fairness ==
    \A d \in Device :
        /\ WF_vars(Puller(d)) /\ WF_vars(rescan(d))
        /\ WF_vars(handleTransportEvent(d)) /\ WF_vars(handleCompletion(d))

FairSpec == Spec /\ Fairness

-----------------------------------------------------------------------------
(* Properties. *)

\* Every version of p that an engine has recorded or that is on its way to one.
Sent(d) == {i \in 1 .. Len(inq[d]) : inq[d][i].kind \in {"index", "update"}}
Versions(p) ==
    (UNION {{files[d][p], index[d][p]} \cup {inq[d][i].body[p] : i \in Sent(d)} : d \in Device})
    \ {Absent}

\* A step that no user takes, and a step in which d's change detection alone acts.
EngineStep == \A o \in {"write", "delete", "touch"} : left'[o] = left[o]
Detection(d) == up[d] /\ inq'[d] = inq[d] /\ completions'[d] = completions[d]

\* No counter is forged: wherever a version of a file has got to, the counter it carries
\* for a device is one that this device has given out (versionvector.go Bump is the only
\* source, Merge and the reseed only pass counters on).
NoForgedCounter ==
    \A d \in Device, p \in Path : \A v \in Versions(p) : v.vv[d] \in issued[d]

\* No silent overwrite (SR-7): when the engine replaces or removes bytes that it has
\* recorded, either the same bytes are still on that disk under another path, or the peer
\* has advertised a version that causally follows the replaced one.
NoSilentOverwrite ==
    [][\A d \in Device, p \in Path :
        (/\ EngineStep
         /\ Live(files[d][p]) /\ Holds(d, p, files[d][p].hash)
         /\ HashOf(disk'[d][p]) # HashOf(disk[d][p]))
        => \/ \E q \in Path : HashOf(disk'[d][q]) = HashOf(disk[d][p])
           \/ index'[d][p] # Absent /\ Compare(index'[d][p].vv, files[d][p].vv) = "Dominates"]_vars

\* An edit made while an apply is under way is not lost (onLocalChange, inflightLocked):
\* bytes the user wrote that no scan has recorded yet, because the path is muted, are not
\* replaced by the engine unless they are on that disk under another path.
DeferredEditSurvives ==
    [][\A d \in Device, p \in Path :
        (/\ EngineStep
         /\ p \in inflight[d] \cap mine[d]
         /\ disk[d][p] # Absent /\ HashOf(files[d][p]) # HashOf(disk[d][p])
         /\ HashOf(disk'[d][p]) # HashOf(disk[d][p]))
        => \E q \in Path : HashOf(disk'[d][q]) = HashOf(disk[d][p])]_vars

\* A conflict copy instead of an overwrite (README.md): bytes go without a trace only for
\* a version that was written in knowledge of them. A version with the empty vector that
\* the first scan seeds is not known to anyone's history.
OverwritesOnlyWhatWasSeen ==
    [][\A d \in Device, p \in Path :
        (/\ EngineStep
         /\ Live(files[d][p]) /\ Holds(d, p, files[d][p].hash)
         /\ HashOf(disk'[d][p]) # HashOf(disk[d][p]))
        => \/ \E q \in Path : HashOf(disk'[d][q]) = HashOf(disk[d][p])
           \/ files[d][p].vv # EmptyVV]_vars

\* An apply whose peerState is gone (removePeer forgets its inflight mark) has landed at
\* p, or another one of its completions has cleared the mark of a later apply.
Unguarded(d, p) == p \notin inflight[d] /\ \E c \in Range(completions[d]) : c.path = p

\* No echo (SR-6, SR-8): change detection claims authorship of a path only if the bytes
\* there (or their absence) are the user's work, never for bytes an apply put there. The
\* mark that mutes it does not outlive the connection: an unguarded apply is exempt.
NoEcho ==
    [][\A d \in Device, p \in Path :
        (/\ Detection(d) /\ ~Unguarded(d, p)
         /\ files'[d][p] # Absent /\ files'[d][p].vv = Bump(HistoryOf(files[d][p]), d))
        => p \in mine[d]]_vars

\* A tombstone is forgotten only when the peer is past it (SR-10): when d garbage-collects
\* one, the peer does not still record a live version that the tombstone would delete.
ForgetsOnlyAcked ==
    [][\A d \in Device, p \in Path :
        Tombstone(files[d][p]) /\ files'[d][p] = Absent /\ up'[d] /\ Live(files[Peer(d)][p])
        => Compare(files[Peer(d)][p].vv, files[d][p].vv) \notin {"DominatedBy", "Equal"}]_vars

\* A recreated file supersedes its delete: when the user creates a path again after a
\* delete that d itself took part in, the new version dominates the tombstone the peer
\* advertises (the rule restoreVVs claims for all recreate paths).
RecreateDominatesDelete ==
    [][\A d \in Device, p \in Path :
        (/\ Detection(d) /\ p \in mine[d]
         /\ ~Live(files[d][p]) /\ Live(files'[d][p])
         /\ Tombstone(index[d][p]) /\ index[d][p].vv[d] > 0)
        => Compare(files'[d][p].vv, index[d][p].vv) = "Dominates"]_vars

\* A rename costs no transfer (PR-5): the create half of a coupled rename never fetches
\* over the wire unless the user has meddled with the old path.
RenameReusesBytes ==
    \A d \in Device : \A x \in pulls[d] :
        x.task.preserve # Absent /\ ~x.task.advertise /\ x.phase = "preserve" /\ x.got
        => x.task.path \in mine[d]

\* Convergence (SR-5): once the outside events are over and if the two stay connected, the
\* disks hold the same bytes at the same paths for ever.
Agree == \A p \in Path : \A d, e \in Device : HashOf(disk[d][p]) = HashOf(disk[e][p])
Converges == <>[]link => <>[]Agree

\* The convergence oracle (SR-5): if the two stay connected, their Merkle roots become
\* equal and stay so.
RootsAgree == <>[]link => <>[](\A d, e \in Device : Root(files[d]) = Root(files[e]))

\* handleCompletion's re-reconcile "cannot tight-spin": once the outside events are over
\* the queues run empty and the pullers come to rest.
Resting(d) == fetchQ[d] = <<>> /\ pulls[d] = {} /\ completions[d] = <<>>
FetchesSettle == <>[](\A d \in Device : Resting(d))

\* Only a conflict keeps the pullers busy: a failed, refused or refetched install, a
\* deletion or a lost connection is retried a finite number of times.
Conflicting(d) == \E p \in Diff(files[d], index[d]) :
                      resolve(p, files[d][p], index[d][p]).kind = "conflict"
=============================================================================
