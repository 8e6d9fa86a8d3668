------------------------------ MODULE SyncData ------------------------------
(***************************************************************************)
(* The data of merkle-lan-sync and the pure functions over it: version     *)
(* vectors (internal/protocol/versionvector.go), file leaves               *)
(* (internal/merkle/fileinfo.go), the total resolver and the conflict      *)
(* rules (internal/reconcile/apply.go, conflict.go), the tombstone ack     *)
(* gate (tombstone.go) and the restart rules (engine.go restoreVVs,        *)
(* merkle/scanner.go SynthesizeDeletions).                                 *)
(*                                                                         *)
(* A content hash is a positive number (the code compares digests          *)
(* bytewise, so their order matters); 0 is the all-zero hash of a          *)
(* tombstone. Size is fixed by the hash, the mode is advisory, every leaf  *)
(* is a regular file. A version vector is total: a missing counter is 0.   *)
(***************************************************************************)
EXTENDS Naturals, Sequences, FiniteSets, FiniteSetsExt

CONSTANTS
    Device,        \* ShortIDs of the paired devices
    MaxShortID,    \* the largest ShortID (2^64 - 1 in the code)
    Name,          \* the names users give to files
    Content,       \* content hashes of live files
    MTime,         \* modification times, in model nanoseconds
    Second,        \* how many of those make one second
    MaxCopyDepth,  \* how many conflict suffixes fit into MAX_PATH
    Absent         \* no entry for a path in a map, no file on a disk

ASSUME DeviceAssumption ==
    /\ MaxShortID \in Nat
    /\ Device \subseteq 1 .. MaxShortID
ASSUME DataAssumption ==
    /\ Content \subseteq Nat \ {0}
    /\ MTime \subseteq Nat
    /\ Second \in Nat \ {0}
    /\ MaxCopyDepth \in Nat

-----------------------------------------------------------------------------
(* Version vectors: protocol/versionvector.go. *)

VersionVector == [Device -> Nat]

EmptyVV == [i \in Device |-> 0]

Bump(v, self) == [v EXCEPT ![self] = @ + 1]

\* Mutant of Merge: counters added up.
Merge_Sum(v, w) == [i \in Device |-> v[i] + w[i]]

Merge(v, w) == [i \in Device |-> IF v[i] > w[i] THEN v[i] ELSE w[i]]

\* The devices at which v is strictly ahead of w.
Ahead(v, w) == {i \in Device : v[i] > w[i]}

Compare(v, w) ==
    CASE Ahead(v, w) = {} /\ Ahead(w, v) = {} -> "Equal"
      [] Ahead(v, w) # {} /\ Ahead(w, v) = {} -> "Dominates"
      [] Ahead(v, w) = {} /\ Ahead(w, v) # {} -> "DominatedBy"
      [] OTHER -> "Concurrent"

-----------------------------------------------------------------------------
(* Paths, leaves and the maps from paths to leaves. *)

\* A canonical key: a user's name with the suffixes that conflictName added,
\* each the loser's mtime in whole seconds and an author. Path holds the keys
\* that fit into MAX_PATH, AnyPath all of them.
Tag == {m \div Second : m \in MTime} \X (Device \cup {0})
AnyPath == [name : Name, tags : Seq(Tag)]
Path == [name : Name, tags : UNION {[1 .. n -> Tag] : n \in 0 .. MaxCopyDepth}]

UserPath == [name : Name, tags : {<<>>}]

WouldExceedMaxPath(key) == key \notin Path

Leaf == [hash : Content \cup {0}, mtime : MTime, vv : VersionVector, del : BOOLEAN]

\* A FileInfo set (e.files, a peer's index, a snapshot, a message body).
FileMap == [Path -> Leaf \cup {Absent}]
EmptyMap == [p \in Path |-> Absent]

\* A leaf to be put at a path: a conflict copy, the target of an apply.
Copy == [path : Path, leaf : Leaf]

\* What is on a disk: content and mtime, no history.
File == [hash : Content, mtime : MTime]
DiskMap == [Path -> File \cup {Absent}]

ASSUME AbsentAssumption ==
    /\ Absent \notin Leaf /\ Absent \notin File
    /\ Absent \notin [path : AnyPath, leaf : Leaf]

\* The content hash at a path, 0 where there is no content.
HashOf(x) == IF x = Absent THEN 0 ELSE x.hash

Live(leaf) == leaf # Absent /\ ~leaf.del
Tombstone(leaf) == leaf # Absent /\ leaf.del

\* A delete is a versioned event: merkle/fileinfo.go SetDeleted. The mtime stays.
SetDeleted(leaf, self) ==
    [leaf EXCEPT !.hash = 0, !.del = TRUE, !.vv = Bump(leaf.vv, self)]

\* The part of a leaf the structural hash commits to (mtime is left out), so two
\* Merkle roots are equal iff Root is, and Diff is what the pruned walk emits.
Structure(leaf) ==
    IF leaf = Absent THEN Absent ELSE <<leaf.hash, leaf.del, leaf.vv>>
Root(f) == [p \in Path |-> Structure(f[p])]

\* Mutant of Diff: leaves with the same content are taken for equal.
Diff_ByContent(local, remote) == {p \in Path : HashOf(local[p]) # HashOf(remote[p])}

Diff(local, remote) ==
    IF local = remote THEN {}
    ELSE {p \in Path : Structure(local[p]) # Structure(remote[p])}

-----------------------------------------------------------------------------
(* Conflicts: reconcile/conflict.go and apply.go. *)

maxShortID(ids) == IF ids = {} THEN 0 ELSE Max(ids)

\* The highest device whose counter is ahead in a; 0 when there is none.
authorOf(a, b) == maxShortID(Ahead(a.vv, b.vv))

\* Mutant of aWins: the local side wins a tie on mtime.
aWins_LocalOnTie(a, b) == a.mtime >= b.mtime

\* Newer mtime, then the smaller author, then the smaller hash.
aWins(a, b) ==
    LET authA == authorOf(a, b)
        authB == authorOf(b, a)
    IN  IF a.mtime # b.mtime
        THEN a.mtime > b.mtime
        ELSE IF authA # 0 /\ authB # 0 /\ authA # authB
             THEN authA < authB
             ELSE a.hash < b.hash

winner(a, b) == IF aWins(a, b) THEN a ELSE b
loserOf(a, b) == IF aWins(a, b) THEN b ELSE a

loserAuthor(l, w) ==
    IF Ahead(l.vv, w.vv) # {} THEN authorOf(l, w)
    ELSE maxShortID({i \in Device : l.vv[i] > 0})

conflictName(p, mtime, author) ==
    [p EXCEPT !.tags = Append(@, <<mtime \div Second, author>>)]

\* A plan for a path: what to install there, and the copy to preserve first (a losing
\* tombstone has none).
Plan(p, kind, leaf, copy) == [path |-> p, kind |-> kind, leaf |-> leaf, preserve |-> copy]
Install(p, leaf) == Plan(p, "install", leaf, Absent)
NoOp(p) == Plan(p, "noop", Absent, Absent)

\* Mutant of conflictPlan: the loser is not preserved.
conflictPlan_NoCopy(p, local, remote) == Plan(p, "conflict", winner(local, remote), Absent)

conflictPlan(p, local, remote) ==
    LET w == winner(local, remote)
        l == loserOf(local, remote)
    IN  Plan(p, "conflict", w,
             IF l.del THEN Absent
             ELSE [path |-> conflictName(p, l.mtime, loserAuthor(l, w)), leaf |-> l])

sameContent(local, remote) == local.hash = remote.hash /\ local.del = remote.del

resolve(p, local, remote) ==
    CASE remote = Absent -> NoOp(p)
      [] remote # Absent /\ local = Absent ->
            IF remote.del THEN NoOp(p) ELSE Install(p, remote)
      [] OTHER ->
            LET order == Compare(local.vv, remote.vv)
                merged == Merge(local.vv, remote.vv)
            IN  CASE order = "Dominates" -> NoOp(p)
                  [] order = "DominatedBy" -> Install(p, [remote EXCEPT !.vv = merged])
                  [] order = "Equal" /\ sameContent(local, remote) -> NoOp(p)
                  [] order = "Concurrent" /\ sameContent(local, remote) ->
                        Install(p, [local EXCEPT !.vv = merged])
                  [] OTHER -> conflictPlan(p, local, remote)

-----------------------------------------------------------------------------
(* Tombstones: reconcile/tombstone.go. *)

\* Mutant of canGC: any entry of the peer counts as an acknowledgement.
canGC_AnyEntry(tomb, acked) == acked # Absent

canGC(tomb, acked) ==
    /\ Tombstone(acked)
    /\ Compare(acked.vv, tomb.vv) \in {"Dominates", "Equal"}

gcTombstones(f, index) ==
    [p \in Path |-> IF Tombstone(f[p]) /\ canGC(f[p], index[p]) THEN Absent ELSE f[p]]

-----------------------------------------------------------------------------
(* Scans and restarts. *)

\* merkle.Scan and scanOne: a leaf with an empty version vector.
Scanned(file) == [hash |-> file.hash, mtime |-> file.mtime, vv |-> EmptyVV, del |-> FALSE]

HistoryOf(leaf) == IF leaf = Absent THEN EmptyVV ELSE leaf.vv

\* A scanned file that is new or changed is local authorship.
Authored(prev, file, self) ==
    [Scanned(file) EXCEPT !.vv = Bump(HistoryOf(prev), self)]

Unchanged(prev, file) == Live(prev) /\ prev.hash = file.hash

\* restoreVVs: history back onto the scan of a restart, path by path. A file the
\* snapshot does not know keeps the empty vector of the scan.
restoreVV(prev, file, self) ==
    CASE prev = Absent -> Scanned(file)
      [] Live(prev) /\ prev.hash = file.hash -> [Scanned(file) EXCEPT !.vv = prev.vv]
      [] OTHER -> Authored(prev, file, self)

\* SynthesizeDeletions for a path that is not on disk.
synthesizeDeletion(prev, self) == IF Live(prev) THEN SetDeleted(prev, self) ELSE prev

\* startupReconcile: the FileInfo set a daemon starts with. With an empty snapshot
\* both rules reduce to the plain scan.
startupFiles(snapshot, disk, self) ==
    [p \in Path |-> IF disk[p] # Absent THEN restoreVV(snapshot[p], disk[p], self)
                    ELSE synthesizeDeletion(snapshot[p], self)]

\* doReseed: content without history adopts the peer's history, and claims authorship
\* on top of it where the bytes differ.
NeedsReseed(lf, pf) == Live(lf) /\ lf.vv = EmptyVV /\ Live(pf)
reseeded(lf, pf, self) ==
    [lf EXCEPT !.vv = IF lf.hash = pf.hash THEN pf.vv ELSE Bump(pf.vv, self)]
=============================================================================
