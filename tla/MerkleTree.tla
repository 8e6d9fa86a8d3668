----------------------------- MODULE MerkleTree -----------------------------
(***************************************************************************)
(* The Merkle tree (internal/merkle/tree.go, node.go) and its differ       *)
(* (differ.go), driven as the engine drives them: two devices that record  *)
(* leaves and tombstones one by one, build the two trees and diff them.    *)
(*                                                                         *)
(* A path is the sequence of its components. A tree is the function from   *)
(* the paths of its nodes, the root being the empty path, to the nodes; a  *)
(* child is found at its directory's path with its name appended. Hashes   *)
(* are symbolic: equal exactly when what was hashed is equal.              *)
(***************************************************************************)
EXTENDS Integers, Sequences, FiniteSets, SequencesExt

CONSTANTS
    Device,           \* the two devices
    Name,             \* the names a component may be
    Path,             \* the paths files may have
    Content,          \* the contents a live leaf may have
    Absent            \* no leaf, no node

VARIABLE files    \* e.files of each device: the recorded leaves, tombstones included

vars == <<files>>

Peer(d) == CHOOSE e \in Device : e # d

Live(c) == [del |-> FALSE, content |-> c]
Tombstone == [del |-> TRUE, content |-> Absent]
Leaf == {Live(c) : c \in Content} \cup {Tombstone}

ASSUME TreeAssumption ==
    /\ \E a, b \in Device : a # b /\ Device = {a, b}
    /\ IsFiniteSet(Path) /\ \A p \in Path : p \in Seq(Name) /\ p # <<>>
    /\ Absent \notin Leaf

\* The directories on the way to p, the root included.
Dirs(p) == {SubSeq(p, 1, i) : i \in 0 .. Len(p) - 1}
Below(p, q) == p \in Dirs(q)

-----------------------------------------------------------------------------
(* Nodes and hashes. *)

leafHash(leaf) == <<"leaf", leaf>>

\* Mutant of hashFromChildren: the hashes of the children without their names.
hashFromChildren_NoNames(kids) == <<"node", {kids[m] : m \in DOMAIN kids}>>

\* The hash of a directory whose children have the cached hashes kids.
hashFromChildren(kids) == <<"node", kids>>

Node(isDir, leaf, hash) == [isDir |-> isDir, leaf |-> leaf, hash |-> hash]
EmptyDir == Node(TRUE, Absent, Absent)
EmptyTree == [n \in {<<>>} |-> EmptyDir]
\* What comes with ErrTreeConflict: a tree without a root.
NilTree == [n \in {} |-> EmptyDir]

Names(t, n) == {m \in Name : Append(n, m) \in DOMAIN t}

\* The hashes of all nodes, children first.
rehash(t) ==
    LET hash[n \in DOMAIN t] ==
            IF t[n].isDir THEN hashFromChildren([m \in Names(t, n) |-> hash[Append(n, m)]])
            ELSE leafHash(t[n].leaf)
    IN  [n \in DOMAIN t |-> [t[n] EXCEPT !.hash = hash[n]]]

\* Mutant of place: a leaf is put over whatever is there.
place_Overwrites(t, p, leaf) ==
    IF t = NilTree \/ \E n \in Dirs(p) \cap DOMAIN t : ~t[n].isDir THEN NilTree
    ELSE [n \in {x \in DOMAIN t : ~Below(p, x)} \cup Dirs(p) \cup {p} |->
             IF n = p THEN Node(FALSE, leaf, Absent)
             ELSE IF n \in DOMAIN t THEN t[n] ELSE EmptyDir]

\* BuildTree's walk for one leaf: directories are made on the way, the last component
\* must be free, no component on the way may be a file. After an error nothing is placed.
place(t, p, leaf) ==
    IF t = NilTree \/ p \in DOMAIN t \/ \E n \in Dirs(p) \cap DOMAIN t : ~t[n].isDir
    THEN NilTree
    ELSE [n \in DOMAIN t \cup Dirs(p) \cup {p} |->
             IF n = p THEN Node(FALSE, leaf, Absent)
             ELSE IF n \in DOMAIN t THEN t[n] ELSE EmptyDir]

\* BuildTree of the leaves of f, taken in the order s.
BuildTreeInOrder(f, s) ==
    LET placed[k \in 0 .. Len(s)] ==
            IF k = 0 THEN EmptyTree ELSE place(placed[k - 1], s[k], f[s[k]])
    IN  rehash(placed[Len(s)])

Recorded(f) == {p \in Path : f[p] # Absent}
BuildTree(f) == BuildTreeInOrder(f, SetToSeq(Recorded(f)))

\* Mutant of cowUpsert: the directories on the way keep the hash they had.
cowUpsert_OldHash(t, p, leaf) ==
    IF (\E n \in Dirs(p) \cap DOMAIN t : ~t[n].isDir) \/ (p \in DOMAIN t /\ t[p].isDir)
    THEN NilTree
    ELSE [n \in DOMAIN t \cup Dirs(p) \cup {p} |->
             IF n = p THEN Node(FALSE, leaf, leafHash(leaf))
             ELSE IF n \in DOMAIN t THEN t[n] ELSE EmptyDir]

\* Copy-on-write: from the leaf up, each directory on the way hashes the cached hashes of
\* its children, of which one is new; all other nodes are shared.
cowUpsert(t, p, leaf) ==
    LET hash[i \in 0 .. Len(p)] ==
            IF i = Len(p) THEN leafHash(leaf)
            ELSE LET dir == SubSeq(p, 1, i)
                 IN  hashFromChildren([m \in Names(t, dir) \cup {p[i + 1]} |->
                         IF m = p[i + 1] THEN hash[i + 1] ELSE t[Append(dir, m)].hash])
    IN  IF (\E n \in Dirs(p) \cap DOMAIN t : ~t[n].isDir) \/ (p \in DOMAIN t /\ t[p].isDir)
        THEN NilTree
        ELSE [n \in DOMAIN t \cup Dirs(p) \cup {p} |->
                 IF n = p THEN Node(FALSE, leaf, hash[Len(p)])
                 ELSE IF n \in Dirs(p) THEN Node(TRUE, Absent, hash[Len(n)]) ELSE t[n]]

Update(t, p, leaf) == cowUpsert(IF t = NilTree THEN EmptyTree ELSE t, p, leaf)

RootHash(t) == IF t = NilTree THEN Absent ELSE t[<<>>].hash

-----------------------------------------------------------------------------
(* The differ. *)

Entry(p, l, r, lDir, rDir) ==
    [path |-> p, local |-> l, remote |-> r, localDir |-> lDir, remoteDir |-> rDir]
IsTypeClash(e) == e.localDir \/ e.remoteDir

\* The leaf at p, if the walk along its components ends at one.
Lookup(t, p) == IF p \in DOMAIN t THEN t[p].leaf ELSE Absent
IsDir(t, n) == n \in DOMAIN t /\ t[n].isDir

\* Mutant of Pruned: the leaves are compared, and two directories have none.
Pruned_ByLeaf(t, u, n) == n \in DOMAIN t /\ n \in DOMAIN u /\ t[n].leaf = u[n].leaf

\* Present in both trees with the same hash: what is below is skipped.
Pruned(t, u, n) == n \in DOMAIN t /\ n \in DOMAIN u /\ t[n].hash = u[n].hash

NoDir(t, u, n) == ~IsDir(t, n) /\ ~IsDir(u, n)

\* Mutant of Clash: a directory is taken for an absent file.
Clash_Never(t, u, n) == FALSE

\* A file on one side and a directory on the other: one entry, no recursion.
Clash(t, u, n) ==
    (Lookup(t, n) # Absent /\ IsDir(u, n)) \/ (Lookup(u, n) # Absent /\ IsDir(t, n))

\* diffNodes goes on to the children of n in both trees, or returns before, with an entry
\* or not.
Recurses(t, u, n) == ~Pruned(t, u, n) /\ ~NoDir(t, u, n) /\ ~Clash(t, u, n)
Emits(t, u, n) == ~Pruned(t, u, n) /\ (NoDir(t, u, n) \/ Clash(t, u, n))

\* The nodes diffNodes is called for: it has gone on at each directory on the way.
Visited(t, u) == {n \in DOMAIN t \cup DOMAIN u : \A a \in Dirs(n) : Recurses(t, u, a)}

Diff(t, u) ==
    {Entry(n, Lookup(t, n), Lookup(u, n), IsDir(t, n), IsDir(u, n)) :
        n \in {x \in Visited(t, u) : Emits(t, u, x)}}

-----------------------------------------------------------------------------
(* The devices: how the loop changes e.files, one leaf at a time. The disk is *)
(* not here. It changes under the loop and the records lag behind it, so a     *)
(* handler may find anything at a path, whatever is recorded there or nearby.  *)

Init == files = [d \in Device |-> [p \in Path |-> Absent]]

Record(d, p, leaf) == files' = [files EXCEPT ![d][p] = leaf]

\* onLocalChange or a rescan finds a file that is not the recorded one, or misses one.
onLocalChange(d) ==
    \E p \in Path :
        \/ \E c \in Content : files[d][p] # Live(c) /\ Record(d, p, Live(c))
        \/ files[d][p] \notin {Absent, Tombstone} /\ Record(d, p, Tombstone)

\* handleCompletion and applyTombstone record the leaf that was installed: one which the
\* peer advertised when the install was planned, whatever has happened since.
handleCompletion(d) == \E p \in Path, leaf \in Leaf : Record(d, p, leaf)

\* gcTombstonesLocked forgets a tombstone (SyncEngine has the rule when it may).
gcTombstones(d) == \E p \in Path : files[d][p] = Tombstone /\ Record(d, p, Absent)

Next == \E d \in Device : onLocalChange(d) \/ handleCompletion(d) \/ gcTombstones(d)
Spec == Init /\ [][Next]_vars

\* What reconcileWithPeer finds to resolve when f is recorded and the peer has advertised
\* g: nothing at all if a tree cannot be built.
Differing(f, g) ==
    IF BuildTree(f) = NilTree \/ BuildTree(g) = NilTree THEN {}
    ELSE Diff(BuildTree(f), BuildTree(g))

\* Of these it may install what the peer has; clashes are refused.
Installable(f, g) == {e \in Differing(f, g) : ~IsTypeClash(e) /\ e.remote # Absent}

-----------------------------------------------------------------------------
(* Properties. *)

\* BuildTree takes the leaves in the random order of a Go map; tree and error are the
\* same in every order.
SameTreeInAnyOrder ==
    \A d \in Device : \A s \in SetToSeqs(Recorded(files[d])) :
        BuildTreeInOrder(files[d], s) = BuildTree(files[d])

\* Update re-hashes one branch and shares the rest, and yet gives the tree, cached hashes
\* included, or the error that a full BuildTree of the updated set gives.
UpdateIsRebuild ==
    \A d \in Device : BuildTree(files[d]) # NilTree =>
        \A p \in Path, leaf \in Leaf :
            Update(BuildTree(files[d]), p, leaf) = BuildTree([files[d] EXCEPT ![p] = leaf])

\* Reference: f has a leaf below p.
HasBelow(f, p) == \E q \in Path : Below(p, q) /\ f[q] # Absent
RefClash(f, g, p) == (f[p] # Absent /\ HasBelow(g, p)) \/ (g[p] # Absent /\ HasBelow(f, p))
RefDiff(f, g) ==
    {Entry(p, f[p], g[p], HasBelow(f, p), HasBelow(g, p)) :
        p \in {q \in Path : /\ RefClash(f, g, q) \/ f[q] # g[q]
                            /\ \A r \in Path : Below(r, q) => ~RefClash(f, g, r)}}

\* The pruned walk finds exactly the paths on which the two leaf sets differ, with the
\* leaves of both sides, and reports a path that is a file here and a directory there
\* once, as a clash and not as an absence.
DiffIsExact ==
    \A d \in Device :
        LET f == files[d]
            g == files[Peer(d)]
        IN  BuildTree(f) # NilTree /\ BuildTree(g) # NilTree =>
                Diff(BuildTree(f), BuildTree(g)) = RefDiff(f, g)

\* RootHash is the convergence oracle: it is the same for two devices exactly when they
\* have recorded the same leaves.
RootIsOracle ==
    \A d \in Device :
        LET f == files[d]
            g == files[Peer(d)]
        IN  BuildTree(f) # NilTree /\ BuildTree(g) # NilTree =>
                (RootHash(BuildTree(f)) = RootHash(BuildTree(g)) <=> f = g)

\* The records of f after the entries S were installed.
Installed(f, S) ==
    [p \in Path |-> IF \E e \in S : e.path = p THEN (CHOOSE e \in S : e.path = p).remote
                                              ELSE f[p]]

\* Refusing the clashes is enough to keep reconciling: whichever of the differences that
\* one diff finds are installed, in whatever order and however many fail, the recorded
\* leaves still make a tree, unless a local change is recorded meanwhile.
InstallsKeepTree ==
    \A d \in Device : BuildTree(files[d]) # NilTree =>
        \A S \in SUBSET Installable(files[d], files[Peer(d)]) :
            BuildTree(Installed(files[d], S)) # NilTree
=============================================================================
