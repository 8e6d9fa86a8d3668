------------------------------ MODULE Resolver ------------------------------
(***************************************************************************)
(* Two peers that differ at one path and have told each other what they    *)
(* hold: each runs the resolver (internal/reconcile/apply.go resolve) on   *)
(* its own leaf and the leaf it was told, in its own time, and carries the *)
(* verdict out. The resolver is meant to be symmetric: without any         *)
(* further message both must end with the same leaf and the same copy.     *)
(***************************************************************************)
EXTENDS SyncData

CONSTANTS
    Key,         \* the path at which the two differ
    MaxCounter   \* bound: the largest counter in a version vector

ASSUME ResolverAssumption == Key \in UserPath /\ MaxCounter \in Nat

VARIABLES
    leaf,   \* what each side records at Key
    told,   \* what each side was told of the other
    copy,   \* the conflict copy each side preserves or expects
    done    \* which sides have resolved

vars == <<leaf, told, copy, done>>

Side == {"a", "b"}
Other(s) == IF s = "a" THEN "b" ELSE "a"

\* The leaves a scan, a delete or a peer can produce: no content iff deleted.
WellFormed(x) == x.hash \in Content <=> ~x.del
Start ==
    {x \in [hash : Content \cup {0}, mtime : MTime, vv : [Device -> 0 .. MaxCounter],
            del : BOOLEAN] : WellFormed(x)} \cup {Absent}

Init ==
    /\ leaf \in [Side -> Start]
    /\ told = [s \in Side |-> leaf[Other(s)]]
    /\ copy = [s \in Side |-> Absent]
    /\ done = {}

\* What is at Key once the verdict of resolve has been carried out.
Outcome(local, remote) ==
    LET v == resolve(Key, local, remote)
    IN  IF v.kind = "noop" THEN local ELSE v.leaf

Resolve(s) ==
    /\ s \notin done
    /\ leaf' = [leaf EXCEPT ![s] = Outcome(leaf[s], told[s])]
    /\ copy' = [copy EXCEPT ![s] = resolve(Key, leaf[s], told[s]).preserve]
    /\ done' = done \cup {s}
    /\ UNCHANGED told

Next == \E s \in Side : Resolve(s)

Spec == Init /\ [][Next]_vars

\* The leaf s started with is what the other side was told.
Started(s) == told[Other(s)]

\* A tombstone for a path the other side has never had stays one-sided.
UnknownTombstone(x, y) == x = Absent /\ Tombstone(y)

\* Symmetric verdicts (SR-5, SR-7): when both sides have resolved, they record the same
\* structural leaf and agree on the conflict copy, its name included. The one exception
\* is the delete of a path the other side has never had (row "local nil, delete").
SameVerdict ==
    done = Side =>
        \/ Structure(leaf["a"]) = Structure(leaf["b"]) /\ copy["a"] = copy["b"]
        \/ \E s \in Side : UnknownTombstone(Started(s), told[s])

\* Nothing is dropped (SR-7): a live version that the other side's history does not
\* dominate is, after the verdict, still at the path or in the copy; a version is only
\* given up for one that causally follows it.
NothingDropped ==
    \A s \in done : \A x \in {Started(s), told[s]} :
        \/ ~Live(x)
        \/ Live(leaf[s]) /\ leaf[s].hash = x.hash
        \/ copy[s] # Absent /\ copy[s].leaf.hash = x.hash
        \/ leaf[s] # Absent /\ Compare(leaf[s].vv, x.vv) = "Dominates"
=============================================================================
