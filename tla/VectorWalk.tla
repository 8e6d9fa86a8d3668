----------------------------- MODULE VectorWalk -----------------------------
(***************************************************************************)
(* Version vectors as protocol/versionvector.go stores and walks them:     *)
(* lists of counters, ascending by device, none of them zero. SyncData     *)
(* takes a vector for a function from devices to counters and compares two *)
(* of them in one step; here, before the two sides of Resolver resolve,    *)
(* the loops of Compare and Merge walk the lists of their leaves, one step *)
(* per iteration. They are shown to compute what SyncData says, and the    *)
(* wire form to be read back as it was written.                            *)
(***************************************************************************)
EXTENDS Resolver

\* The count of a list is a uint16 on the wire; this many values it has.
Uint16 == 65536

\* It fits "at LAN device scale", as the comment of Encode says.
ASSUME WalkAssumption == Cardinality(Device) < Uint16

VARIABLES
    pc,        \* the loop that runs: that of Compare, that of Merge, none any more
    i, j,      \* its positions in the list of a and in that of b
    ahead,     \* Compare's aGreater and bGreater: the sides found ahead
    ordering,  \* what Compare has returned
    out        \* what Merge has put together

walk == <<pc, i, j, ahead, ordering, out>>

Counter(id, value) == [id |-> id, value |-> value]

\* NewVersionVector: the canonical list of a vector, without the zeros and sorted, so that
\* k counters of the list are those of the devices up to that of the k-th.
NewVersionVector(m) ==
    LET ids == {d \in Device : m[d] > 0}
        upTo(d) == {e \in ids : e <= d}
        at(k) == CHOOSE d \in ids : Cardinality(upTo(d)) = k
    IN  [k \in 1 .. Cardinality(ids) |-> Counter(at(k), m[at(k)])]

\* sort.Search: the first counter of id or a later device.
search(v, id) == Min({k \in 1 .. Len(v) : v[k].id >= id} \cup {Len(v) + 1})

Has(v, id) == search(v, id) <= Len(v) /\ v[search(v, id)].id = id

Get(v, id) == IF Has(v, id) THEN v[search(v, id)].value ELSE 0

BumpList(v, self) ==
    LET k == search(v, self)
    IN  IF Has(v, self) THEN [v EXCEPT ![k].value = @ + 1]
        ELSE SubSeq(v, 1, k - 1) \o <<Counter(self, 1)>> \o SubSeq(v, k, Len(v))

IsEqual(v, w) == Len(v) = Len(w) /\ \A k \in 1 .. Len(v) : v[k] = w[k]

-----------------------------------------------------------------------------
(* The loops. Both walk in lock-step: the list with the smaller device goes  *)
(* on, both do when the device is the same.                                  *)

\* The vectors and lists of the two leaves the sides have started with.
Vector(s) == HistoryOf(Started(s))
List(s) == NewVersionVector(Vector(s))

WalkInit ==
    /\ Init
    /\ pc = "compare" /\ i = 1 /\ j = 1 /\ ahead = {} /\ ordering = "none" /\ out = <<>>

Both == i <= Len(List("a")) /\ j <= Len(List("b"))

Advance ==
    /\ i' = IF List("a")[i].id <= List("b")[j].id THEN i + 1 ELSE i
    /\ j' = IF List("b")[j].id <= List("a")[i].id THEN j + 1 ELSE j

\* The sides that the counters x of a and y of b show to be ahead.
Greater(x, y) ==
    {s \in Side : IF s = "a" THEN x.id < y.id \/ (x.id = y.id /\ x.value > y.value)
                  ELSE y.id < x.id \/ (x.id = y.id /\ x.value < y.value)}

CompareStep ==
    /\ pc = "compare" /\ Both /\ ahead # Side
    /\ Advance
    /\ ahead' = ahead \cup Greater(List("a")[i], List("b")[j])
    /\ UNCHANGED <<pc, ordering, out, vars>>

\* Mutant of Trailing: counters behind the end of the other list are not looked at.
Trailing_None == {}

\* The sides with counters left behind the end of the other's list.
Trailing == {s \in Side : IF s = "a" THEN i <= Len(List("a")) ELSE j <= Len(List("b"))}

OrderingOf(sides) ==
    CASE sides = {} -> "Equal" [] sides = {"a"} -> "Dominates"
      [] sides = {"b"} -> "DominatedBy" [] sides = Side -> "Concurrent"

\* Compare returns, at once when each side is ahead somewhere.
CompareEnd ==
    /\ pc = "compare" /\ ~(Both /\ ahead # Side)
    /\ ordering' = IF ahead = Side THEN "Concurrent" ELSE OrderingOf(ahead \cup Trailing)
    /\ pc' = "merge" /\ i' = 1 /\ j' = 1
    /\ UNCHANGED <<ahead, out, vars>>

\* The counter that Merge takes over for the pair of x and y.
Larger(x, y) ==
    IF x.id # y.id THEN IF x.id < y.id THEN x ELSE y
    ELSE Counter(x.id, IF y.value > x.value THEN y.value ELSE x.value)

MergeStep ==
    /\ pc = "merge" /\ Both
    /\ Advance
    /\ out' = Append(out, Larger(List("a")[i], List("b")[j]))
    /\ UNCHANGED <<pc, ahead, ordering, vars>>

\* What is left of either list.
Rest(v, k) == SubSeq(v, k, Len(v))

MergeEnd ==
    /\ pc = "merge" /\ ~Both
    /\ out' = out \o Rest(List("a"), i) \o Rest(List("b"), j)
    /\ pc' = "done"
    /\ UNCHANGED <<i, j, ahead, ordering, vars>>

WalkNext ==
    \/ CompareStep \/ CompareEnd \/ MergeStep \/ MergeEnd
    \/ pc = "done" /\ Next /\ UNCHANGED walk

WalkSpec == WalkInit /\ [][WalkNext]_<<vars, walk>>

-----------------------------------------------------------------------------
(* The wire form, a sequence of words: the count, then id and value of each. *)

Encode(v) ==
    <<Len(v) % Uint16>> \o [k \in 1 .. 2 * Len(v) |->
                      LET c == v[(k + 1) \div 2] IN IF k % 2 = 1 THEN c.id ELSE c.value]

ErrMalformedVersionVector == [ok |-> FALSE]

\* Mutant of DecodeVersionVector: an id may be repeated.
DecodeVersionVector_Repeats(b) ==
    LET count == Head(b)
        v == [k \in 1 .. count |-> Counter(b[2 * k], b[2 * k + 1])]
    IN  IF b = <<>> \/ Len(b) < 1 + 2 * count THEN ErrMalformedVersionVector
        ELSE IF \E k \in 1 .. count : v[k].value = 0 \/ (k > 1 /\ v[k].id < v[k - 1].id)
             THEN ErrMalformedVersionVector
             ELSE [ok |-> TRUE, vv |-> v, read |-> 1 + 2 * count]

\* The vector at the front of b and how much of b it takes, unless it is cut off, has a
\* zero counter or is not ascending.
DecodeVersionVector(b) ==
    LET count == Head(b)
        v == [k \in 1 .. count |-> Counter(b[2 * k], b[2 * k + 1])]
    IN  IF b = <<>> \/ Len(b) < 1 + 2 * count THEN ErrMalformedVersionVector
        ELSE IF \E k \in 1 .. count : v[k].value = 0 \/ (k > 1 /\ v[k].id <= v[k - 1].id)
             THEN ErrMalformedVersionVector
             ELSE [ok |-> TRUE, vv |-> v, read |-> 1 + 2 * count]

-----------------------------------------------------------------------------
\* The lock-step walks (Compare, Merge) and the searches (Bump, Get) give on the canonical
\* lists what the pointwise definitions give on the vectors, and their results are
\* canonical again: two equal vectors have one encoding, on which "converged iff equal
\* root" rests (SR-5).
WalksArePointwise ==
    /\ pc # "compare" => ordering = Compare(Vector("a"), Vector("b"))
    /\ pc = "done" => out = NewVersionVector(Merge(Vector("a"), Vector("b")))
    /\ IsEqual(List("a"), List("b")) <=> Compare(Vector("a"), Vector("b")) = "Equal"
    /\ \A d \in Device :
          /\ Get(List("a"), d) = Vector("a")[d]
          /\ BumpList(List("a"), d) = NewVersionVector(Bump(Vector("a"), d))

\* What two peers read of a vector is what was written, with whatever follows it on the
\* wire, and a list that is accepted is canonical: the only reading of a malformed one is
\* an error. Here the counters of one vector are continued by those of the other.
Spliced == Encode(List("a") \o List("b"))
CodecIsExact ==
    /\ DecodeVersionVector(Encode(List("a")) \o Encode(List("b")))
          = [ok |-> TRUE, vv |-> List("a"), read |-> Len(Encode(List("a")))]
    /\ LET r == DecodeVersionVector(Spliced) IN
       r.ok => r.vv = NewVersionVector([d \in Device |-> Get(r.vv, d)])
    /\ \A n \in 0 .. Len(Encode(List("a"))) - 1 :
          ~DecodeVersionVector(SubSeq(Encode(List("a")), 1, n)).ok
=============================================================================
