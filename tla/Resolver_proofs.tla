-------------------------- MODULE Resolver_proofs --------------------------
(***************************************************************************)
(* The resolver is symmetric and drops nothing, for any number of devices, *)
(* any contents, times and counters.                                       *)
(***************************************************************************)
EXTENDS Resolver, TLAPS, WellFoundedInduction

-----------------------------------------------------------------------------
(* Version vectors. *)

LEMMA CompareMeaning ==
    ASSUME NEW v \in VersionVector, NEW w \in VersionVector
    PROVE  /\ Compare(v, w) \in {"Equal", "Dominates", "DominatedBy", "Concurrent"}
           /\ Compare(v, w) = "Equal" <=> v = w
           /\ Compare(v, w) = "Dominates" <=> Compare(w, v) = "DominatedBy"
           /\ Compare(v, w) = "Dominates" => Merge(v, w) = v
           /\ Compare(v, w) = "DominatedBy" => Merge(v, w) = w
           /\ Compare(v, w) = "Concurrent" <=> Compare(w, v) = "Concurrent"
<1>1. Ahead(v, w) = {} /\ Ahead(w, v) = {} <=> v = w
  BY DEF Ahead, VersionVector
<1>2. Ahead(w, v) = {} => Merge(v, w) = v
  BY DEF Ahead, Merge, VersionVector
<1>3. Ahead(v, w) = {} => Merge(v, w) = w
  BY DEF Ahead, Merge, VersionVector
<1> QED BY <1>1, <1>2, <1>3 DEF Compare

LEMMA MergeAhead ==
    ASSUME NEW v \in VersionVector, NEW w \in VersionVector
    PROVE  /\ Merge(v, w) = Merge(w, v) /\ Merge(v, w) \in VersionVector
           /\ Ahead(v, Merge(v, w)) = {} /\ Ahead(Merge(v, w), v) = Ahead(w, v)
BY DEF Merge, Ahead, VersionVector

-----------------------------------------------------------------------------
(* The tie-break is a strict total order on the two sides of a conflict. *)

LEMMA MaxExists ==
    ASSUME NEW S \in SUBSET Device, S # {}
    PROVE  maxShortID(S) \in S /\ maxShortID(S) \in Nat
<1>1. \A i \in S : i \in Nat /\ i <= MaxShortID /\ MaxShortID - i \in Nat
  BY DeviceAssumption
<1> DEFINE T == {MaxShortID - i : i \in S}
           R == OpToRel(<, Nat)
<1>2. T \subseteq Nat /\ T # {}
  BY <1>1
<1>3. IsWellFoundedOn(R, Nat)
  BY NatLessThanWellFounded
<1>4. \A x, y \in Nat : y < x => <<y, x>> \in R
  BY DEF OpToRel
<1> HIDE DEF T, R
<1>5. PICK x \in T : \A y \in T : ~(<<y, x>> \in R)
  BY <1>2, <1>3, WFMin
<1>6. PICK m \in S : x = MaxShortID - m
  BY <1>5 DEF T
<1>7. \A i \in S : m >= i
  <2> TAKE i \in S
  <2>1. MaxShortID - i \in T /\ MaxShortID - i \in Nat /\ x \in Nat
    BY <1>1, <1>2 DEF T
  <2>2. ~(MaxShortID - i < x)
    BY <1>4, <1>5, <2>1
  <2> QED BY <1>1, <1>6, <2>2, DeviceAssumption
<1>8. Max(S) \in S
  BY <1>7 DEF Max
<1> QED BY <1>1, <1>8 DEF maxShortID

LEMMA AuthorType ==
    ASSUME NEW a \in Leaf, NEW b \in Leaf
    PROVE  authorOf(a, b) \in Nat
<1>1. Ahead(a.vv, b.vv) \in SUBSET Device
  BY DEF Ahead
<1> QED BY <1>1, MaxExists DEF authorOf, maxShortID

LEMMA OneWinner ==
    ASSUME NEW a \in Leaf, NEW b \in Leaf, a.hash # b.hash
    PROVE  aWins(a, b) <=> ~aWins(b, a)
<1>1. authorOf(a, b) \in Nat /\ authorOf(b, a) \in Nat
  BY AuthorType
<1>2. a.mtime \in Nat /\ b.mtime \in Nat /\ a.hash \in Nat /\ b.hash \in Nat
  <2>1. a.mtime \in MTime /\ b.mtime \in MTime /\ a.hash \in Content \cup {0}
        /\ b.hash \in Content \cup {0}
    BY DEF Leaf
  <2>2. \A h \in Content \cup {0} : h \in Nat
    BY DataAssumption
  <2>3. \A t \in MTime : t \in Nat
    BY DataAssumption
  <2> QED BY <2>1, <2>2, <2>3
<1> QED BY <1>1, <1>2 DEF aWins

-----------------------------------------------------------------------------
(* What the resolver does with two leaves. *)

LEMMA StartTyped ==
    ASSUME NEW x \in Start, x # Absent
    PROVE  /\ x \in Leaf /\ x.vv \in VersionVector
           /\ x.del \in BOOLEAN /\ (x.hash \in Content <=> ~x.del)
           /\ x.hash \in Content \cup {0}
<1>1. 0 .. MaxCounter \subseteq Nat
  OBVIOUS
<1> QED BY <1>1, ResolverAssumption DEF Start, WellFormed, Leaf, VersionVector

LEMMA ContentDiffers ==
    ASSUME NEW x \in Start, x # Absent, NEW y \in Start, y # Absent, ~sameContent(x, y)
    PROVE  x.hash # y.hash
BY StartTyped, DataAssumption DEF sameContent

\* The five ways two known leaves are resolved.
LEMMA Verdict ==
    ASSUME NEW x \in Start, x # Absent, NEW y \in Start, y # Absent
    PROVE  LET o == Compare(x.vv, y.vv)
               r == resolve(Key, x, y)
           IN  /\ o = "Dominates" => r = NoOp(Key)
               /\ o = "DominatedBy" => r = Install(Key, [y EXCEPT !.vv = Merge(x.vv, y.vv)])
               /\ o = "Equal" /\ sameContent(x, y) => r = NoOp(Key)
               /\ o = "Concurrent" /\ sameContent(x, y) =>
                     r = Install(Key, [x EXCEPT !.vv = Merge(x.vv, y.vv)])
               /\ o \in {"Equal", "Concurrent"} /\ ~sameContent(x, y) => r = conflictPlan(Key, x, y)
<1> DEFINE o == Compare(x.vv, y.vv)
<1>1. o \in {"Equal", "Dominates", "DominatedBy", "Concurrent"}
  BY StartTyped, CompareMeaning
<1> QED BY <1>1 DEF resolve

\* A leaf under another vector has the same content, and the structure says so.
LEMMA Reversioned ==
    ASSUME NEW x \in Leaf, NEW v \in VersionVector
    PROVE  /\ [x EXCEPT !.vv = v] \in Leaf /\ [x EXCEPT !.vv = v].vv = v
           /\ [x EXCEPT !.vv = v].hash = x.hash /\ [x EXCEPT !.vv = v].del = x.del
           /\ Structure([x EXCEPT !.vv = v]) = <<x.hash, x.del, v>>
           /\ Structure(x) = <<x.hash, x.del, x.vv>>
<1>1. /\ [x EXCEPT !.vv = v] \in Leaf /\ [x EXCEPT !.vv = v].vv = v
      /\ [x EXCEPT !.vv = v].hash = x.hash /\ [x EXCEPT !.vv = v].del = x.del
  BY DEF Leaf
<1> QED BY <1>1, AbsentAssumption DEF Structure

\* The two sides of a conflict pick the same winner and the same copy.
LEMMA ConflictSymmetric ==
    ASSUME NEW x \in Leaf, NEW y \in Leaf, x.hash # y.hash
    PROVE  conflictPlan(Key, x, y) = conflictPlan(Key, y, x)
<1>1. winner(x, y) = winner(y, x) /\ loserOf(x, y) = loserOf(y, x)
  BY OneWinner DEF winner, loserOf
<1> QED BY <1>1 DEF conflictPlan

LEMMA Symmetric ==
    ASSUME NEW x \in Start, NEW y \in Start,
           ~UnknownTombstone(x, y), ~UnknownTombstone(y, x)
    PROVE  /\ Structure(Outcome(x, y)) = Structure(Outcome(y, x))
           /\ resolve(Key, x, y).preserve = resolve(Key, y, x).preserve
<1>0. /\ NoOp(Key).preserve = Absent /\ NoOp(Key).kind = "noop"
      /\ \A l : /\ Install(Key, l).preserve = Absent /\ Install(Key, l).leaf = l
                /\ Install(Key, l).kind = "install"
  BY DEF NoOp, Install, Plan
<1>1. CASE x = Absent \/ y = Absent
  BY <1>0, <1>1 DEF resolve, Outcome, UnknownTombstone, Tombstone
<1>2. CASE x # Absent /\ y # Absent
  <2> DEFINE m == Merge(x.vv, y.vv)
  <2>1. /\ x \in Leaf /\ y \in Leaf /\ x.vv \in VersionVector /\ y.vv \in VersionVector
        /\ m \in VersionVector /\ m = Merge(y.vv, x.vv)
    BY <1>2, StartTyped, MergeAhead
  <2>2. /\ Structure(x) = <<x.hash, x.del, x.vv>> /\ Structure(y) = <<y.hash, y.del, y.vv>>
        /\ Structure([x EXCEPT !.vv = m]) = <<x.hash, x.del, m>>
        /\ Structure([y EXCEPT !.vv = m]) = <<y.hash, y.del, m>>
    BY <2>1, Reversioned
  <2> HIDE DEF m
  <2>3. CASE Compare(x.vv, y.vv) = "Dominates"
    <3>1. Compare(y.vv, x.vv) = "DominatedBy" /\ m = x.vv
      BY <2>1, <2>3, CompareMeaning DEF m
    <3>2. resolve(Key, x, y) = NoOp(Key) /\ resolve(Key, y, x) = Install(Key, [x EXCEPT !.vv = m])
      BY <1>2, <2>1, <2>3, <3>1, Verdict
    <3> QED BY <1>0, <2>2, <3>1, <3>2 DEF Outcome
  <2>4. CASE Compare(x.vv, y.vv) = "DominatedBy"
    <3>1. Compare(y.vv, x.vv) = "Dominates" /\ m = y.vv
      BY <2>1, <2>4, CompareMeaning DEF m
    <3>2. resolve(Key, y, x) = NoOp(Key) /\ resolve(Key, x, y) = Install(Key, [y EXCEPT !.vv = m])
      BY <1>2, <2>1, <2>4, <3>1, Verdict DEF m
    <3> QED BY <1>0, <2>2, <3>1, <3>2 DEF Outcome
  <2>5. CASE Compare(x.vv, y.vv) = "Equal" /\ sameContent(x, y)
    <3>1. Compare(y.vv, x.vv) = "Equal" /\ x.vv = y.vv
      BY <2>1, <2>5, CompareMeaning
    <3>2. sameContent(y, x)
      BY <2>5 DEF sameContent
    <3>3. resolve(Key, x, y) = NoOp(Key) /\ resolve(Key, y, x) = NoOp(Key)
      BY <1>2, <2>5, <3>1, <3>2, Verdict
    <3> QED BY <1>0, <2>2, <2>5, <3>1, <3>3 DEF Outcome, sameContent
  <2>6. CASE Compare(x.vv, y.vv) = "Concurrent" /\ sameContent(x, y)
    <3>1. Compare(y.vv, x.vv) = "Concurrent"
      BY <2>1, <2>6, CompareMeaning
    <3>2. sameContent(y, x)
      BY <2>6 DEF sameContent
    <3>3. /\ resolve(Key, x, y) = Install(Key, [x EXCEPT !.vv = m])
          /\ resolve(Key, y, x) = Install(Key, [y EXCEPT !.vv = m])
      BY <1>2, <2>1, <2>6, <3>1, <3>2, Verdict DEF m
    <3> QED BY <1>0, <2>2, <2>6, <3>3 DEF Outcome, sameContent
  <2>7. CASE Compare(x.vv, y.vv) \in {"Equal", "Concurrent"} /\ ~sameContent(x, y)
    <3>1. Compare(y.vv, x.vv) \in {"Equal", "Concurrent"} /\ ~sameContent(y, x)
      BY <2>1, <2>7, CompareMeaning DEF sameContent
    <3>2. /\ resolve(Key, x, y) = conflictPlan(Key, x, y)
          /\ resolve(Key, y, x) = conflictPlan(Key, y, x)
      BY <1>2, <2>7, <3>1, Verdict
    <3>3. conflictPlan(Key, x, y) = conflictPlan(Key, y, x)
      BY <1>2, <2>1, <2>7, ContentDiffers, ConflictSymmetric
    <3>4. conflictPlan(Key, x, y).kind = "conflict"
      BY DEF conflictPlan, Plan
    <3> QED BY <3>2, <3>3, <3>4 DEF Outcome
  <2> QED BY <2>1, <2>3, <2>4, <2>5, <2>6, <2>7, CompareMeaning
<1> QED BY <1>1, <1>2

\* Of two known leaves, what one side's verdict leaves of a live one: it is in place, in
\* the copy, or causally followed by what is in place.
Survives(z, x, y) ==
    LET r == resolve(Key, x, y)
        l == Outcome(x, y)
    IN  \/ ~Live(z)
        \/ Live(l) /\ l.hash = z.hash
        \/ r.preserve # Absent /\ r.preserve.leaf.hash = z.hash
        \/ l # Absent /\ Compare(l.vv, z.vv) = "Dominates"

LEMMA CopyIsSomething ==
    ASSUME NEW l \in Leaf, NEW w \in Leaf
    PROVE  [path |-> conflictName(Key, l.mtime, loserAuthor(l, w)), leaf |-> l] # Absent
<1>1. loserAuthor(l, w) \in Device \cup {0}
  <2>1. \A S \in SUBSET Device : maxShortID(S) \in Device \cup {0}
    BY MaxExists DEF maxShortID
  <2>2. Ahead(l.vv, w.vv) \in SUBSET Device /\ {i \in Device : l.vv[i] > 0} \in SUBSET Device
    BY DEF Ahead
  <2> QED BY <2>1, <2>2 DEF loserAuthor, authorOf
<1> DEFINE t == <<l.mtime \div Second, loserAuthor(l, w)>>
<1>2. t \in Tag
  BY <1>1 DEF Tag, Leaf
<1> HIDE DEF t
<1>3. Key.name \in Name /\ Key.tags = <<>> /\ Key = [name |-> Key.name, tags |-> <<>>]
  BY ResolverAssumption DEF UserPath
<1>4. Append(<<>>, t) \in Seq(Tag)
  BY <1>2
<1>5. [Key EXCEPT !.tags = Append(Key.tags, t)] \in AnyPath
  BY <1>3, <1>4 DEF AnyPath
<1>6. conflictName(Key, l.mtime, loserAuthor(l, w)) \in AnyPath
  BY <1>5 DEF conflictName, t
<1> QED BY <1>6, AbsentAssumption

LEMMA ConflictSurvives ==
    ASSUME NEW x \in Leaf, NEW y \in Leaf, resolve(Key, x, y) = conflictPlan(Key, x, y)
    PROVE  Survives(x, x, y) /\ Survives(y, x, y)
<1> DEFINE w == winner(x, y)
           l == loserOf(x, y)
           k == [path |-> conflictName(Key, l.mtime, loserAuthor(l, w)), leaf |-> l]
<1>1. {w, l} = {x, y} /\ w \in Leaf /\ l \in Leaf
  BY DEF winner, loserOf
<1>2. Outcome(x, y) = w
  BY DEF Outcome, conflictPlan, Plan
<1>3. resolve(Key, x, y).preserve = IF l.del THEN Absent ELSE k
  BY DEF conflictPlan, Plan
<1>4. k # Absent /\ k.leaf = l
  BY <1>1, CopyIsSomething
<1>5. w # Absent /\ l # Absent
  BY <1>1, AbsentAssumption
<1>6. Survives(w, x, y)
  BY <1>2 DEF Survives
<1> HIDE DEF k
<1>7. Survives(l, x, y)
  BY <1>3, <1>4 DEF Survives, Live
<1> QED BY <1>1, <1>6, <1>7

LEMMA AllSurvive ==
    ASSUME NEW x \in Start, NEW y \in Start
    PROVE  Survives(x, x, y) /\ Survives(y, x, y)
<1>0. /\ NoOp(Key).kind = "noop"
      /\ \A l : Install(Key, l).leaf = l /\ Install(Key, l).kind = "install"
  BY DEF NoOp, Install, Plan
<1>1. CASE x = Absent \/ y = Absent
  BY <1>0, <1>1 DEF resolve, Outcome, Survives, Live
<1>2. CASE x # Absent /\ y # Absent
  <2> DEFINE m == Merge(x.vv, y.vv)
  <2>1. /\ x \in Leaf /\ y \in Leaf /\ x.vv \in VersionVector /\ y.vv \in VersionVector
        /\ m \in VersionVector
    BY <1>2, StartTyped, MergeAhead
  <2>2. /\ [x EXCEPT !.vv = m].hash = x.hash /\ [x EXCEPT !.vv = m].del = x.del
        /\ [y EXCEPT !.vv = m].hash = y.hash /\ [y EXCEPT !.vv = m].del = y.del
        /\ [x EXCEPT !.vv = m] # Absent /\ [y EXCEPT !.vv = m] # Absent
        /\ [y EXCEPT !.vv = m].vv = m
    BY <2>1, Reversioned, AbsentAssumption
  <2> HIDE DEF m
  <2>3. CASE Compare(x.vv, y.vv) = "Dominates"
    <3>1. Outcome(x, y) = x
      BY <1>0, <1>2, <2>3, Verdict DEF Outcome
    <3> QED BY <1>2, <2>3, <3>1 DEF Survives, Live
  <2>4. CASE Compare(x.vv, y.vv) = "DominatedBy"
    <3>1. Outcome(x, y) = [y EXCEPT !.vv = m]
      BY <1>0, <1>2, <2>4, Verdict DEF Outcome, m
    <3>2. m = y.vv /\ Compare(y.vv, x.vv) = "Dominates"
      BY <2>1, <2>4, CompareMeaning DEF m
    <3>3. Survives(x, x, y)
      BY <2>2, <3>1, <3>2 DEF Survives
    <3>4. Survives(y, x, y)
      BY <2>2, <3>1 DEF Survives, Live
    <3> QED BY <3>3, <3>4
  <2>5. CASE Compare(x.vv, y.vv) = "Equal" /\ sameContent(x, y)
    <3>1. Outcome(x, y) = x
      BY <1>0, <1>2, <2>5, Verdict DEF Outcome
    <3> QED BY <1>2, <2>5, <3>1 DEF Survives, Live, sameContent
  <2>6. CASE Compare(x.vv, y.vv) = "Concurrent" /\ sameContent(x, y)
    <3>1. Outcome(x, y) = [x EXCEPT !.vv = m]
      BY <1>0, <1>2, <2>6, Verdict DEF Outcome, m
    <3> QED BY <2>2, <2>6, <3>1 DEF Survives, Live, sameContent
  <2>7. CASE Compare(x.vv, y.vv) \in {"Equal", "Concurrent"} /\ ~sameContent(x, y)
    <3>1. resolve(Key, x, y) = conflictPlan(Key, x, y)
      BY <1>2, <2>7, Verdict
    <3> QED BY <2>1, <3>1, ConflictSurvives
  <2> QED BY <2>1, <2>3, <2>4, <2>5, <2>6, <2>7, CompareMeaning
<1> QED BY <1>1, <1>2

-----------------------------------------------------------------------------
(* The two sides. *)

\* Each side has either not resolved yet or has carried out the verdict on the leaf it
\* started with and the leaf it was told.
Verdicts ==
    /\ told \in [Side -> Start] /\ done \in SUBSET Side
    /\ leaf \in [Side -> {leaf[s] : s \in Side}] /\ copy \in [Side -> {copy[s] : s \in Side}]
    /\ \A s \in Side :
          IF s \in done
          THEN /\ leaf[s] = Outcome(Started(s), told[s])
               /\ copy[s] = resolve(Key, Started(s), told[s]).preserve
          ELSE leaf[s] = Started(s) /\ copy[s] = Absent

LEMMA OtherSide == \A s \in Side : Other(s) \in Side /\ Other(Other(s)) = s /\ Other(s) # s
BY DEF Other, Side

THEOREM VerdictsInv == Spec => []Verdicts
<1>1. Init => Verdicts
  BY OtherSide DEF Init, Verdicts, Started
<1>2. Verdicts /\ [Next]_vars => Verdicts'
  <2> SUFFICES ASSUME Verdicts, [Next]_vars PROVE Verdicts'
    OBVIOUS
  <2>1. ASSUME NEW s \in Side, Resolve(s) PROVE Verdicts'
    <3>1. /\ leaf' = [leaf EXCEPT ![s] = Outcome(leaf[s], told[s])]
          /\ copy' = [copy EXCEPT ![s] = resolve(Key, leaf[s], told[s]).preserve]
          /\ done' = done \cup {s} /\ told' = told /\ s \notin done
      BY <2>1 DEF Resolve
    <3>2. leaf[s] = Started(s) /\ \A e \in Side : Started(e)' = Started(e)
      BY <3>1 DEF Verdicts, Started
    <3>3. /\ leaf'[s] = Outcome(Started(s), told[s])
          /\ copy'[s] = resolve(Key, Started(s), told[s]).preserve
          /\ \A e \in Side \ {s} : leaf'[e] = leaf[e] /\ copy'[e] = copy[e]
      BY <3>1, <3>2 DEF Verdicts
    <3>4. /\ leaf' \in [Side -> {leaf'[e] : e \in Side}]
          /\ copy' \in [Side -> {copy'[e] : e \in Side}]
      BY <3>1 DEF Verdicts
    <3>5. \A e \in Side :
             IF e \in done'
             THEN /\ leaf'[e] = Outcome(Started(e), told[e])
                  /\ copy'[e] = resolve(Key, Started(e), told[e]).preserve
             ELSE leaf'[e] = Started(e) /\ copy'[e] = Absent
      BY <3>1, <3>3 DEF Verdicts
    <3> QED BY <3>1, <3>2, <3>4, <3>5 DEF Verdicts
  <2>2. CASE UNCHANGED vars
    BY <2>2 DEF vars, Verdicts, Started
  <2> QED BY <2>1, <2>2 DEF Next
<1> QED BY <1>1, <1>2, PTL DEF Spec

\* SameVerdict for every set of devices, contents, times and counters: the resolver needs
\* no coordination, both sides reach the same leaf and the same conflict copy (SR-5, SR-7).
THEOREM ResolverSymmetric == Spec => []SameVerdict
<1>1. Verdicts => SameVerdict
  <2> SUFFICES ASSUME Verdicts, done = Side,
                      \A s \in Side : ~UnknownTombstone(Started(s), told[s])
               PROVE  Structure(leaf["a"]) = Structure(leaf["b"]) /\ copy["a"] = copy["b"]
    BY DEF SameVerdict
  <2> DEFINE x == told["b"]
             y == told["a"]
  <2>1. "a" \in Side /\ "b" \in Side /\ Started("a") = x /\ Started("b") = y
    BY DEF Side, Started, Other
  <2>2. x \in Start /\ y \in Start
    BY <2>1 DEF Verdicts
  <2>3. ~UnknownTombstone(x, y) /\ ~UnknownTombstone(y, x)
    BY <2>1
  <2>4. /\ leaf["a"] = Outcome(x, y) /\ copy["a"] = resolve(Key, x, y).preserve
        /\ leaf["b"] = Outcome(y, x) /\ copy["b"] = resolve(Key, y, x).preserve
    BY <2>1 DEF Verdicts
  <2> HIDE DEF x, y
  <2> QED BY <2>2, <2>3, <2>4, Symmetric
<1> QED BY <1>1, VerdictsInv, PTL

\* NothingDropped for every set of devices, contents, times and counters: no verdict gives
\* up a live version unless a causally later one takes its place (SR-7).
THEOREM ResolverDropsNothing == Spec => []NothingDropped
<1>1. Verdicts => NothingDropped
  <2> SUFFICES ASSUME Verdicts, NEW s \in done, NEW z \in {Started(s), told[s]}
               PROVE  \/ ~Live(z)
                      \/ Live(leaf[s]) /\ leaf[s].hash = z.hash
                      \/ copy[s] # Absent /\ copy[s].leaf.hash = z.hash
                      \/ leaf[s] # Absent /\ Compare(leaf[s].vv, z.vv) = "Dominates"
    BY DEF NothingDropped
  <2>1. s \in Side /\ Started(s) \in Start /\ told[s] \in Start
    BY OtherSide DEF Verdicts, Started
  <2>2. leaf[s] = Outcome(Started(s), told[s])
        /\ copy[s] = resolve(Key, Started(s), told[s]).preserve
    BY <2>1 DEF Verdicts
  <2>3. Survives(z, Started(s), told[s])
    BY <2>1, AllSurvive
  <2> QED BY <2>2, <2>3 DEF Survives
<1> QED BY <1>1, VerdictsInv, PTL
=============================================================================
