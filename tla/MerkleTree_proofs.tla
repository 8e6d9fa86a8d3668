------------------------- MODULE MerkleTree_proofs --------------------------
(***************************************************************************)
(* The tree that BuildTree makes of a set of leaves, whatever the order;   *)
(* that Update makes the same tree; that equal hashes mean equal subtrees, *)
(* so that the pruned walk finds every difference; that installing what    *)
(* the diff does not refuse as a clash keeps a tree.                       *)
(***************************************************************************)
EXTENDS MerkleTree, FiniteSetTheorems, SequenceTheorems, WellFoundedInduction, TLAPS

-----------------------------------------------------------------------------
(* Paths and the directories on the way to them. *)

\* A directory on the way to p is a proper prefix of p.
LEMMA DirsArePrefixes ==
    ASSUME NEW p \in Seq(Name), NEW n
    PROVE  n \in Dirs(p) <=> /\ n \in Seq(Name) /\ Len(n) < Len(p)
                             /\ \A i \in 1 .. Len(n) : n[i] = p[i]
<1>1. \A k \in 0 .. Len(p) - 1 : /\ SubSeq(p, 1, k) \in Seq(Name) /\ Len(SubSeq(p, 1, k)) = k
                                 /\ \A i \in 1 .. k : SubSeq(p, 1, k)[i] = p[i]
  OBVIOUS
<1>2. ASSUME n \in Dirs(p)
      PROVE  n \in Seq(Name) /\ Len(n) < Len(p) /\ \A i \in 1 .. Len(n) : n[i] = p[i]
  <2>1. PICK k \in 0 .. Len(p) - 1 : n = SubSeq(p, 1, k)
    BY <1>2 DEF Dirs
  <2>2. n \in Seq(Name) /\ Len(n) = k /\ \A i \in 1 .. k : n[i] = p[i]
    BY <1>1, <2>1
  <2>3. k < Len(p)
    OBVIOUS
  <2> QED BY <2>2, <2>3
<1>3. ASSUME n \in Seq(Name), Len(n) < Len(p), \A i \in 1 .. Len(n) : n[i] = p[i]
      PROVE  n \in Dirs(p)
  <2> DEFINE k == Len(n)
             s == SubSeq(p, 1, k)
  <2>1. k \in 0 .. Len(p) - 1
    BY <1>3
  <2>2. s \in Seq(Name) /\ Len(s) = k /\ \A i \in 1 .. k : s[i] = p[i]
    BY <1>1, <2>1
  <2> HIDE DEF s
  <2>3. n = s
    BY <1>3, <2>2, SeqEqual
  <2> QED BY <2>1, <2>3 DEF Dirs, s
<1> QED BY <1>2, <1>3

\* Directories are of finite length and have names for components.
LEMMA DirsAreNodes ==
    ASSUME NEW p \in Seq(Name), NEW n \in Dirs(p)
    PROVE  n \in Seq(Name) /\ Len(n) \in Nat /\ Len(p) \in Nat /\ Len(n) < Len(p)
  BY DirsArePrefixes

\* The directories of a directory on the way are on the way.
LEMMA DirsTransitive ==
    ASSUME NEW p \in Seq(Name), NEW n \in Dirs(p), NEW a \in Dirs(n)
    PROVE  a \in Dirs(p)
<1>1. /\ n \in Seq(Name) /\ Len(n) < Len(p) /\ Len(n) \in Nat /\ Len(p) \in Nat
      /\ \A i \in 1 .. Len(n) : n[i] = p[i]
  BY DirsArePrefixes
<1>2. a \in Seq(Name) /\ Len(a) < Len(n) /\ Len(a) \in Nat /\ \A i \in 1 .. Len(a) : a[i] = n[i]
  BY <1>1, DirsArePrefixes
<1>3. Len(a) < Len(p) /\ \A i \in 1 .. Len(a) : a[i] = p[i]
  BY <1>1, <1>2
<1> QED BY <1>2, <1>3, DirsArePrefixes

\* No path is below itself.
LEMMA NotBelowItself ==
    ASSUME NEW p \in Seq(Name)
    PROVE  p \notin Dirs(p)
  BY DirsArePrefixes

\* Of two directories on the way to p, the shorter is on the way to the longer.
LEMMA DirsOnOneLine ==
    ASSUME NEW p \in Seq(Name), NEW a \in Dirs(p), NEW b \in Dirs(p)
    PROVE  a = b \/ a \in Dirs(b) \/ b \in Dirs(a)
<1>1. /\ a \in Seq(Name) /\ Len(a) < Len(p) /\ Len(a) \in Nat /\ \A i \in 1 .. Len(a) : a[i] = p[i]
      /\ b \in Seq(Name) /\ Len(b) < Len(p) /\ Len(b) \in Nat /\ \A i \in 1 .. Len(b) : b[i] = p[i]
  BY DirsArePrefixes
<1>2. CASE Len(a) < Len(b)
  <2>1. \A i \in 1 .. Len(a) : a[i] = b[i]
    BY <1>1, <1>2
  <2> QED BY <1>1, <1>2, <2>1, DirsArePrefixes
<1>3. CASE Len(b) < Len(a)
  <2>1. \A i \in 1 .. Len(b) : b[i] = a[i]
    BY <1>1, <1>3
  <2> QED BY <1>1, <1>3, <2>1, DirsArePrefixes
<1>4. CASE Len(a) = Len(b)
  <2>1. \A i \in 1 .. Len(a) : a[i] = b[i]
    BY <1>1, <1>4
  <2> QED BY <1>1, <1>4, <2>1, SeqEqual
<1> QED BY <1>1, <1>2, <1>3, <1>4

\* The root is on the way to everything else and nothing is on the way to it.
LEMMA RootIsAbove ==
    /\ <<>> \in Seq(Name) /\ Dirs(<<>>) = {}
    /\ \A p \in Seq(Name) : p # <<>> => <<>> \in Dirs(p)
<1>1. <<>> \in Seq(Name) /\ Len(<<>>) = 0
  OBVIOUS
<1>2. Dirs(<<>>) = {}
  <2>1. 0 .. Len(<<>>) - 1 = {}
    OBVIOUS
  <2> QED BY <2>1 DEF Dirs
<1>3. ASSUME NEW p \in Seq(Name), p # <<>> PROVE <<>> \in Dirs(p)
  <2>1. 0 \in 0 .. Len(p) - 1
    BY <1>3
  <2>2. SubSeq(p, 1, 0) = <<>>
    BY SubSeqEmpty
  <2> QED BY <2>1, <2>2 DEF Dirs
<1> QED BY <1>1, <1>2, <1>3

\* On the way to a child of n are n and what is on the way to n.
LEMMA ChildOf ==
    ASSUME NEW n \in Seq(Name), NEW m \in Name
    PROVE  /\ Append(n, m) \in Seq(Name) /\ Len(Append(n, m)) = Len(n) + 1
           /\ Append(n, m) # <<>> /\ Append(n, m)[Len(n) + 1] = m
           /\ Dirs(Append(n, m)) = Dirs(n) \cup {n}
<1> DEFINE c == Append(n, m)
<1>1. /\ c \in Seq(Name) /\ Len(c) = Len(n) + 1 /\ Len(n) \in Nat /\ c[Len(n) + 1] = m /\ c # <<>>
      /\ \A i \in 1 .. Len(n) : c[i] = n[i]
  OBVIOUS
<1> HIDE DEF c
<1>2. n \in Dirs(c)
  BY <1>1, DirsArePrefixes
<1>3. \A a \in Dirs(n) : a \in Dirs(c)
  BY <1>1, <1>2, DirsTransitive
<1>4. ASSUME NEW a \in Dirs(c) PROVE a \in Dirs(n) \/ a = n
  <2>1. a \in Seq(Name) /\ Len(a) < Len(c) /\ Len(a) \in Nat /\ \A i \in 1 .. Len(a) : a[i] = c[i]
    BY <1>1, DirsArePrefixes
  <2>2. \A i \in 1 .. Len(a) : a[i] = n[i]
    BY <1>1, <2>1
  <2>3. CASE Len(a) < Len(n)
    BY <2>1, <2>2, <2>3, DirsArePrefixes
  <2>4. CASE Len(a) = Len(n)
    BY <2>1, <2>2, <2>4, SeqEqual
  <2> QED BY <1>1, <2>1, <2>3, <2>4
<1>5. Dirs(c) = Dirs(n) \cup {n}
  BY <1>2, <1>3, <1>4
<1> QED BY <1>1, <1>5 DEF c

\* Every path but the root is a child of its directory.
LEMMA IsChild ==
    ASSUME NEW x \in Seq(Name), x # <<>>
    PROVE  \E n \in Seq(Name), m \in Name : x = Append(n, m)
<1> DEFINE n == SubSeq(x, 1, Len(x) - 1)
           m == x[Len(x)]
<1>1. Len(x) \in Nat /\ Len(x) > 0
  OBVIOUS
<1>2. m \in Name
  BY <1>1
<1>3. n \in Seq(Name) /\ Len(n) = Len(x) - 1 /\ \A i \in 1 .. Len(x) - 1 : n[i] = x[i]
  <2>1. \A k \in 0 .. Len(x) - 1 : /\ SubSeq(x, 1, k) \in Seq(Name) /\ Len(SubSeq(x, 1, k)) = k
                                   /\ \A i \in 1 .. k : SubSeq(x, 1, k)[i] = x[i]
    OBVIOUS
  <2>2. Len(x) - 1 \in 0 .. Len(x) - 1
    BY <1>1
  <2> QED BY <2>1, <2>2, Zenon
<1> HIDE DEF n, m
<1>4. /\ Append(n, m) \in Seq(Name) /\ Len(Append(n, m)) = Len(x)
      /\ \A i \in 1 .. Len(n) : Append(n, m)[i] = n[i]
      /\ Append(n, m)[Len(n) + 1] = m
  BY <1>1, <1>2, <1>3
<1>5. ASSUME NEW i \in 1 .. Len(x) PROVE Append(n, m)[i] = x[i]
  <2>1. CASE i = Len(x)
    <3>1. Append(n, m)[i] = m
      BY <1>1, <1>3, <1>4, <2>1
    <3> QED BY <2>1, <3>1 DEF m
  <2>2. CASE i \in 1 .. Len(x) - 1
    <3>1. i \in 1 .. Len(n)
      BY <1>3, <2>2
    <3> QED BY <1>3, <1>4, <2>2, <3>1, Zenon
  <2> QED
    <3>1. i = Len(x) \/ i \in 1 .. Len(x) - 1
      BY <1>1
    <3> QED BY <2>1, <2>2, <3>1
<1>6. x = Append(n, m)
  BY <1>4, <1>5, SeqEqual
<1> QED BY <1>2, <1>3, <1>6

\* From a directory on the way to p one child leads on to p.
LEMMA OneLeadsOn ==
    ASSUME NEW p \in Seq(Name), NEW n \in Dirs(p)
    PROVE  /\ p[Len(n) + 1] \in Name
           /\ \A m \in Name : Append(n, m) \in Dirs(p) \cup {p} <=> m = p[Len(n) + 1]
<1>1. /\ n \in Seq(Name) /\ Len(n) < Len(p) /\ Len(n) \in Nat /\ Len(p) \in Nat
      /\ \A i \in 1 .. Len(n) : n[i] = p[i]
  BY DirsArePrefixes
<1>2. p[Len(n) + 1] \in Name
  BY <1>1
<1>3. ASSUME NEW m \in Name PROVE Append(n, m) \in Dirs(p) \cup {p} <=> m = p[Len(n) + 1]
  <2> DEFINE c == Append(n, m)
  <2>1. /\ c \in Seq(Name) /\ Len(c) = Len(n) + 1 /\ c[Len(n) + 1] = m
        /\ \A i \in 1 .. Len(n) : c[i] = n[i]
    BY <1>1
  <2> HIDE DEF c
  <2>2. ASSUME c \in Dirs(p) \cup {p} PROVE m = p[Len(n) + 1]
    <3>1. \A i \in 1 .. Len(c) : c[i] = p[i]
      BY <2>2, <2>1, DirsArePrefixes
    <3> QED BY <1>1, <2>1, <3>1
  <2>3. ASSUME m = p[Len(n) + 1] PROVE c \in Dirs(p) \cup {p}
    <3>1. \A i \in 1 .. Len(c) : c[i] = p[i]
      BY <1>1, <2>1, <2>3
    <3>2. CASE Len(c) < Len(p)
      BY <2>1, <3>1, <3>2, DirsArePrefixes
    <3>3. CASE Len(c) = Len(p)
      BY <2>1, <3>1, <3>3, SeqEqual
    <3> QED BY <1>1, <2>1, <3>2, <3>3
  <2> QED BY <2>2, <2>3 DEF c
<1> QED BY <1>2, <1>3

-----------------------------------------------------------------------------
(* Induction and finiteness. *)

LEMMA LeastNumber ==
    ASSUME NEW S \in SUBSET Nat, S # {}
    PROVE  \E x \in S : \A y \in S : x <= y
<1> DEFINE R == OpToRel(<, Nat)
<1>1. IsWellFoundedOn(R, Nat)
  BY NatLessThanWellFounded
<1>2. \A x, y \in Nat : y < x => <<y, x>> \in R
  BY DEF OpToRel
<1> HIDE DEF R
<1>3. PICK x \in S : \A y \in S : ~(<<y, x>> \in R)
  BY <1>1, WFMin
<1>4. \A y \in S : ~(y < x)
  BY <1>2, <1>3
<1> QED BY <1>4

\* A set of numbers with 0 and with each successor of a member has all numbers.
LEMMA NumbersByInduction ==
    ASSUME NEW S, 0 \in S, \A k \in Nat : k \in S => k + 1 \in S
    PROVE  \A k \in Nat : k \in S
<1> DEFINE C == {k \in Nat : k \notin S}
<1> SUFFICES ASSUME C # {} PROVE FALSE
  OBVIOUS
<1>1. PICK x \in C : \A y \in C : x <= y
  BY LeastNumber
<1>2. x \in Nat /\ x # 0
  OBVIOUS
<1>3. x - 1 \in Nat /\ x - 1 \in S
  BY <1>1, <1>2
<1>4. x \in S
  BY <1>2, <1>3
<1> QED BY <1>4

\* Paths have a bounded number of components, because they are finitely many.
LEMMA PathsAreBounded == \E M \in Nat : \A p \in Path : Len(p) < M
<1>1. PICK n \in Nat : ExistsSurjection(1 .. n, Path)
  BY TreeAssumption, FS_NatSurjection
<1>2. PICK f : f \in [1 .. n -> Path] /\ \A p \in Path : \E i \in 1 .. n : f[i] = p
  BY <1>1 DEF ExistsSurjection, Surjection
<1> DEFINE S == {k \in Nat : \E M \in Nat : \A i \in 1 .. n : i <= k => Len(f[i]) < M}
<1>3. \A i \in 1 .. n : Len(f[i]) \in Nat
  BY <1>2, TreeAssumption
<1>4. 0 \in S
  <2>1. \A i \in 1 .. n : i <= 0 => Len(f[i]) < 0
    OBVIOUS
  <2> QED BY <2>1
<1>5. ASSUME NEW k \in Nat, k \in S PROVE k + 1 \in S
  <2>1. PICK M \in Nat : \A i \in 1 .. n : i <= k => Len(f[i]) < M
    BY <1>5
  <2> DEFINE Bounded == \E N \in Nat : \A i \in 1 .. n : i <= k + 1 => Len(f[i]) < N
  <2>2. ASSUME k + 1 \in 1 .. n PROVE Bounded
    <3> DEFINE L == Len(f[k + 1])
    <3>1. L \in Nat
      BY <1>3, <2>2
    <3> HIDE DEF L
    <3>2. M + L + 1 \in Nat
      BY <3>1
    <3>3. ASSUME NEW i \in 1 .. n, i <= k + 1 PROVE Len(f[i]) < M + L + 1
      <4>1. CASE i <= k
        <5>1. Len(f[i]) < M /\ Len(f[i]) \in Nat
          BY <1>3, <2>1, <4>1
        <5> QED BY <3>1, <5>1
      <4>2. CASE i = k + 1
        <5>1. Len(f[i]) = L
          BY <4>2 DEF L
        <5> QED BY <3>1, <5>1
      <4> QED BY <3>3, <4>1, <4>2
    <3> QED BY <3>2, <3>3, Zenon
  <2>3. ASSUME k + 1 \notin 1 .. n PROVE Bounded
    <3>1. \A i \in 1 .. n : i <= k + 1 => i <= k
      BY <2>3
    <3> QED BY <2>1, <3>1, Zenon
  <2> QED
    <3>1. k + 1 \in Nat
      OBVIOUS
    <3> QED BY <2>2, <2>3, <3>1
<1> HIDE DEF S
<1>6. n \in S
  BY <1>4, <1>5, NumbersByInduction
<1>7. PICK M \in Nat : \A i \in 1 .. n : i <= n => Len(f[i]) < M
  BY <1>6 DEF S
<1>8. \A p \in Path : Len(p) < M
  BY <1>2, <1>7
<1> QED BY <1>8

\* An order of a finite set enumerates all of it; there is one.
LEMMA OrdersEnumerate ==
    ASSUME NEW S \in SUBSET Path
    PROVE  /\ Cardinality(S) \in Nat
           /\ SetToSeq(S) \in SetToSeqs(S)
           /\ \A s \in SetToSeqs(S) :
                 /\ s \in [1 .. Cardinality(S) -> S] /\ Len(s) = Cardinality(S)
                 /\ \A i, j \in 1 .. Cardinality(S) : s[i] = s[j] => i = j
                 /\ \A p \in S : \E i \in 1 .. Cardinality(S) : s[i] = p
<1> DEFINE n == Cardinality(S)
<1>1. IsFiniteSet(S)
  BY TreeAssumption, FS_Subset
<1>2. n \in Nat /\ IsFiniteSet(1 .. n) /\ Cardinality(1 .. n) = n
  <2>1. n \in Nat
    BY <1>1, FS_CardinalityType
  <2> QED BY <2>1, FS_Interval
<1>3. PICK b : b \in [1 .. n -> S] /\ IsInjective(b)
  <2>1. PICK k \in Nat : ExistsBijection(1 .. k, S)
    BY <1>1, FS_NatBijection
  <2>2. k = n
    BY <2>1, FS_CountingElements
  <2> QED BY <2>1, <2>2 DEF ExistsBijection, Bijection, Injection
<1>4. SetToSeq(S) \in [1 .. n -> S] /\ IsInjective(SetToSeq(S))
  BY <1>3 DEF SetToSeq
<1> HIDE DEF n
<1>5. SetToSeqs(S) = {f \in [1 .. n -> S] : \A i, j \in 1 .. n : i # j => f[i] # f[j]}
  BY DEF SetToSeqs, n
<1>6. SetToSeq(S) \in SetToSeqs(S)
  BY <1>4, <1>5 DEF IsInjective
<1>7. ASSUME NEW s \in SetToSeqs(S)
      PROVE  /\ s \in [1 .. n -> S] /\ Len(s) = n
             /\ \A i, j \in 1 .. n : s[i] = s[j] => i = j
             /\ \A p \in S : \E i \in 1 .. n : s[i] = p
  <2>1. s \in [1 .. n -> S] /\ \A i, j \in 1 .. n : s[i] = s[j] => i = j
    BY <1>5
  <2>2. Len(s) = n
    BY <1>2, <2>1, LenProperties
  <2>3. s \in Injection(1 .. n, S)
    BY <2>1 DEF Injection, IsInjective
  <2>4. s \in Surjection(1 .. n, S)
    BY <1>1, <1>2, <2>3, FS_Injection DEF n
  <2>5. \A p \in S : \E i \in 1 .. n : s[i] = p
    BY <2>4 DEF Surjection
  <2> QED BY <2>1, <2>2, <2>5
<1> QED BY <1>2, <1>6, <1>7 DEF n

-----------------------------------------------------------------------------
(* Hashes. *)

\* What rehash computes for n from the hashes h of its children.
HashIn(t, n, h) ==
    IF t[n].isDir THEN hashFromChildren([m \in Names(t, n) |-> h[Append(n, m)]])
    ELSE leafHash(t[n].leaf)

\* Every node caches the hash of its leaf or of the cached hashes of its children.
Hashed(t) ==
    \A n \in DOMAIN t :
        t[n].hash = IF t[n].isDir
                    THEN hashFromChildren([m \in Names(t, n) |-> t[Append(n, m)].hash])
                    ELSE leafHash(t[n].leaf)

\* The nodes of t are paths of at most M components.
Bounded(t, M) == \A n \in DOMAIN t : n \in Seq(Name) /\ Len(n) \in Nat /\ Len(n) < M

\* rehash has something to compute: the equation it solves has a solution, found from the
\* deepest nodes upwards.
LEMMA HashesExist ==
    ASSUME NEW t, NEW M \in Nat, Bounded(t, M)
    PROVE  \E h : h = [n \in DOMAIN t |-> HashIn(t, n, h)]
<1> DEFINE Deep(k) == {n \in DOMAIN t : Len(n) + k >= M}
           Solved(k) == \E h : h = [n \in Deep(k) |-> HashIn(t, n, h)]
           S == {k \in Nat : Solved(k)}
<1>1. 0 \in S
  <2>1. Deep(0) = {}
    BY DEF Bounded
  <2> DEFINE h == [n \in {} |-> HashIn(t, n, t)]
  <2>2. h = [n \in Deep(0) |-> HashIn(t, n, h)]
    BY <2>1
  <2> HIDE DEF h
  <2>3. Solved(0)
    BY <2>2
  <2> QED BY <2>3
<1>2. ASSUME NEW k \in Nat, k \in S PROVE k + 1 \in S
  <2>1. PICK h : h = [n \in Deep(k) |-> HashIn(t, n, h)]
    BY <1>2
  <2> DEFINE g == [n \in Deep(k + 1) |-> IF n \in Deep(k) THEN h[n] ELSE HashIn(t, n, h)]
  <2>2. ASSUME NEW n \in Deep(k + 1) PROVE HashIn(t, n, g) = HashIn(t, n, h)
    <3>1. ASSUME NEW m \in Names(t, n) PROVE g[Append(n, m)] = h[Append(n, m)]
      <4>1. Append(n, m) \in DOMAIN t /\ m \in Name /\ n \in Seq(Name)
        BY DEF Names, Bounded
      <4>2. Len(Append(n, m)) = Len(n) + 1 /\ Len(n) \in Nat
        BY <4>1
      <4>3. Append(n, m) \in Deep(k) /\ Append(n, m) \in Deep(k + 1)
        BY <4>1, <4>2
      <4> QED BY <4>3
    <3>2. [m \in Names(t, n) |-> g[Append(n, m)]] = [m \in Names(t, n) |-> h[Append(n, m)]]
      BY <3>1
    <3> QED BY <3>2 DEF HashIn
  <2>3. ASSUME NEW n \in Deep(k + 1) PROVE g[n] = HashIn(t, n, g)
    <3>1. CASE n \in Deep(k)
      <4>1. g[n] = h[n] /\ h[n] = HashIn(t, n, h)
        BY <2>1, <3>1
      <4> QED BY <2>2, <4>1
    <3>2. CASE n \notin Deep(k)
      BY <2>2, <3>2
    <3> QED BY <3>1, <3>2
  <2>4. g = [n \in Deep(k + 1) |-> HashIn(t, n, g)]
    BY <2>3
  <2> HIDE DEF g
  <2>5. Solved(k + 1)
    BY <2>4
  <2>6. k + 1 \in Nat
    OBVIOUS
  <2> HIDE DEF Solved
  <2> QED BY <2>5, <2>6
<1>3. Solved(M)
  <2> HIDE DEF Solved
  <2> HIDE DEF S
  <2>1. M \in S
    BY <1>1, <1>2, NumbersByInduction
  <2> QED BY <2>1 DEF S
<1>4. Deep(M) = DOMAIN t
  BY DEF Bounded
<1> QED BY <1>3, <1>4

\* rehash keeps the nodes and gives every one its hash.
LEMMA RehashHashes ==
    ASSUME NEW t, NEW M \in Nat, Bounded(t, M),
           \A n \in DOMAIN t : t[n] = Node(t[n].isDir, t[n].leaf, t[n].hash)
    PROVE  /\ DOMAIN rehash(t) = DOMAIN t
           /\ rehash(t) = [n \in DOMAIN t |-> Node(t[n].isDir, t[n].leaf, rehash(t)[n].hash)]
           /\ Hashed(rehash(t))
<1> DEFINE h == CHOOSE g : g = [n \in DOMAIN t |-> HashIn(t, n, g)]
           r == rehash(t)
<1>1. h = [n \in DOMAIN t |-> HashIn(t, n, h)]
  BY HashesExist
<1>2. r = [n \in DOMAIN t |-> [t[n] EXCEPT !.hash = h[n]]]
  BY DEF rehash, HashIn
<1> HIDE DEF h, r
<1>3. ASSUME NEW n \in DOMAIN t PROVE r[n] = Node(t[n].isDir, t[n].leaf, h[n])
  BY <1>2 DEF Node
<1>4. DOMAIN r = DOMAIN t /\ \A n \in DOMAIN t : r[n].hash = h[n] /\ r[n].isDir = t[n].isDir /\ r[n].leaf = t[n].leaf
  BY <1>2, <1>3 DEF Node
<1>5. r = [n \in DOMAIN t |-> Node(t[n].isDir, t[n].leaf, r[n].hash)]
  BY <1>2, <1>3, <1>4
<1>6. ASSUME NEW n \in DOMAIN r
      PROVE  r[n].hash = IF r[n].isDir
                         THEN hashFromChildren([m \in Names(r, n) |-> r[Append(n, m)].hash])
                         ELSE leafHash(r[n].leaf)
  <2>1. Names(r, n) = Names(t, n)
    BY <1>4 DEF Names
  <2>2. \A m \in Names(t, n) : r[Append(n, m)].hash = h[Append(n, m)]
    BY <1>4 DEF Names
  <2>3. [m \in Names(r, n) |-> r[Append(n, m)].hash] = [m \in Names(t, n) |-> h[Append(n, m)]]
    BY <2>1, <2>2
  <2>4. r[n].hash = HashIn(t, n, h)
    BY <1>1, <1>4
  <2> QED BY <1>4, <2>3, <2>4 DEF HashIn
<1> QED BY <1>4, <1>5, <1>6 DEF Hashed, r

\* The hash of a node depends only on the nodes below it: two trees that agree on a set of
\* nodes with all that is below them agree on their hashes.
LEMMA HashesAreLocal ==
    ASSUME NEW t, NEW u, NEW M \in Nat, Bounded(t, M), Hashed(t), Hashed(u),
           NEW D, D \subseteq DOMAIN t \cap DOMAIN u,
           \A n \in D : /\ t[n].isDir = u[n].isDir /\ t[n].leaf = u[n].leaf
                        /\ Names(t, n) = Names(u, n)
                        /\ \A m \in Names(t, n) : Append(n, m) \in D
    PROVE  \A n \in D : t[n].hash = u[n].hash
<1> DEFINE S == {k \in Nat : \A n \in D : Len(n) + k >= M => t[n].hash = u[n].hash}
<1>1. 0 \in S
  BY DEF Bounded
<1>2. ASSUME NEW k \in Nat, k \in S PROVE k + 1 \in S
  <2>1. ASSUME NEW n \in D, Len(n) + (k + 1) >= M PROVE t[n].hash = u[n].hash
    <3>1. ASSUME NEW m \in Names(t, n) PROVE t[Append(n, m)].hash = u[Append(n, m)].hash
      <4>1. Append(n, m) \in D /\ m \in Name /\ n \in Seq(Name) /\ Len(n) \in Nat
        BY DEF Names, Bounded
      <4>2. Len(Append(n, m)) = Len(n) + 1
        BY <4>1
      <4>3. Len(Append(n, m)) + k >= M
        BY <2>1, <4>1, <4>2
      <4> QED BY <1>2, <4>1, <4>3
    <3>2. [m \in Names(t, n) |-> t[Append(n, m)].hash] = [m \in Names(u, n) |-> u[Append(n, m)].hash]
      BY <3>1
    <3>3. n \in DOMAIN t /\ n \in DOMAIN u /\ t[n].isDir = u[n].isDir /\ t[n].leaf = u[n].leaf
      OBVIOUS
    <3> QED BY <3>2, <3>3 DEF Hashed
  <2>2. k + 1 \in Nat
    OBVIOUS
  <2> QED BY <2>1, <2>2
<1>3. M \in S
  <2> HIDE DEF S
  <2> QED BY <1>1, <1>2, NumbersByInduction
<1>4. \A n \in D : Len(n) + M >= M
  BY DEF Bounded
<1> QED BY <1>3, <1>4

-----------------------------------------------------------------------------
(* The tree of a set of leaves. *)

\* The nodes that the leaves at P need.
NodesOf(P) == {<<>>} \cup P \cup UNION {Dirs(p) : p \in P}

\* No path of P is a directory of another one.
Fitting(P) == \A p, q \in P : ~Below(p, q)

\* The tree of the leaves of f at P, not hashed yet.
Skeleton(f, P) ==
    [n \in NodesOf(P) |-> IF n \in P THEN Node(FALSE, f[n], Absent) ELSE EmptyDir]
Placed(f, P) == IF Fitting(P) THEN Skeleton(f, P) ELSE NilTree

\* The tree of the leaves of f.
TreeOf(f) == rehash(Placed(f, Recorded(f)))

LEMMA PathsAreSequences == \A p \in Path : p \in Seq(Name) /\ p # <<>> /\ <<>> \in Dirs(p)
  BY TreeAssumption, RootIsAbove

\* Nodes are sequences of names, and what is on the way to a node is a node.
LEMMA NodesAreClosed ==
    ASSUME NEW P \in SUBSET Path, NEW n \in NodesOf(P)
    PROVE  n \in Seq(Name) /\ Dirs(n) \subseteq NodesOf(P)
<1>1. CASE n = <<>>
  BY <1>1, RootIsAbove
<1>2. CASE n \in P
  BY <1>2, PathsAreSequences DEF NodesOf
<1>3. ASSUME NEW p \in P, n \in Dirs(p) PROVE n \in Seq(Name) /\ Dirs(n) \subseteq NodesOf(P)
  <2>1. p \in Seq(Name)
    BY PathsAreSequences
  <2>2. n \in Seq(Name)
    BY <1>3, <2>1, DirsAreNodes
  <2>3. \A a \in Dirs(n) : a \in Dirs(p)
    BY <1>3, <2>1, DirsTransitive
  <2> QED BY <2>2, <2>3 DEF NodesOf
<1> QED BY <1>1, <1>2, <1>3 DEF NodesOf

\* place adds a leaf to the tree of the leaves before it, or finds that it does not fit.
LEMMA PlaceAdds ==
    ASSUME NEW f, NEW P \in SUBSET Path, NEW p \in Path, p \notin P
    PROVE  place(Placed(f, P), p, f[p]) = Placed(f, P \cup {p})
<1> DEFINE t == Skeleton(f, P)
           Q == P \cup {p}
<1>1. p \in Seq(Name) /\ p # <<>> /\ p \notin Dirs(p)
  BY PathsAreSequences, NotBelowItself
<1>2. CASE ~Fitting(P)
  <2>1. ~Fitting(Q)
    BY <1>2 DEF Fitting
  <2> QED BY <1>2, <2>1 DEF Placed, place
<1>3. CASE Fitting(P)
  <2>1. DOMAIN t = NodesOf(P) /\ <<>> \in DOMAIN t
    BY DEF Skeleton, NodesOf
  <2>2. t # NilTree
    <3>1. DOMAIN NilTree = {}
      BY DEF NilTree
    <3> QED BY <2>1, <3>1
  <2>3. p \in DOMAIN t <=> \E q \in P : Below(p, q)
    BY <1>1, <2>1 DEF NodesOf, Below
  <2>4. \A n \in DOMAIN t : t[n].isDir = (n \notin P)
    BY DEF Skeleton, Node, EmptyDir
  <2>5. (\E n \in Dirs(p) \cap DOMAIN t : ~t[n].isDir) <=> \E q \in P : Below(q, p)
    <3>1. P \subseteq DOMAIN t
      BY <2>1 DEF NodesOf
    <3> QED BY <2>4, <3>1 DEF Below
  <2>6. Fitting(Q) <=> ~(\E q \in P : Below(p, q)) /\ ~(\E q \in P : Below(q, p))
    BY <1>1, <1>3 DEF Fitting, Below
  <2>7. CASE ~Fitting(Q)
    BY <1>3, <2>2, <2>3, <2>5, <2>6, <2>7 DEF Placed, place
  <2>8. CASE Fitting(Q)
    <3> DEFINE new == [n \in DOMAIN t \cup Dirs(p) \cup {p} |->
                          IF n = p THEN Node(FALSE, f[p], Absent)
                          ELSE IF n \in DOMAIN t THEN t[n] ELSE EmptyDir]
    <3>1. place(t, p, f[p]) = new
      BY <2>2, <2>3, <2>5, <2>6, <2>8 DEF place
    <3>2. NodesOf(Q) = DOMAIN t \cup Dirs(p) \cup {p}
      <4>1. UNION {Dirs(q) : q \in Q} = (UNION {Dirs(q) : q \in P}) \cup Dirs(p)
        OBVIOUS
      <4> QED BY <2>1, <4>1 DEF NodesOf
    <3>3. ASSUME NEW n \in NodesOf(Q) PROVE new[n] = Skeleton(f, Q)[n]
      <4>1. Skeleton(f, Q)[n] = IF n \in Q THEN Node(FALSE, f[n], Absent) ELSE EmptyDir
        BY DEF Skeleton
      <4>2. new[n] = IF n = p THEN Node(FALSE, f[p], Absent)
                     ELSE IF n \in DOMAIN t THEN t[n] ELSE EmptyDir
        BY <3>2
      <4>3. n \in DOMAIN t => t[n] = IF n \in P THEN Node(FALSE, f[n], Absent) ELSE EmptyDir
        BY DEF Skeleton
      <4>4. n \in P => n \in DOMAIN t
        BY <2>1 DEF NodesOf
      <4> HIDE DEF new, t
      <4>5. CASE n = p
        BY <4>1, <4>2, <4>5
      <4>6. CASE n # p /\ n \in P
        BY <4>1, <4>2, <4>3, <4>4, <4>6
      <4>7. CASE n # p /\ n \notin P
        <5>1. n \notin Q
          BY <4>7
        <5> HIDE DEF Q
        <5> QED BY <4>1, <4>2, <4>3, <4>7, <5>1
      <4> QED BY <4>5, <4>6, <4>7
    <3>4. new = Skeleton(f, Q)
      BY <3>2, <3>3 DEF Skeleton
    <3> QED BY <1>3, <2>8, <3>1, <3>4 DEF Placed
  <2> QED BY <2>7, <2>8
<1> QED BY <1>2, <1>3

\* Whatever the order of the leaves, BuildTree makes the tree of the leaves.
LEMMA BuildsTheTree ==
    ASSUME NEW f, NEW s \in SetToSeqs(Recorded(f))
    PROVE  BuildTreeInOrder(f, s) = TreeOf(f)
<1> DEFINE R == Recorded(f)
           c == Cardinality(R)
           Firsts(k) == {s[i] : i \in 1 .. k}
           g == [k \in 0 .. Len(s) |-> Placed(f, Firsts(k))]
           b == CHOOSE h : h = [k \in 0 .. Len(s) |->
                                   IF k = 0 THEN EmptyTree ELSE place(h[k - 1], s[k], f[s[k]])]
<1>1. R \in SUBSET Path
  BY DEF Recorded
<1>2. /\ c \in Nat /\ Len(s) = c /\ s \in [1 .. c -> R]
      /\ \A i, j \in 1 .. c : s[i] = s[j] => i = j
      /\ \A p \in R : \E i \in 1 .. c : s[i] = p
  BY <1>1, OrdersEnumerate
<1>3. g[0] = EmptyTree
  <2>1. Firsts(0) = {}
    OBVIOUS
  <2>2. Placed(f, {}) = EmptyTree
    <3>1. NodesOf({}) = {<<>>}
      BY DEF NodesOf
    <3> QED BY <3>1 DEF Placed, Fitting, Skeleton, EmptyTree
  <2>3. 0 \in 0 .. Len(s)
    BY <1>2
  <2> QED BY <2>1, <2>2, <2>3
<1>4. ASSUME NEW k \in 1 .. Len(s) PROVE g[k] = place(g[k - 1], s[k], f[s[k]])
  <2>1. k \in 0 .. Len(s) /\ k - 1 \in 0 .. Len(s) /\ k \in 1 .. c
    BY <1>2
  <2>2. Firsts(k - 1) \in SUBSET Path /\ s[k] \in Path
    BY <1>1, <1>2, <2>1
  <2>3. s[k] \notin Firsts(k - 1)
    BY <1>2, <2>1
  <2>4. Firsts(k) = Firsts(k - 1) \cup {s[k]}
    BY <1>2, <2>1
  <2> HIDE DEF Firsts
  <2>5. place(Placed(f, Firsts(k - 1)), s[k], f[s[k]]) = Placed(f, Firsts(k))
    BY <2>2, <2>3, <2>4, PlaceAdds
  <2> QED BY <2>1, <2>5
<1>5. b = [k \in 0 .. Len(s) |-> IF k = 0 THEN EmptyTree ELSE place(b[k - 1], s[k], f[s[k]])]
  <2>1. \A k \in 0 .. Len(s) : g[k] = IF k = 0 THEN EmptyTree ELSE place(g[k - 1], s[k], f[s[k]])
    <3> HIDE DEF g
    <3>1. \A k \in 0 .. Len(s) : k = 0 \/ k \in 1 .. Len(s)
      BY <1>2
    <3> QED BY <1>3, <1>4, <3>1
  <2>2. g = [k \in 0 .. Len(s) |-> IF k = 0 THEN EmptyTree ELSE place(g[k - 1], s[k], f[s[k]])]
    BY <2>1
  <2> HIDE DEF g
  <2> QED BY <2>2
<1>6. BuildTreeInOrder(f, s) = rehash(b[Len(s)])
  BY DEF BuildTreeInOrder
<1>7. b[Len(s)] = g[Len(s)]
  <2> HIDE DEF b, g
  <2> DEFINE S == {k \in Nat : k \in 0 .. Len(s) => b[k] = g[k]}
  <2>1. 0 \in S
    BY <1>3, <1>5
  <2>2. ASSUME NEW k \in Nat, k \in S PROVE k + 1 \in S
    <3>1. ASSUME k + 1 \in 0 .. Len(s) PROVE b[k + 1] = g[k + 1]
      <4>1. k \in 0 .. Len(s) /\ k + 1 \in 1 .. Len(s) /\ (k + 1) - 1 = k /\ k + 1 # 0
        BY <1>2, <3>1
      <4>2. b[k + 1] = place(b[k], s[k + 1], f[s[k + 1]])
        BY <1>5, <3>1, <4>1
      <4>3. g[k + 1] = place(g[k], s[k + 1], f[s[k + 1]])
        BY <1>4, <4>1
      <4> QED BY <2>2, <4>1, <4>2, <4>3
    <3> QED BY <3>1
  <2> HIDE DEF S
  <2>3. Len(s) \in S
    BY <1>2, <2>1, <2>2, NumbersByInduction
  <2> QED BY <1>2, <2>3 DEF S
<1>8. g[Len(s)] = Placed(f, R)
  <2>1. Firsts(Len(s)) = R
    BY <1>2
  <2>2. Len(s) \in 0 .. Len(s)
    BY <1>2
  <2> QED BY <2>1, <2>2
<1> QED BY <1>6, <1>7, <1>8 DEF TreeOf

\* t is the tree of the leaves of f: its nodes are the leaves and the directories on the
\* way to them, all hashed.
IsTree(t, f) ==
    /\ DOMAIN t = NodesOf(Recorded(f))
    /\ t = [n \in DOMAIN t |-> t[n]]
    /\ \A n \in DOMAIN t :
          /\ n \in Seq(Name) /\ Dirs(n) \subseteq DOMAIN t
          /\ \A a \in Dirs(n) : t[a].isDir
          /\ t[n] = Node(t[n].isDir, t[n].leaf, t[n].hash)
          /\ t[n].isDir = (n \notin Recorded(f))
          /\ t[n].leaf = IF n \in Recorded(f) THEN f[n] ELSE Absent
    /\ Hashed(t)

\* The number of components is bounded in all trees.
LEMMA NodesAreBounded ==
    \E M \in Nat : \A P \in SUBSET Path : \A n \in NodesOf(P) :
        n \in Seq(Name) /\ Len(n) \in Nat /\ Len(n) < M
<1>1. PICK L \in Nat : \A p \in Path : Len(p) < L
  BY PathsAreBounded
<1>2. ASSUME NEW P \in SUBSET Path, NEW n \in NodesOf(P)
      PROVE  n \in Seq(Name) /\ Len(n) \in Nat /\ Len(n) < L + 1
  <2>1. n \in Seq(Name) /\ Len(n) \in Nat
    BY NodesAreClosed
  <2>2. CASE n = <<>>
    BY <2>1, <2>2
  <2>3. CASE n \in P
    BY <1>1, <2>1, <2>3
  <2>4. ASSUME NEW p \in P, n \in Dirs(p) PROVE Len(n) < L + 1
    <3>1. Len(p) < L /\ p \in Seq(Name)
      BY <1>1, PathsAreSequences
    <3>2. Len(n) < Len(p) /\ Len(p) \in Nat
      BY <2>4, <3>1, DirsAreNodes
    <3> QED BY <2>1, <3>1, <3>2
  <2> QED BY <2>1, <2>2, <2>3, <2>4 DEF NodesOf
<1>3. L + 1 \in Nat
  OBVIOUS
<1> QED BY <1>2, <1>3

\* BuildTree fails exactly when the leaves do not fit, and else makes their tree.
LEMMA BuildTreeIs ==
    ASSUME NEW f
    PROVE  /\ BuildTree(f) = TreeOf(f)
           /\ BuildTree(f) = NilTree <=> ~Fitting(Recorded(f))
           /\ Fitting(Recorded(f)) => IsTree(BuildTree(f), f)
<1> DEFINE R == Recorded(f)
           k == Skeleton(f, R)
           t == TreeOf(f)
<1>1. R \in SUBSET Path
  BY DEF Recorded
<1>2. BuildTree(f) = t
  <2>1. SetToSeq(R) \in SetToSeqs(R)
    BY <1>1, OrdersEnumerate
  <2> QED BY <2>1, BuildsTheTree DEF BuildTree
<1>3. ASSUME ~Fitting(R) PROVE t = NilTree
  <2>1. t = rehash(NilTree)
    BY <1>3 DEF TreeOf, Placed
  <2>2. DOMAIN NilTree = {}
    BY DEF NilTree
  <2> QED BY <2>1, <2>2 DEF rehash, NilTree
<1>4. ASSUME Fitting(R) PROVE IsTree(t, f) /\ t # NilTree
  <2>1. t = rehash(k)
    BY <1>4 DEF TreeOf, Placed
  <2>2. /\ DOMAIN k = NodesOf(R)
        /\ \A n \in DOMAIN k : /\ k[n] = Node(k[n].isDir, k[n].leaf, k[n].hash)
                               /\ k[n].isDir = (n \notin R)
                               /\ k[n].leaf = IF n \in R THEN f[n] ELSE Absent
    BY DEF Skeleton, Node, EmptyDir
  <2>3. PICK M \in Nat : Bounded(k, M)
    BY <1>1, <2>2, NodesAreBounded DEF Bounded
  <2> HIDE DEF k, t
  <2>4. /\ DOMAIN t = DOMAIN k
        /\ t = [n \in DOMAIN k |-> Node(k[n].isDir, k[n].leaf, t[n].hash)]
        /\ Hashed(t)
    BY <2>1, <2>2, <2>3, RehashHashes
  <2>5. ASSUME NEW n \in DOMAIN t
        PROVE  /\ t[n].isDir = (n \notin R)
               /\ t[n].leaf = IF n \in R THEN f[n] ELSE Absent
               /\ t[n] = Node(t[n].isDir, t[n].leaf, t[n].hash)
    <3>1. t[n] = Node(k[n].isDir, k[n].leaf, t[n].hash)
      BY <2>4
    <3>2. t[n].isDir = k[n].isDir /\ t[n].leaf = k[n].leaf
      BY <3>1 DEF Node
    <3> QED BY <2>2, <2>4, <3>1, <3>2
  <2>6. ASSUME NEW n \in DOMAIN t
        PROVE  n \in Seq(Name) /\ Dirs(n) \subseteq DOMAIN t /\ \A a \in Dirs(n) : t[a].isDir
    <3>1. n \in Seq(Name) /\ Dirs(n) \subseteq DOMAIN t
      BY <1>1, <2>2, <2>4, NodesAreClosed
    <3>2. ASSUME NEW a \in Dirs(n), a \in R PROVE FALSE
      <4>1. CASE n = <<>>
        BY <3>2, <4>1, RootIsAbove
      <4>2. CASE n \in R
        BY <1>4, <3>2, <4>2 DEF Fitting, Below
      <4>3. ASSUME NEW q \in R, n \in Dirs(q) PROVE FALSE
        <5>1. q \in Seq(Name)
          BY <1>1, PathsAreSequences
        <5>2. a \in Dirs(q)
          BY <4>3, <5>1, DirsTransitive
        <5> QED BY <1>4, <3>2, <5>2 DEF Fitting, Below
      <4> QED BY <2>2, <2>4, <4>1, <4>2, <4>3 DEF NodesOf
    <3> QED BY <2>5, <3>1, <3>2
  <2>7. t = [n \in DOMAIN t |-> t[n]]
    BY <2>4
  <2>8. t # NilTree
    <3>1. DOMAIN NilTree = {}
      BY DEF NilTree
    <3>2. <<>> \in DOMAIN t
      BY <2>2, <2>4 DEF NodesOf
    <3> QED BY <3>1, <3>2
  <2> QED BY <2>2, <2>4, <2>5, <2>6, <2>7, <2>8 DEF IsTree
<1> QED BY <1>2, <1>3, <1>4

\* Hashing is injective.
LEMMA HashesTellApart ==
    /\ \A a, b : leafHash(a) = leafHash(b) => a = b
    /\ \A a, b : hashFromChildren(a) = hashFromChildren(b) => a = b
    /\ \A a, b : leafHash(a) # hashFromChildren(b)
  BY DEF leafHash, hashFromChildren

\* Two nodes of the same hash are the same, and so are the names and hashes below them.
LEMMA SameHashSameNode ==
    ASSUME NEW f, NEW g, NEW t, NEW u, IsTree(t, f), IsTree(u, g),
           NEW n, n \in DOMAIN t, n \in DOMAIN u, t[n].hash = u[n].hash
    PROVE  /\ t[n] = u[n]
           /\ Names(t, n) = Names(u, n)
           /\ \A m \in Names(t, n) : t[Append(n, m)].hash = u[Append(n, m)].hash
<1> DEFINE tk == [m \in Names(t, n) |-> t[Append(n, m)].hash]
           uk == [m \in Names(u, n) |-> u[Append(n, m)].hash]
<1>1. /\ t[n].hash = IF t[n].isDir THEN hashFromChildren(tk) ELSE leafHash(t[n].leaf)
      /\ u[n].hash = IF u[n].isDir THEN hashFromChildren(uk) ELSE leafHash(u[n].leaf)
  BY DEF IsTree, Hashed
<1>2. /\ t[n] = Node(t[n].isDir, t[n].leaf, t[n].hash) /\ t[n].isDir \in BOOLEAN
      /\ u[n] = Node(u[n].isDir, u[n].leaf, u[n].hash) /\ u[n].isDir \in BOOLEAN
      /\ t[n].isDir => t[n].leaf = Absent
      /\ u[n].isDir => u[n].leaf = Absent
      /\ n \in Seq(Name)
  BY DEF IsTree
<1>3. CASE t[n].isDir
  <2>1. u[n].isDir /\ hashFromChildren(tk) = hashFromChildren(uk)
    BY <1>1, <1>3, HashesTellApart
  <2>2. tk = uk
    BY <2>1, HashesTellApart
  <2>3. DOMAIN tk = DOMAIN uk /\ \A m \in DOMAIN tk : tk[m] = uk[m]
    BY <2>2
  <2>4. t[n] = u[n]
    BY <1>2, <1>3, <2>1
  <2> QED BY <2>3, <2>4
<1>4. CASE ~t[n].isDir
  <2>1. ~u[n].isDir /\ t[n].leaf = u[n].leaf
    BY <1>1, <1>4, HashesTellApart
  <2>2. t[n] = u[n]
    BY <1>2, <1>4, <2>1
  <2>3. \A m \in Name : Append(n, m) \notin DOMAIN t /\ Append(n, m) \notin DOMAIN u
    <3>1. \A m \in Name : n \in Dirs(Append(n, m))
      BY <1>2, ChildOf
    <3> QED BY <1>4, <2>1, <3>1 DEF IsTree
  <2> QED BY <2>2, <2>3 DEF Names
<1> QED BY <1>3, <1>4

\* Where two hashes are equal everything below is equal: pruning hides no difference.
LEMMA SameHashSameTree ==
    ASSUME NEW f, NEW g, NEW t, NEW u, IsTree(t, f), IsTree(u, g),
           NEW n, n \in DOMAIN t, n \in DOMAIN u, t[n].hash = u[n].hash
    PROVE  \A x \in Seq(Name) : x = n \/ n \in Dirs(x) =>
               /\ x \in DOMAIN t <=> x \in DOMAIN u
               /\ x \in DOMAIN t => t[x] = u[x]
<1> DEFINE Same(x) == (x \in DOMAIN t <=> x \in DOMAIN u) /\ (x \in DOMAIN t => t[x] = u[x])
           S == {k \in Nat : \A x \in Seq(Name) :
                    Len(x) = Len(n) + k /\ (x = n \/ n \in Dirs(x)) => Same(x)}
<1>1. n \in Seq(Name) /\ Len(n) \in Nat
  BY DEF IsTree
<1>2. 0 \in S
  <2>1. ASSUME NEW x \in Seq(Name), Len(x) = Len(n) + 0, x = n \/ n \in Dirs(x) PROVE x = n
    BY <1>1, <2>1, DirsAreNodes
  <2>2. Same(n)
    BY SameHashSameNode
  <2> HIDE DEF Same
  <2> QED BY <2>1, <2>2
<1>3. ASSUME NEW k \in Nat, k \in S PROVE k + 1 \in S
  <2>1. ASSUME NEW x \in Seq(Name), Len(x) = Len(n) + (k + 1), x = n \/ n \in Dirs(x) PROVE Same(x)
    <3>1. x # n /\ n \in Dirs(x)
      BY <1>1, <2>1
    <3>2. PICK y \in Seq(Name), m \in Name : x = Append(y, m)
      BY <3>1, RootIsAbove, IsChild
    <3>3. Len(x) = Len(y) + 1 /\ Len(y) \in Nat /\ Dirs(x) = Dirs(y) \cup {y}
      BY <3>2, ChildOf
    <3>4. Len(y) = Len(n) + k /\ (y = n \/ n \in Dirs(y))
      BY <1>1, <2>1, <3>1, <3>3
    <3>5. Same(y)
      BY <1>3, <3>4
    <3>6. (x \in DOMAIN t => y \in DOMAIN t) /\ (x \in DOMAIN u => y \in DOMAIN u)
      BY <3>3 DEF IsTree
    <3>7. CASE y \in DOMAIN t
      <4>1. y \in DOMAIN u /\ t[y].hash = u[y].hash
        BY <3>5, <3>7
      <4>2. Names(t, y) = Names(u, y) /\ \A c \in Names(t, y) : t[Append(y, c)].hash = u[Append(y, c)].hash
        BY <3>7, <4>1, SameHashSameNode
      <4>3. x \in DOMAIN t <=> x \in DOMAIN u
        BY <3>2, <4>2 DEF Names
      <4>4. ASSUME x \in DOMAIN t PROVE t[x] = u[x]
        <5>1. t[x].hash = u[x].hash
          BY <3>2, <4>2, <4>4 DEF Names
        <5> QED BY <4>3, <4>4, <5>1, SameHashSameNode
      <4> QED BY <4>3, <4>4
    <3>8. CASE y \notin DOMAIN t
      BY <3>5, <3>6, <3>8
    <3> QED BY <3>7, <3>8
  <2>2. k + 1 \in Nat
    OBVIOUS
  <2> HIDE DEF Same
  <2> QED BY <2>1, <2>2
<1> HIDE DEF S
<1>4. \A k \in Nat : k \in S
  BY <1>2, <1>3, NumbersByInduction
<1>5. ASSUME NEW x \in Seq(Name), x = n \/ n \in Dirs(x) PROVE Same(x)
  <2>1. Len(x) \in Nat /\ Len(x) >= Len(n)
    BY <1>1, <1>5, DirsAreNodes
  <2>2. Len(x) - Len(n) \in Nat /\ Len(x) = Len(n) + (Len(x) - Len(n))
    BY <1>1, <2>1
  <2>3. Len(x) - Len(n) \in S
    BY <1>4, <2>2
  <2> HIDE DEF Same
  <2> QED BY <1>5, <2>2, <2>3 DEF S
<1> QED BY <1>5

-----------------------------------------------------------------------------
(* The differ. *)

\* What a tree says of a path is what the leaves say of it.
LEMMA TreeTellsLeaves ==
    ASSUME NEW f, NEW t, IsTree(t, f)
    PROVE  /\ \A p \in Path : Lookup(t, p) = f[p] /\ (IsDir(t, p) <=> HasBelow(f, p))
           /\ \A n : Lookup(t, n) # Absent <=> n \in Recorded(f)
           /\ \A n : IsDir(t, n) <=> n \in DOMAIN t /\ n \notin Recorded(f)
           /\ Recorded(f) \subseteq DOMAIN t /\ Recorded(f) \subseteq Path
<1> DEFINE R == Recorded(f)
<1>1. R \subseteq DOMAIN t /\ R \subseteq Path /\ \A p \in Path : p \in R <=> f[p] # Absent
  BY DEF IsTree, NodesOf, Recorded
<1>2. \A n : Lookup(t, n) = IF n \in R THEN f[n] ELSE Absent
  BY <1>1 DEF Lookup, IsTree
<1>3. \A n : IsDir(t, n) <=> n \in DOMAIN t /\ n \notin R
  BY DEF IsDir, IsTree
<1>4. ASSUME NEW p \in Path, IsDir(t, p) PROVE HasBelow(f, p)
  <2>1. p \in NodesOf(R) /\ p \notin R /\ p # <<>>
    BY <1>3, <1>4, PathsAreSequences DEF IsTree
  <2>2. PICK q \in R : p \in Dirs(q)
    BY <2>1 DEF NodesOf
  <2> QED BY <1>1, <2>2 DEF HasBelow, Below
<1>5. ASSUME NEW p \in Path, HasBelow(f, p) PROVE IsDir(t, p)
  <2>1. PICK q \in Path : p \in Dirs(q) /\ f[q] # Absent
    BY <1>5 DEF HasBelow, Below
  <2>2. q \in DOMAIN t
    BY <1>1, <2>1
  <2> QED BY <2>1, <2>2 DEF IsTree, IsDir
<1>6. \A p \in Path : Lookup(t, p) = f[p]
  BY <1>1, <1>2
<1>7. \A n : Lookup(t, n) # Absent <=> n \in R
  BY <1>1, <1>2
<1> QED BY <1>1, <1>3, <1>4, <1>5, <1>6, <1>7

\* A clash of nodes is a clash of leaves.
LEMMA ClashesOfLeaves ==
    ASSUME NEW f, NEW g, NEW t, NEW u, IsTree(t, f), IsTree(u, g)
    PROVE  /\ \A p \in Path : Clash(t, u, p) <=> RefClash(f, g, p)
           /\ \A n : Clash(t, u, n) => n \in Path
  BY TreeTellsLeaves DEF Clash, RefClash

\* Where two trees differ or clash nothing above was pruned.
LEMMA DifferenceNotPruned ==
    ASSUME NEW f, NEW g, NEW t, NEW u, IsTree(t, f), IsTree(u, g),
           NEW q \in Path, RefClash(f, g, q) \/ f[q] # g[q],
           NEW a, a = q \/ a \in Dirs(q)
    PROVE  ~Pruned(t, u, a)
<1> SUFFICES ASSUME Pruned(t, u, a) PROVE FALSE
  OBVIOUS
<1>1. a \in DOMAIN t /\ a \in DOMAIN u /\ t[a].hash = u[a].hash
  BY DEF Pruned
<1>2. q \in Seq(Name)
  BY PathsAreSequences
<1>3. (q \in DOMAIN t <=> q \in DOMAIN u) /\ (q \in DOMAIN t => t[q] = u[q])
  BY <1>1, <1>2, SameHashSameTree
<1>4. Lookup(t, q) = Lookup(u, q) /\ (IsDir(t, q) <=> IsDir(u, q))
  BY <1>3 DEF Lookup, IsDir
<1>5. f[q] = g[q]
  BY <1>4, TreeTellsLeaves
<1>6. Clash(t, u, q)
  BY <1>5, ClashesOfLeaves
<1>7. \E n : n = q /\ Lookup(t, n) # Absent /\ IsDir(t, n)
  BY <1>4, <1>6 DEF Clash
<1> QED BY <1>7, TreeTellsLeaves

\* The walk returns an entry exactly at the paths of the reference.
LEMMA EntriesAreDifferences ==
    ASSUME NEW f, NEW g, NEW t, NEW u, IsTree(t, f), IsTree(u, g)
    PROVE  {n \in Visited(t, u) : Emits(t, u, n)}
             = {q \in Path : /\ RefClash(f, g, q) \/ f[q] # g[q]
                             /\ \A r \in Path : Below(r, q) => ~RefClash(f, g, r)}
<1> DEFINE A == {n \in Visited(t, u) : Emits(t, u, n)}
           B == {q \in Path : /\ RefClash(f, g, q) \/ f[q] # g[q]
                              /\ \A r \in Path : Below(r, q) => ~RefClash(f, g, r)}
<1>1. ASSUME NEW n \in A PROVE n \in B
  <2>1. /\ n \in DOMAIN t \cup DOMAIN u /\ ~Pruned(t, u, n)
        /\ NoDir(t, u, n) \/ Clash(t, u, n)
        /\ \A a \in Dirs(n) : ~Clash(t, u, a)
    BY DEF Visited, Emits, Recurses
  <2>2. \A r \in Path : Below(r, n) => ~RefClash(f, g, r)
    BY <2>1, ClashesOfLeaves DEF Below
  <2>3. CASE Clash(t, u, n)
    BY <2>2, <2>3, ClashesOfLeaves
  <2>4. CASE NoDir(t, u, n)
    <3>1. (n \in DOMAIN t => n \in Recorded(f)) /\ (n \in DOMAIN u => n \in Recorded(g))
      BY <2>4, TreeTellsLeaves DEF NoDir
    <3>2. n \in Path
      BY <2>1, <3>1, TreeTellsLeaves
    <3>3. f[n] # g[n]
      <4>1. CASE n \in DOMAIN t /\ n \in DOMAIN u
        <5>1. t[n].hash = leafHash(f[n]) /\ u[n].hash = leafHash(g[n])
          <6>1. ~t[n].isDir /\ t[n].leaf = f[n] /\ ~u[n].isDir /\ u[n].leaf = g[n]
            BY <3>1, <4>1 DEF IsTree
          <6>2. Hashed(t) /\ Hashed(u)
            BY DEF IsTree
          <6> QED BY <4>1, <6>1, <6>2 DEF Hashed
        <5> QED BY <2>1, <4>1, <5>1 DEF Pruned
      <4>2. CASE n \in DOMAIN t /\ n \notin DOMAIN u
        <5>1. n \in Recorded(f) /\ n \notin Recorded(g)
          BY <3>1, <4>2, TreeTellsLeaves
        <5> QED BY <3>2, <5>1 DEF Recorded
      <4>3. CASE n \notin DOMAIN t /\ n \in DOMAIN u
        <5>1. n \notin Recorded(f) /\ n \in Recorded(g)
          BY <3>1, <4>3, TreeTellsLeaves
        <5> QED BY <3>2, <5>1 DEF Recorded
      <4> QED BY <2>1, <4>1, <4>2, <4>3
    <3> QED BY <2>2, <3>2, <3>3
  <2> QED BY <2>1, <2>3, <2>4
<1>2. ASSUME NEW q \in B PROVE q \in A
  <2>1. q \in Path /\ q \in Seq(Name) /\ (RefClash(f, g, q) \/ f[q] # g[q])
    BY PathsAreSequences
  <2>2. q \in Recorded(f) \/ q \in Recorded(g)
    BY <2>1 DEF RefClash, Recorded
  <2>3. q \in DOMAIN t \/ q \in DOMAIN u
    BY <2>2, TreeTellsLeaves
  <2>4. ASSUME NEW a \in Dirs(q) PROVE Recurses(t, u, a)
    <3>1. ~Pruned(t, u, a)
      BY <2>1, DifferenceNotPruned
    <3>2. IsDir(t, a) \/ IsDir(u, a)
      BY <2>3 DEF IsTree, IsDir
    <3>3. ~Clash(t, u, a)
      BY ClashesOfLeaves DEF Below
    <3> QED BY <3>1, <3>2, <3>3 DEF Recurses, NoDir
  <2>5. ~Pruned(t, u, q)
    BY <2>1, DifferenceNotPruned
  <2>6. NoDir(t, u, q) \/ Clash(t, u, q)
    BY <2>2, TreeTellsLeaves DEF NoDir, Clash
  <2> QED BY <2>3, <2>4, <2>5, <2>6 DEF Visited, Emits
<1> QED BY <1>1, <1>2

LEMMA DiffIsRefDiff ==
    ASSUME NEW f, NEW g, NEW t, NEW u, IsTree(t, f), IsTree(u, g)
    PROVE  Diff(t, u) = RefDiff(f, g)
<1> DEFINE A == {n \in Visited(t, u) : Emits(t, u, n)}
           B == {q \in Path : /\ RefClash(f, g, q) \/ f[q] # g[q]
                              /\ \A r \in Path : Below(r, q) => ~RefClash(f, g, r)}
<1>1. A = B /\ B \subseteq Path
  BY EntriesAreDifferences
<1>2. Diff(t, u) = {Entry(n, Lookup(t, n), Lookup(u, n), IsDir(t, n), IsDir(u, n)) : n \in A}
  BY DEF Diff
<1>3. RefDiff(f, g) = {Entry(p, f[p], g[p], HasBelow(f, p), HasBelow(g, p)) : p \in B}
  BY DEF RefDiff
<1> HIDE DEF A, B
<1>4. ASSUME NEW p \in Path
      PROVE  Entry(p, Lookup(t, p), Lookup(u, p), IsDir(t, p), IsDir(u, p))
               = Entry(p, f[p], g[p], HasBelow(f, p), HasBelow(g, p))
  <2>1. Lookup(t, p) = f[p] /\ Lookup(u, p) = g[p]
    BY TreeTellsLeaves
  <2>2. (IsDir(t, p) = HasBelow(f, p)) /\ (IsDir(u, p) = HasBelow(g, p))
    <3>1. IsDir(t, p) \in BOOLEAN /\ IsDir(u, p) \in BOOLEAN
      BY DEF IsDir, IsTree
    <3>2. HasBelow(f, p) \in BOOLEAN /\ HasBelow(g, p) \in BOOLEAN
      BY DEF HasBelow
    <3> QED BY <3>1, <3>2, TreeTellsLeaves
  <2> QED BY <2>1, <2>2
<1> QED BY <1>1, <1>2, <1>3, <1>4

-----------------------------------------------------------------------------
(* The incremental update. *)

\* The directories on the way to p, from the root on.
LEMMA PathPrefixes ==
    ASSUME NEW p \in Seq(Name)
    PROVE  /\ SubSeq(p, 1, Len(p)) = p
           /\ \A i \in 0 .. Len(p) - 1 :
                 /\ SubSeq(p, 1, i) \in Dirs(p) /\ Len(SubSeq(p, 1, i)) = i
                 /\ p[i + 1] \in Name /\ Append(SubSeq(p, 1, i), p[i + 1]) = SubSeq(p, 1, i + 1)
           /\ \A n \in Dirs(p) : Len(n) \in 0 .. Len(p) - 1 /\ SubSeq(p, 1, Len(n)) = n
<1>1. SubSeq(p, 1, Len(p)) = p
  BY SubSeqFull
<1>2. \A i \in 0 .. Len(p) : /\ SubSeq(p, 1, i) \in Seq(Name) /\ Len(SubSeq(p, 1, i)) = i
                             /\ \A j \in 1 .. i : SubSeq(p, 1, i)[j] = p[j]
  OBVIOUS
<1>3. ASSUME NEW i \in 0 .. Len(p) - 1
      PROVE  /\ SubSeq(p, 1, i) \in Dirs(p) /\ Len(SubSeq(p, 1, i)) = i
             /\ p[i + 1] \in Name /\ Append(SubSeq(p, 1, i), p[i + 1]) = SubSeq(p, 1, i + 1)
  <2>1. SubSeq(p, 1, i) \in Dirs(p)
    BY DEF Dirs
  <2>2. i \in 0 .. Len(p) /\ i + 1 \in 0 .. Len(p) /\ Len(p) \in Nat /\ i \in Nat /\ i + 1 \in 1 .. Len(p)
    OBVIOUS
  <2>3. p[i + 1] \in Name
    BY <2>2
  <2> DEFINE a == SubSeq(p, 1, i)
             b == SubSeq(p, 1, i + 1)
             c == Append(a, p[i + 1])
  <2>4. a \in Seq(Name) /\ Len(a) = i /\ \A j \in 1 .. i : a[j] = p[j]
    BY <1>2, <2>2
  <2>5. b \in Seq(Name) /\ Len(b) = i + 1 /\ \A j \in 1 .. i + 1 : b[j] = p[j]
    BY <1>2, <2>2
  <2> HIDE DEF a, b
  <2>6. c \in Seq(Name) /\ Len(c) = i + 1 /\ c[i + 1] = p[i + 1] /\ \A j \in 1 .. i : c[j] = a[j]
    BY <2>2, <2>3, <2>4
  <2> HIDE DEF c
  <2>7. \A j \in 1 .. i + 1 : c[j] = b[j]
    <3>1. \A j \in 1 .. i + 1 : j \in 1 .. i \/ j = i + 1
      BY <2>2
    <3> QED BY <2>4, <2>5, <2>6, <3>1
  <2>8. c = b
    BY <2>5, <2>6, <2>7, SeqEqual
  <2> QED BY <2>1, <2>3, <2>4, <2>8 DEF a, b, c
<1>4. ASSUME NEW n \in Dirs(p) PROVE Len(n) \in 0 .. Len(p) - 1 /\ SubSeq(p, 1, Len(n)) = n
  <2>1. PICK i \in 0 .. Len(p) - 1 : n = SubSeq(p, 1, i)
    BY DEF Dirs
  <2>2. Len(n) = i
    BY <1>3, <2>1
  <2> QED BY <2>1, <2>2
<1> QED BY <1>1, <1>3, <1>4

\* One more leaf needs its directories and itself.
LEMMA OneMoreLeaf ==
    ASSUME NEW f, DOMAIN f = Path, NEW p \in Path, NEW leaf \in Leaf, Fitting(Recorded(f)),
           NEW t, IsTree(t, f)
    PROVE  LET g == [f EXCEPT ![p] = leaf]
           IN  /\ Recorded(g) = Recorded(f) \cup {p}
               /\ NodesOf(Recorded(g)) = DOMAIN t \cup Dirs(p) \cup {p}
               /\ Fitting(Recorded(g)) <=>
                     ~ \/ \E n \in Dirs(p) \cap DOMAIN t : ~t[n].isDir
                       \/ p \in DOMAIN t /\ t[p].isDir
<1> DEFINE g == [f EXCEPT ![p] = leaf]
           R == Recorded(f)
<1>1. Recorded(g) = R \cup {p}
  <2>1. leaf # Absent
    BY TreeAssumption
  <2> QED BY <2>1 DEF Recorded
<1>2. NodesOf(Recorded(g)) = DOMAIN t \cup Dirs(p) \cup {p}
  <2>1. UNION {Dirs(q) : q \in R \cup {p}} = (UNION {Dirs(q) : q \in R}) \cup Dirs(p)
    OBVIOUS
  <2>2. DOMAIN t = NodesOf(R)
    BY DEF IsTree
  <2> QED BY <1>1, <2>1, <2>2 DEF NodesOf
<1>3. p \notin Dirs(p)
  BY PathsAreSequences, NotBelowItself
<1>4. Fitting(Recorded(g)) <=> ~(\E q \in R : Below(p, q)) /\ ~(\E q \in R : Below(q, p))
  BY <1>1, <1>3 DEF Fitting, Below
<1>5. (\E n \in Dirs(p) \cap DOMAIN t : ~t[n].isDir) <=> \E q \in R : Below(q, p)
  <2>1. \A n \in DOMAIN t : ~t[n].isDir <=> n \in R
    BY DEF IsTree
  <2>2. R \subseteq DOMAIN t
    BY TreeTellsLeaves
  <2> QED BY <2>1, <2>2 DEF Below
<1>6. p \in DOMAIN t /\ t[p].isDir <=> \E q \in R : Below(p, q)
  <2>1. IsDir(t, p) <=> HasBelow(f, p)
    BY TreeTellsLeaves
  <2> QED BY <2>1 DEF IsDir, HasBelow, Recorded
<1> HIDE DEF g
<1>7. Fitting(Recorded(g)) <=>
          ~((\E n \in Dirs(p) \cap DOMAIN t : ~t[n].isDir) \/ (p \in DOMAIN t /\ t[p].isDir))
  BY <1>4, <1>5, <1>6
<1> QED BY <1>1, <1>2, <1>7 DEF g

\* t is the tree of f, u that of g, which is f with a leaf more or another leaf at p.
Upserted(f, g, p, leaf, t, u) ==
    /\ \A q \in Path : g[q] = IF q = p THEN leaf ELSE f[q]
    /\ Recorded(g) = Recorded(f) \cup {p}
    /\ IsTree(t, f) /\ IsTree(u, g)
    /\ DOMAIN u = DOMAIN t \cup Dirs(p) \cup {p}

\* Off the way to p the two trees have the same nodes with the same hashes.
LEMMA OffTheWay ==
    ASSUME NEW f, NEW g, NEW p \in Path, NEW leaf, NEW t, NEW u, Upserted(f, g, p, leaf, t, u)
    PROVE  \A n \in DOMAIN t \ (Dirs(p) \cup {p}) : t[n] = u[n]
<1> USE DEF Upserted
<1> DEFINE D == DOMAIN t \ (Dirs(p) \cup {p})
<1>1. PICK M \in Nat : Bounded(t, M)
  <2>1. DOMAIN t = NodesOf(Recorded(f)) /\ Recorded(f) \in SUBSET Path
    BY DEF IsTree, Recorded
  <2> QED BY <2>1, NodesAreBounded DEF Bounded
<1>2. p \in Seq(Name)
  BY PathsAreSequences
<1>3. ASSUME NEW n \in D
      PROVE  /\ t[n].isDir = u[n].isDir /\ t[n].leaf = u[n].leaf
             /\ Names(t, n) = Names(u, n)
             /\ \A m \in Names(t, n) : Append(n, m) \in D
  <2>1. n \in DOMAIN t /\ n \in DOMAIN u /\ n # p /\ n \in Seq(Name) /\ n \notin Dirs(p)
    BY DEF IsTree
  <2>2. n \in Recorded(g) <=> n \in Recorded(f)
    BY <2>1
  <2>3. t[n].isDir = u[n].isDir
    <3>1. t[n].isDir = (n \notin Recorded(f)) /\ u[n].isDir = (n \notin Recorded(g))
      BY <2>1 DEF IsTree
    <3>2. (n \notin Recorded(f)) = (n \notin Recorded(g))
      BY <2>2
    <3> QED BY <3>1, <3>2, Zenon
  <2>4. t[n].leaf = u[n].leaf
    <3>1. n \in Recorded(f) => g[n] = f[n]
      BY <2>1 DEF Recorded
    <3>2. /\ t[n].leaf = IF n \in Recorded(f) THEN f[n] ELSE Absent
          /\ u[n].leaf = IF n \in Recorded(g) THEN g[n] ELSE Absent
      BY <2>1 DEF IsTree
    <3> QED BY <2>2, <3>1, <3>2
  <2>5. \A m \in Name : Append(n, m) \notin Dirs(p) \cup {p}
    <3>1. ASSUME NEW m \in Name, Append(n, m) \in Dirs(p) \cup {p} PROVE n \in Dirs(p)
      <4>1. n \in Dirs(Append(n, m))
        BY <2>1, ChildOf
      <4> QED BY <1>2, <3>1, <4>1, DirsTransitive
    <3> QED BY <2>1, <3>1
  <2>6. Names(t, n) = Names(u, n)
    BY <2>5 DEF Names
  <2>7. \A m \in Names(t, n) : Append(n, m) \in D
    BY <2>5 DEF Names
  <2> QED BY <2>3, <2>4, <2>6, <2>7
<1>4. D \subseteq DOMAIN t \cap DOMAIN u /\ Hashed(t) /\ Hashed(u)
  BY DEF IsTree
<1> HIDE DEF D
<1>5. \A n \in D : t[n].hash = u[n].hash
  BY <1>1, <1>3, <1>4, HashesAreLocal
<1>6. \A n \in D : /\ t[n] = Node(t[n].isDir, t[n].leaf, t[n].hash)
                   /\ u[n] = Node(u[n].isDir, u[n].leaf, u[n].hash)
  BY <1>4 DEF IsTree
<1>7. \A n \in D : t[n] = u[n]
  BY <1>3, <1>5, <1>6
<1> QED BY <1>7 DEF D

\* The hashes on the way to p, as the rebuilt tree has them, solve the equation of cowUpsert.
ChainHash(t, p, leaf, i, h) ==
    IF i = Len(p) THEN leafHash(leaf)
    ELSE LET dir == SubSeq(p, 1, i)
         IN  hashFromChildren([m \in Names(t, dir) \cup {p[i + 1]} |->
                 IF m = p[i + 1] THEN h[i + 1] ELSE t[Append(dir, m)].hash])

LEMMA RebuiltChain ==
    ASSUME NEW f, NEW g, NEW p \in Path, NEW leaf, NEW t, NEW u, Upserted(f, g, p, leaf, t, u),
           NEW h, h = [i \in 0 .. Len(p) |-> u[SubSeq(p, 1, i)].hash]
    PROVE  h = [i \in 0 .. Len(p) |-> ChainHash(t, p, leaf, i, h)]
<1>0. \A n \in DOMAIN t \ (Dirs(p) \cup {p}) : t[n] = u[n]
  BY OffTheWay
<1> USE DEF Upserted
<1>1. p \in Seq(Name) /\ Len(p) \in Nat
  BY PathsAreSequences
<1>2. h[Len(p)] = ChainHash(t, p, leaf, Len(p), h)
  <2>1. h[Len(p)] = u[p].hash
    <3>1. Len(p) \in 0 .. Len(p) /\ SubSeq(p, 1, Len(p)) = p
      BY <1>1, PathPrefixes
    <3> QED BY <3>1
  <2>2. p \in DOMAIN u /\ p \in Recorded(g) /\ g[p] = leaf
    OBVIOUS
  <2>3. ~u[p].isDir /\ u[p].leaf = leaf /\ Hashed(u)
    BY <2>2 DEF IsTree
  <2>4. u[p].hash = leafHash(leaf)
    BY <2>2, <2>3 DEF Hashed
  <2> QED BY <2>1, <2>4 DEF ChainHash
<1>3. ASSUME NEW i \in 0 .. Len(p) - 1 PROVE h[i] = ChainHash(t, p, leaf, i, h)
  <2> DEFINE dir == SubSeq(p, 1, i)
             tk == [m \in Names(t, dir) \cup {p[i + 1]} |->
                       IF m = p[i + 1] THEN h[i + 1] ELSE t[Append(dir, m)].hash]
             uk == [m \in Names(u, dir) |-> u[Append(dir, m)].hash]
  <2>1. /\ dir \in Dirs(p) /\ Len(dir) = i /\ p[i + 1] \in Name
        /\ Append(dir, p[i + 1]) = SubSeq(p, 1, i + 1)
    BY <1>1, PathPrefixes
  <2>2. i \in 0 .. Len(p) /\ i + 1 \in 0 .. Len(p) /\ i # Len(p)
    BY <1>1
  <2>3. h[i] = u[dir].hash /\ h[i + 1] = u[Append(dir, p[i + 1])].hash
    BY <2>1, <2>2
  <2>4. ChainHash(t, p, leaf, i, h) = hashFromChildren(tk)
    BY <2>2 DEF ChainHash
  <2> HIDE DEF dir
  <2>5. dir \in DOMAIN u /\ u[dir].isDir /\ Hashed(u)
    <3>1. p \in DOMAIN u
      OBVIOUS
    <3> QED BY <2>1, <3>1 DEF IsTree
  <2>6. u[dir].hash = hashFromChildren(uk)
    BY <2>5 DEF Hashed
  <2>7. \A m \in Name : Append(dir, m) \in Dirs(p) \cup {p} <=> m = p[i + 1]
    BY <1>1, <2>1, OneLeadsOn
  <2>8. Names(u, dir) = Names(t, dir) \cup {p[i + 1]}
    BY <2>1, <2>7 DEF Names
  <2>9. ASSUME NEW m \in Names(u, dir), m # p[i + 1] PROVE u[Append(dir, m)] = t[Append(dir, m)]
    <3>1. m \in Name /\ Append(dir, m) \in DOMAIN t
      BY <2>8, <2>9 DEF Names
    <3>2. Append(dir, m) \notin Dirs(p) \cup {p}
      BY <2>7, <2>9, <3>1
    <3> QED BY <1>0, <3>1, <3>2
  <2>10. \A m \in Names(u, dir) : uk[m] = tk[m]
    BY <2>3, <2>8, <2>9
  <2>11. uk = tk
    BY <2>8, <2>10
  <2> QED BY <2>3, <2>4, <2>6, <2>11
<1>4. \A i \in 0 .. Len(p) : h[i] = ChainHash(t, p, leaf, i, h)
  <2>1. \A i \in 0 .. Len(p) : i = Len(p) \/ i \in 0 .. Len(p) - 1
    BY <1>1
  <2> QED BY <1>2, <1>3, <2>1
<1> QED BY <1>4

\* The equation of cowUpsert has one solution.
LEMMA OneChain ==
    ASSUME NEW t, NEW p \in Seq(Name), NEW leaf,
           NEW h, h = [i \in 0 .. Len(p) |-> ChainHash(t, p, leaf, i, h)],
           NEW b, b = [i \in 0 .. Len(p) |-> ChainHash(t, p, leaf, i, b)]
    PROVE  h = b
<1>1. Len(p) \in Nat
  OBVIOUS
<1> DEFINE S == {k \in Nat : Len(p) - k \in 0 .. Len(p) => h[Len(p) - k] = b[Len(p) - k]}
<1>2. 0 \in S
  <2>1. Len(p) - 0 = Len(p) /\ Len(p) \in 0 .. Len(p)
    BY <1>1
  <2>2. h[Len(p)] = leafHash(leaf) /\ b[Len(p)] = leafHash(leaf)
    BY <2>1 DEF ChainHash
  <2> QED BY <2>1, <2>2
<1>3. ASSUME NEW k \in Nat, k \in S PROVE k + 1 \in S
  <2> DEFINE i == Len(p) - (k + 1)
  <2>1. ASSUME i \in 0 .. Len(p) PROVE h[i] = b[i]
    <3>1. i + 1 = Len(p) - k /\ i + 1 \in 0 .. Len(p) /\ i # Len(p)
      BY <1>1, <2>1
    <3>2. h[i + 1] = b[i + 1]
      BY <1>3, <3>1
    <3>3. h[i] = ChainHash(t, p, leaf, i, h) /\ b[i] = ChainHash(t, p, leaf, i, b)
      BY <2>1
    <3> HIDE DEF i
    <3>4. ChainHash(t, p, leaf, i, h) = ChainHash(t, p, leaf, i, b)
      BY <3>2 DEF ChainHash
    <3> QED BY <3>3, <3>4
  <2>2. k + 1 \in Nat
    OBVIOUS
  <2> QED BY <2>1, <2>2
<1> HIDE DEF S
<1>4. \A k \in Nat : k \in S
  BY <1>2, <1>3, NumbersByInduction
<1>5. ASSUME NEW i \in 0 .. Len(p) PROVE h[i] = b[i]
  <2>1. Len(p) - i \in Nat /\ Len(p) - (Len(p) - i) = i
    BY <1>1
  <2>2. Len(p) - i \in S
    BY <1>4, <2>1
  <2> QED BY <2>1, <2>2 DEF S
<1> QED BY <1>5

\* Update makes the tree, or gives the error, of a rebuild.
LEMMA UpdateRebuilds ==
    ASSUME NEW f, DOMAIN f = Path, Fitting(Recorded(f)), NEW p \in Path, NEW leaf \in Leaf
    PROVE  Update(BuildTree(f), p, leaf) = BuildTree([f EXCEPT ![p] = leaf])
<1> DEFINE g == [f EXCEPT ![p] = leaf]
           t == BuildTree(f)
           u == BuildTree(g)
           Refused == \/ \E n \in Dirs(p) \cap DOMAIN t : ~t[n].isDir
                      \/ p \in DOMAIN t /\ t[p].isDir
           b == CHOOSE h : h = [i \in 0 .. Len(p) |-> ChainHash(t, p, leaf, i, h)]
           new == [n \in DOMAIN t \cup Dirs(p) \cup {p} |->
                      IF n = p THEN Node(FALSE, leaf, b[Len(p)])
                      ELSE IF n \in Dirs(p) THEN Node(TRUE, Absent, b[Len(n)]) ELSE t[n]]
<1>1. IsTree(t, f) /\ t # NilTree
  BY BuildTreeIs
<1>2. Update(t, p, leaf) = IF Refused THEN NilTree ELSE new
  <2>1. Update(t, p, leaf) = cowUpsert(t, p, leaf)
    BY <1>1 DEF Update
  <2>2. cowUpsert(t, p, leaf) = IF Refused THEN NilTree ELSE new
    BY DEF cowUpsert, ChainHash
  <2> QED BY <2>1, <2>2
<1>3. p \in Seq(Name) /\ Len(p) \in Nat /\ p \notin Dirs(p)
  BY PathsAreSequences, NotBelowItself
<1> HIDE DEF t
<1>4. /\ Recorded(g) = Recorded(f) \cup {p}
      /\ NodesOf(Recorded(g)) = DOMAIN t \cup Dirs(p) \cup {p}
      /\ Fitting(Recorded(g)) <=> ~Refused
  BY <1>1, OneMoreLeaf
<1> HIDE DEF g
<1>5. CASE Refused
  <2>1. u = NilTree
    BY <1>4, <1>5, BuildTreeIs
  <2> QED BY <1>2, <1>5, <2>1 DEF g, t
<1>6. CASE ~Refused
  <2>1. IsTree(u, g)
    BY <1>4, <1>6, BuildTreeIs
  <2> HIDE DEF u, Refused
  <2>2. DOMAIN u = DOMAIN t \cup Dirs(p) \cup {p}
    BY <1>4, <2>1 DEF IsTree
  <2> DEFINE h == [i \in 0 .. Len(p) |-> u[SubSeq(p, 1, i)].hash]
  <2>0. Upserted(f, g, p, leaf, t, u)
    <3>1. \A q \in Path : g[q] = IF q = p THEN leaf ELSE f[q]
      BY DEF g
    <3> QED BY <1>1, <1>4, <2>1, <2>2, <3>1 DEF Upserted
  <2>9. h = [i \in 0 .. Len(p) |-> u[SubSeq(p, 1, i)].hash]
    OBVIOUS
  <2> HIDE DEF h
  <2>3. h = [i \in 0 .. Len(p) |-> ChainHash(t, p, leaf, i, h)]
    BY <2>0, <2>9, RebuiltChain
  <2>4. b = [i \in 0 .. Len(p) |-> ChainHash(t, p, leaf, i, b)]
    BY <2>3
  <2> HIDE DEF b
  <2>5. h = b
    BY <1>3, <2>3, <2>4, OneChain
  <2>6. ASSUME NEW n \in DOMAIN u PROVE new[n] = u[n]
    <3>1. new[n] = IF n = p THEN Node(FALSE, leaf, b[Len(p)])
                   ELSE IF n \in Dirs(p) THEN Node(TRUE, Absent, b[Len(n)]) ELSE t[n]
      BY <2>2
    <3> HIDE DEF new
    <3>2. u[n] = Node(u[n].isDir, u[n].leaf, u[n].hash)
      BY <2>1 DEF IsTree
    <3>3. CASE n = p
      <4>1. u[p].isDir = FALSE /\ u[p].leaf = g[p]
        BY <1>4, <2>1, <3>3 DEF IsTree
      <4>2. g[p] = leaf
        BY DEF g
      <4>3. b[Len(p)] = u[p].hash
        <5>1. Len(p) \in 0 .. Len(p) /\ SubSeq(p, 1, Len(p)) = p
          BY <1>3, PathPrefixes
        <5> QED BY <2>5, <2>9, <5>1
      <4> QED BY <3>1, <3>2, <3>3, <4>1, <4>2, <4>3
    <3>4. CASE n \in Dirs(p)
      <4>1. n # p
        BY <1>3, <3>4
      <4>2. u[n].isDir = TRUE
        <5>1. p \in DOMAIN u
          BY <2>2
        <5>2. u[n].isDir /\ u[n].isDir \in BOOLEAN
          BY <2>1, <3>4, <5>1 DEF IsTree
        <5> QED BY <5>2
      <4>3. u[n].leaf = Absent
        BY <2>1, <4>2 DEF IsTree
      <4>4. b[Len(n)] = u[n].hash
        <5>1. Len(n) \in 0 .. Len(p) /\ SubSeq(p, 1, Len(n)) = n
          BY <1>3, <3>4, PathPrefixes
        <5> QED BY <2>5, <5>1 DEF h
      <4> QED BY <3>1, <3>2, <3>4, <4>1, <4>2, <4>3, <4>4
    <3>5. CASE n # p /\ n \notin Dirs(p)
      <4>1. n \in DOMAIN t \ (Dirs(p) \cup {p})
        BY <2>2, <3>5
      <4>2. t[n] = u[n]
        <5>1. \A x \in DOMAIN t \ (Dirs(p) \cup {p}) : t[x] = u[x]
          BY <2>0, OffTheWay
        <5> QED BY <4>1, <5>1
      <4> QED BY <3>1, <3>5, <4>2
    <3> QED BY <3>3, <3>4, <3>5
  <2>7. u = [n \in DOMAIN u |-> u[n]]
    BY <2>1 DEF IsTree
  <2>8. new = u
    BY <2>2, <2>6, <2>7
  <2> QED BY <1>2, <1>6, <2>8 DEF g, t, u
<1> QED BY <1>5, <1>6

-----------------------------------------------------------------------------
(* The devices. *)

Typed == files \in [Device -> [Path -> Leaf \cup {Absent}]]

LEMMA PeerIsOther == \A d \in Device : Peer(d) \in Device
<1> TAKE d \in Device
<1>1. \E e \in Device : e # d
  BY TreeAssumption
<1> QED BY <1>1 DEF Peer

\* What reconcileWithPeer finds are the differences of the reference.
LEMMA DifferingIs ==
    ASSUME NEW f, NEW g, NEW e \in Differing(f, g)
    PROVE  /\ e.path \in Path /\ e.local = f[e.path] /\ e.remote = g[e.path]
           /\ ~IsTypeClash(e) => ~RefClash(f, g, e.path)
           /\ \A r \in Path : Below(r, e.path) => ~RefClash(f, g, r)
<1>1. BuildTree(f) # NilTree /\ BuildTree(g) # NilTree /\ e \in Diff(BuildTree(f), BuildTree(g))
  BY DEF Differing
<1>2. IsTree(BuildTree(f), f) /\ IsTree(BuildTree(g), g)
  BY <1>1, BuildTreeIs
<1>3. e \in RefDiff(f, g)
  BY <1>1, <1>2, DiffIsRefDiff
<1>4. PICK p \in Path : /\ e = Entry(p, f[p], g[p], HasBelow(f, p), HasBelow(g, p))
                        /\ \A r \in Path : Below(r, p) => ~RefClash(f, g, r)
  BY <1>3 DEF RefDiff
<1>5. /\ e.path = p /\ e.local = f[p] /\ e.remote = g[p]
      /\ e.localDir = HasBelow(f, p) /\ e.remoteDir = HasBelow(g, p)
  BY <1>4 DEF Entry
<1>6. ~IsTypeClash(e) => ~RefClash(f, g, p)
  BY <1>5 DEF IsTypeClash, RefClash
<1> QED BY <1>4, <1>5, <1>6

\* Where a leaf may be installed the peer has one, and nothing clashes there or above.
LEMMA InstallableIs ==
    ASSUME NEW f, NEW g, NEW e \in Installable(f, g)
    PROVE  /\ e.path \in Path /\ g[e.path] # Absent /\ ~RefClash(f, g, e.path)
           /\ \A r \in Path : Below(r, e.path) => ~RefClash(f, g, r)
<1>1. e \in Differing(f, g) /\ ~IsTypeClash(e) /\ e.remote # Absent
  BY DEF Installable
<1> QED BY <1>1, DifferingIs

\* What a handler records is a leaf, what is forgotten leaves nothing.
LEMMA RecordsAreTyped == Spec => []Typed
<1>1. Init => Typed
  BY DEF Init, Typed
<1>2. ASSUME Typed, [Next]_vars PROVE Typed'
  <2>1. ASSUME NEW d \in Device, NEW p \in Path, NEW leaf \in Leaf \cup {Absent},
               Record(d, p, leaf)
        PROVE  Typed'
    <3> HIDE DEF Leaf
    <3> QED BY <1>2, <2>1 DEF Record, Typed
  <2>2. ASSUME NEW d \in Device, onLocalChange(d) PROVE Typed'
    <3>1. Tombstone \in Leaf /\ \A c \in Content : Live(c) \in Leaf
      BY DEF Leaf
    <3> QED BY <2>1, <2>2, <3>1 DEF onLocalChange
  <2>3. ASSUME NEW d \in Device, handleCompletion(d) PROVE Typed'
    BY <2>1, <2>3 DEF handleCompletion
  <2>4. ASSUME NEW d \in Device, gcTombstones(d) PROVE Typed'
    BY <2>1, <2>4 DEF gcTombstones
  <2>5. CASE UNCHANGED vars
    BY <1>2, <2>5 DEF Typed, vars
  <2> QED BY <1>2, <2>2, <2>3, <2>4, <2>5 DEF Next
<1> QED BY <1>1, <1>2, PTL DEF Spec

\* BuildTree takes its leaves in the order of a Go map; the tree, its hashes included, or
\* the error is the same for every order.
THEOREM OrderIsIrrelevant == Spec => []SameTreeInAnyOrder
<1>1. SameTreeInAnyOrder
  <2>1. ASSUME NEW f, NEW s \in SetToSeqs(Recorded(f)) PROVE BuildTreeInOrder(f, s) = BuildTree(f)
    BY BuildsTheTree, BuildTreeIs
  <2> QED BY <2>1 DEF SameTreeInAnyOrder
<1> QED BY <1>1, PTL

\* Update, which re-hashes one branch, gives the tree or the error of a full BuildTree.
THEOREM UpdateEqualsRebuild == Spec => []UpdateIsRebuild
<1>1. Typed => UpdateIsRebuild
  <2> SUFFICES ASSUME Typed, NEW d \in Device, BuildTree(files[d]) # NilTree,
                      NEW p \in Path, NEW leaf \in Leaf
               PROVE  Update(BuildTree(files[d]), p, leaf) = BuildTree([files[d] EXCEPT ![p] = leaf])
    BY DEF UpdateIsRebuild
  <2>1. DOMAIN files[d] = Path
    BY DEF Typed
  <2>2. Fitting(Recorded(files[d]))
    BY BuildTreeIs
  <2> QED BY <2>1, <2>2, UpdateRebuilds
<1> QED BY <1>1, RecordsAreTyped, PTL

\* The pruned walk of Diff finds every difference of the leaf sets and nothing else.
THEOREM DiffExact == Spec => []DiffIsExact
<1>1. DiffIsExact
  <2>1. ASSUME NEW f, NEW g, BuildTree(f) # NilTree, BuildTree(g) # NilTree
        PROVE  Diff(BuildTree(f), BuildTree(g)) = RefDiff(f, g)
    <3>1. IsTree(BuildTree(f), f) /\ IsTree(BuildTree(g), g)
      BY <2>1, BuildTreeIs
    <3> QED BY <3>1, DiffIsRefDiff
  <2> QED BY <2>1 DEF DiffIsExact
<1> QED BY <1>1, PTL

\* Two root hashes are equal exactly when the leaf sets are.
THEOREM RootHashDecides == Spec => []RootIsOracle
<1>1. Typed => RootIsOracle
  <2> SUFFICES ASSUME Typed, NEW d \in Device,
                      BuildTree(files[d]) # NilTree, BuildTree(files[Peer(d)]) # NilTree,
                      RootHash(BuildTree(files[d])) = RootHash(BuildTree(files[Peer(d)]))
               PROVE  files[d] = files[Peer(d)]
    BY DEF RootIsOracle
  <2> DEFINE f == files[d]
             g == files[Peer(d)]
             t == BuildTree(f)
             u == BuildTree(g)
  <2>1. IsTree(t, f) /\ IsTree(u, g)
    BY BuildTreeIs
  <2>2. t[<<>>].hash = u[<<>>].hash
    BY DEF RootHash
  <2>3. f \in [Path -> Leaf \cup {Absent}] /\ g \in [Path -> Leaf \cup {Absent}]
    BY PeerIsOther DEF Typed
  <2> HIDE DEF f, g, t, u
  <2>4. <<>> \in DOMAIN t /\ <<>> \in DOMAIN u
    BY <2>1 DEF IsTree, NodesOf
  <2>5. ASSUME NEW p \in Path PROVE f[p] = g[p]
    <3>1. p \in Seq(Name) /\ <<>> \in Dirs(p)
      BY PathsAreSequences
    <3>2. (p \in DOMAIN t <=> p \in DOMAIN u) /\ (p \in DOMAIN t => t[p] = u[p])
      BY <2>1, <2>2, <2>4, <3>1, SameHashSameTree
    <3>3. Lookup(t, p) = Lookup(u, p)
      BY <3>2 DEF Lookup
    <3> QED BY <2>1, <3>3, TreeTellsLeaves
  <2>6. f = g
    BY <2>3, <2>5
  <2> QED BY <2>6 DEF f, g
<1> QED BY <1>1, RecordsAreTyped, PTL

\* The leaves that one diff lets through nest neither with each other nor with what is
\* recorded: the first would be a clash of the peer's own tree, the second one it refuses.
LEMMA InstallsDoNotNest ==
    ASSUME NEW f, NEW g, Fitting(Recorded(f)),
           NEW p \in Path, NEW q \in Path, Below(q, p),
           f[p] # Absent \/ \E e \in Installable(f, g) : e.path = p,
           f[q] # Absent \/ \E e \in Installable(f, g) : e.path = q
    PROVE  FALSE
<1> DEFINE New(r) == \E e \in Installable(f, g) : e.path = r
<1>1. ASSUME NEW r \in Path, New(r)
      PROVE  /\ g[r] # Absent /\ ~RefClash(f, g, r)
             /\ \A x \in Path : Below(x, r) => ~RefClash(f, g, x)
  BY <1>1, InstallableIs
<1>2. ASSUME New(p) PROVE Fitting(Recorded(g))
  <2>1. BuildTree(g) # NilTree
    BY <1>2 DEF Installable, Differing
  <2> QED BY <2>1, BuildTreeIs
<1>3. CASE f[p] # Absent /\ f[q] # Absent
  BY <1>3 DEF Fitting, Recorded
<1>4. CASE f[p] # Absent /\ New(q)
  <2>1. HasBelow(f, q)
    BY <1>4 DEF HasBelow
  <2>2. g[q] # Absent /\ ~RefClash(f, g, q)
    BY <1>1, <1>4
  <2> QED BY <2>1, <2>2 DEF RefClash
<1>5. CASE f[q] # Absent /\ New(p)
  <2>1. g[p] # Absent /\ ~RefClash(f, g, q)
    BY <1>1, <1>5
  <2>2. HasBelow(g, q)
    BY <2>1 DEF HasBelow
  <2> QED BY <1>5, <2>1, <2>2 DEF RefClash
<1>6. CASE New(p) /\ New(q)
  <2>1. g[p] # Absent /\ g[q] # Absent
    BY <1>1, <1>6
  <2>2. Fitting(Recorded(g))
    BY <1>2, <1>6
  <2> QED BY <2>1, <2>2 DEF Fitting, Recorded
<1> QED BY <1>3, <1>4, <1>5, <1>6

\* Whichever of one diff's entries are installed, the recorded leaves still make a tree.
THEOREM InstallsKeepTrees == Spec => []InstallsKeepTree
<1>1. InstallsKeepTree
  <2> SUFFICES ASSUME NEW d \in Device, BuildTree(files[d]) # NilTree,
                      NEW S \in SUBSET Installable(files[d], files[Peer(d)])
               PROVE  BuildTree(Installed(files[d], S)) # NilTree
    BY DEF InstallsKeepTree
  <2> DEFINE f == files[d]
             g == files[Peer(d)]
             new == Installed(f, S)
  <2>1. Fitting(Recorded(f))
    BY BuildTreeIs
  <2>2. ASSUME NEW p \in Path, new[p] # Absent
        PROVE  f[p] # Absent \/ \E e \in Installable(f, g) : e.path = p
    BY <2>2 DEF Installed
  <2> HIDE DEF new, f, g
  <2>3. ASSUME NEW p \in Recorded(new), NEW q \in Recorded(new), Below(q, p) PROVE FALSE
    <3>1. p \in Path /\ q \in Path /\ new[p] # Absent /\ new[q] # Absent
      BY DEF Recorded
    <3> QED BY <2>1, <2>2, <2>3, <3>1, InstallsDoNotNest
  <2>4. Fitting(Recorded(new))
    BY <2>3 DEF Fitting
  <2> QED BY <2>4, BuildTreeIs DEF new, f
<1> QED BY <1>1, PTL
=============================================================================
