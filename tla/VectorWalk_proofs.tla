------------------------- MODULE VectorWalk_proofs --------------------------
(***************************************************************************)
(* The loops over sorted counter lists compute the pointwise order and     *)
(* maximum, and the codec is exact, for any devices and any counters.      *)
(*                                                                         *)
(* A list is canonical for a vector (Canonical) when it is ascending and   *)
(* holds its counters and no others; NewVersionVector gives one, and there *)
(* is no other, because the k-th counter is that of the device with k      *)
(* devices up to it. So it is enough to show that Merge and Bump give a    *)
(* canonical list. The invariant of the loops says that what has been      *)
(* walked of either list is below what is left of the other (Apart), and   *)
(* what the accumulators say of the walked parts.                          *)
(***************************************************************************)
EXTENDS VectorWalk, Resolver_proofs, QueueLemmas, FiniteSetTheorems, SequenceTheorems

Counters == [id : Device, value : Nat]

Ascending(s) == \A k, l \in 1 .. Len(s) : k < l => s[k].id < s[l].id

\* s holds the non-zero counters of m in ascending order.
Canonical(s, m) ==
    /\ s \in Seq(Counters) /\ Ascending(s)
    /\ \A k \in 1 .. Len(s) : s[k].value = m[s[k].id] /\ s[k].value > 0
    /\ \A d \in Device : m[d] > 0 => \E k \in 1 .. Len(s) : s[k].id = d

-----------------------------------------------------------------------------
(* Ranks. *)

Below(S, d) == {e \in S : e <= d}

\* Devices are numbers, and finitely many.
LEMMA DevicesAreFinite ==
    /\ \A d \in Device : d \in Nat
    /\ \A S \in SUBSET Device : IsFiniteSet(S) /\ Cardinality(S) \in Nat
<1>1. \A d \in Device : d \in Nat /\ d <= MaxShortID
  BY DeviceAssumption
<1>2. ASSUME NEW S \in SUBSET Device PROVE IsFiniteSet(S)
  <2>1. S \in SUBSET Nat /\ \A d \in S : d <= MaxShortID
    BY <1>1
  <2> QED BY <2>1, DeviceAssumption, FS_BoundedSetOfNaturals
<1> QED BY <1>1, <1>2, FS_CardinalityType

\* The number of devices of S up to d is between 1 and their number, and grows with d.
LEMMA RankGrows ==
    ASSUME NEW S \in SUBSET Device, NEW d \in S
    PROVE  /\ Cardinality(Below(S, d)) \in 1 .. Cardinality(S)
           /\ \A e \in S : d < e => Cardinality(Below(S, d)) < Cardinality(Below(S, e))
<1>1. \A e \in S : e \in Nat
  BY DevicesAreFinite
<1>2. \A e \in S : /\ Below(S, e) \in SUBSET Device /\ Below(S, e) \in SUBSET S
                   /\ IsFiniteSet(Below(S, e)) /\ Cardinality(Below(S, e)) \in Nat
  BY DevicesAreFinite DEF Below
<1>3. IsFiniteSet(S) /\ Cardinality(S) \in Nat
  BY DevicesAreFinite
<1>4. Cardinality(Below(S, d)) <= Cardinality(S)
  BY <1>2, <1>3, FS_Subset
<1>5. Cardinality(Below(S, d)) # 0
  <2>1. d \in Below(S, d)
    BY <1>1 DEF Below
  <2> QED BY <1>2, <2>1, FS_EmptySet
<1>6. ASSUME NEW e \in S, d < e PROVE Cardinality(Below(S, d)) < Cardinality(Below(S, e))
  <2>1. Below(S, d) \in SUBSET Below(S, e)
    BY <1>1, <1>6 DEF Below
  <2>2. e \in Below(S, e) /\ e \notin Below(S, d)
    BY <1>1, <1>6 DEF Below
  <2>3. /\ Cardinality(Below(S, d)) <= Cardinality(Below(S, e))
        /\ Cardinality(Below(S, d)) # Cardinality(Below(S, e))
    BY <1>2, <2>1, <2>2, FS_Subset
  <2> QED BY <1>2, <2>3
<1> QED BY <1>2, <1>3, <1>4, <1>5, <1>6

\* Every rank belongs to exactly one device of S.
LEMMA RankIsUnique ==
    ASSUME NEW S \in SUBSET Device, NEW d \in S, NEW e \in S,
           Cardinality(Below(S, d)) = Cardinality(Below(S, e))
    PROVE  d = e
<1>1. d \in Nat /\ e \in Nat
  BY DevicesAreFinite
<1>2. Cardinality(Below(S, d)) \in Nat /\ Cardinality(Below(S, e)) \in Nat
  BY RankGrows
<1>3. ~(d < e) /\ ~(e < d)
  BY <1>2, RankGrows
<1> QED BY <1>1, <1>3

LEMMA RankExists ==
    ASSUME NEW S \in SUBSET Device, NEW k \in 1 .. Cardinality(S)
    PROVE  \E d \in S : Cardinality(Below(S, d)) = k
<1> DEFINE n == Cardinality(S)
           f == [d \in S |-> Cardinality(Below(S, d))]
<1>1. IsFiniteSet(S) /\ n \in Nat
  BY DevicesAreFinite
<1>2. f \in [S -> 1 .. n]
  BY RankGrows
<1>3. \A d, e \in S : f[d] = f[e] => d = e
  BY RankIsUnique
<1> HIDE DEF f
<1>4. f \in Injection(S, 1 .. n)
  BY <1>2, <1>3 DEF Injection, IsInjective
<1>5. IsFiniteSet(1 .. n) /\ Cardinality(1 .. n) = n
  BY <1>1, FS_Interval
<1>6. f \in Surjection(S, 1 .. n)
  BY <1>4, <1>5, FS_Injection
<1>7. PICK d \in S : f[d] = k
  BY <1>6 DEF Surjection
<1> QED BY <1>7 DEF f

-----------------------------------------------------------------------------
(* Canonical lists. *)

\* The devices of m with a counter.
Ids(m) == {d \in Device : m[d] > 0}

\* NewVersionVector, with the rank spelled out.
LEMMA ListIs ==
    ASSUME NEW m
    PROVE  NewVersionVector(m) =
             [k \in 1 .. Cardinality(Ids(m)) |->
                 Counter(CHOOSE d \in Ids(m) : Cardinality(Below(Ids(m), d)) = k,
                         m[CHOOSE d \in Ids(m) : Cardinality(Below(Ids(m), d)) = k])]
BY DEF NewVersionVector, Ids, Below

LEMMA CounterTyped ==
    ASSUME NEW m \in VersionVector, NEW s, Canonical(s, m)
    PROVE  /\ s \in Seq(Counters) /\ Len(s) \in Nat
           /\ \A k \in 1 .. Len(s) :
                 /\ s[k] \in Counters /\ s[k].id \in Device /\ s[k].id \in Nat
                 /\ s[k].value \in Nat /\ s[k].value > 0 /\ m[s[k].id] = s[k].value
<1>1. s \in Seq(Counters) /\ Len(s) \in Nat
  BY DEF Canonical
<1>2. \A k \in 1 .. Len(s) : s[k] \in Counters
  BY <1>1
<1>3. \A c \in Counters : c.id \in Device /\ c.value \in Nat
  BY DEF Counters
<1> QED BY <1>1, <1>2, <1>3, DevicesAreFinite DEF Canonical

\* What NewVersionVector gives is canonical.
LEMMA ListIsCanonical ==
    ASSUME NEW m \in VersionVector
    PROVE  Canonical(NewVersionVector(m), m)
<1> DEFINE S == Ids(m)
           n == Cardinality(S)
           at(k) == CHOOSE d \in S : Cardinality(Below(S, d)) = k
           s == NewVersionVector(m)
<1>1. S \in SUBSET Device /\ IsFiniteSet(S) /\ n \in Nat
  BY DevicesAreFinite DEF Ids
<1>2. ASSUME NEW k \in 1 .. n PROVE at(k) \in S /\ Cardinality(Below(S, at(k))) = k
  <2>1. \E d \in S : Cardinality(Below(S, d)) = k
    BY <1>1, RankExists
  <2> QED BY <2>1
<1>3. s = [k \in 1 .. n |-> Counter(at(k), m[at(k)])]
  BY ListIs
<1> HIDE DEF S, n, at, s
<1>4. ASSUME NEW k \in 1 .. n
      PROVE  /\ s[k] \in Counters /\ s[k].id = at(k) /\ s[k].value = m[at(k)]
             /\ at(k) \in S /\ m[at(k)] > 0 /\ m[at(k)] \in Nat
  <2>1. s[k] = [id |-> at(k), value |-> m[at(k)]]
    BY <1>3 DEF Counter
  <2>2. at(k) \in Device /\ m[at(k)] > 0 /\ m[at(k)] \in Nat
    BY <1>2 DEF S, Ids, VersionVector
  <2> QED BY <1>2, <2>1, <2>2 DEF Counters
<1>5. s \in Seq(Counters) /\ Len(s) = n
  BY <1>1, <1>3, <1>4
<1>6. ASSUME NEW k \in 1 .. n, NEW l \in 1 .. n, k < l PROVE at(k) < at(l)
  <2>1. at(k) \in S /\ at(l) \in S /\ at(k) \in Nat /\ at(l) \in Nat
    BY <1>1, <1>2, DevicesAreFinite
  <2>2. at(k) # at(l)
    BY <1>2, <1>6
  <2>3. ~(at(l) < at(k))
    <3>1. at(l) < at(k) => Cardinality(Below(S, at(l))) < Cardinality(Below(S, at(k)))
      BY <1>1, <2>1, RankGrows
    <3> QED BY <1>2, <1>6, <3>1
  <2> QED BY <2>1, <2>2, <2>3
<1>7. Ascending(s)
  BY <1>4, <1>5, <1>6 DEF Ascending
<1>8. ASSUME NEW d \in Device, m[d] > 0 PROVE \E k \in 1 .. Len(s) : s[k].id = d
  <2>1. d \in S
    BY <1>8 DEF S, Ids
  <2>2. PICK k \in 1 .. n : Cardinality(Below(S, d)) = k
    BY <1>1, <2>1, RankGrows DEF n
  <2>3. at(k) = d
    BY <1>1, <1>2, <2>1, <2>2, RankIsUnique
  <2> QED BY <1>4, <1>5, <2>3
<1>9. \A k \in 1 .. Len(s) : s[k].value = m[s[k].id] /\ s[k].value > 0
  BY <1>4, <1>5
<1>10. Canonical(s, m)
  BY <1>5, <1>7, <1>8, <1>9 DEF Canonical
<1> QED BY <1>10 DEF s

\* In an ascending list the k-th counter has k devices up to its own.
LEMMA RankInList ==
    ASSUME NEW m \in VersionVector, NEW s, Canonical(s, m)
    PROVE  /\ Len(s) = Cardinality(Ids(m))
           /\ \A k \in 1 .. Len(s) : s[k].id \in Ids(m) /\ Cardinality(Below(Ids(m), s[k].id)) = k
<1> DEFINE S == Ids(m)
<1>1. S \in SUBSET Device /\ IsFiniteSet(S) /\ \A d \in S : d \in Nat
  BY DevicesAreFinite DEF Ids
<1>2. Len(s) \in Nat /\ \A k \in 1 .. Len(s) : s[k].id \in S
  BY CounterTyped DEF Ids
<1>3. ASSUME NEW n \in 0 .. Len(s), NEW T,
             T \subseteq S, \A d \in S : d \in T <=> \E k \in 1 .. n : s[k].id = d
      PROVE  Cardinality(T) = n
  <2> DEFINE f == [k \in 1 .. n |-> s[k].id]
  <2>1. f \in [1 .. n -> T]
    BY <1>2, <1>3
  <2>2. \A k, l \in 1 .. n : f[k] = f[l] => k = l
    <3> SUFFICES ASSUME NEW k \in 1 .. n, NEW l \in 1 .. n, s[k].id = s[l].id PROVE k = l
      OBVIOUS
    <3>1. k \in 1 .. Len(s) /\ l \in 1 .. Len(s)
      BY <1>2
    <3>2. s[k].id \in Nat /\ s[l].id \in Nat
      BY <1>1, <1>2, <3>1
    <3>3. ~(k < l) /\ ~(l < k)
      BY <3>1, <3>2 DEF Canonical, Ascending
    <3> QED BY <3>3
  <2>3. \A d \in T : \E k \in 1 .. n : f[k] = d
    BY <1>3
  <2> HIDE DEF f
  <2>4. f \in Bijection(1 .. n, T)
    BY <2>1, <2>2, <2>3 DEF Bijection, Injection, Surjection, IsInjective
  <2>5. ExistsBijection(1 .. n, T)
    BY <2>4 DEF ExistsBijection
  <2>6. IsFiniteSet(1 .. n) /\ Cardinality(1 .. n) = n
    BY <1>2, FS_Interval
  <2> QED BY <2>5, <2>6, FS_Bijection
<1>4. Len(s) = Cardinality(S)
  <2>1. \A d \in S : d \in S <=> \E k \in 1 .. Len(s) : s[k].id = d
    BY DEF Canonical, Ids
  <2>2. Len(s) \in 0 .. Len(s)
    BY <1>2
  <2> QED BY <1>3, <2>1, <2>2
<1>5. ASSUME NEW k \in 1 .. Len(s) PROVE Cardinality(Below(S, s[k].id)) = k
  <2>1. Below(S, s[k].id) \subseteq S /\ k \in 0 .. Len(s)
    BY <1>2 DEF Below
  <2>2. ASSUME NEW d \in S
        PROVE  d \in Below(S, s[k].id) <=> \E l \in 1 .. k : s[l].id = d
    <3>1. PICK x \in 1 .. Len(s) : s[x].id = d
      BY DEF Canonical, Ids
    <3>2. d \in Nat /\ s[k].id \in Nat
      BY <1>1, <1>2
    <3>3. x < k => d < s[k].id
      BY <3>1 DEF Canonical, Ascending
    <3>4. k < x => s[k].id < d
      BY <3>1 DEF Canonical, Ascending
    <3>5. d <= s[k].id <=> x <= k
      <4>1. CASE x < k
        BY <3>2, <3>3, <4>1
      <4>2. CASE k < x
        BY <3>2, <3>4, <4>2
      <4>3. CASE x = k
        BY <3>1, <3>2, <4>3
      <4> QED BY <1>2, <4>1, <4>2, <4>3
    <3>6. ASSUME NEW l \in 1 .. k, s[l].id = d PROVE d <= s[k].id
      <4>1. l \in 1 .. Len(s)
        BY <1>2
      <4>2. l < k => d < s[k].id
        BY <3>6, <4>1 DEF Canonical, Ascending
      <4> QED BY <3>2, <3>6, <4>2
    <3> QED BY <3>1, <3>5, <3>6 DEF Below
  <2> QED BY <1>3, <2>1, <2>2
<1> QED BY <1>2, <1>4, <1>5

\* There is no other canonical list.
LEMMA CanonicalIsUnique ==
    ASSUME NEW m \in VersionVector, NEW s, NEW t, Canonical(s, m), Canonical(t, m)
    PROVE  s = t
<1>1. s \in Seq(Counters) /\ t \in Seq(Counters) /\ Len(s) = Len(t)
  BY RankInList DEF Canonical
<1>2. ASSUME NEW k \in 1 .. Len(s) PROVE s[k] = t[k]
  <2>1. Ids(m) \in SUBSET Device
    BY DEF Ids
  <2>2. /\ s[k].id \in Ids(m) /\ Cardinality(Below(Ids(m), s[k].id)) = k
        /\ t[k].id \in Ids(m) /\ Cardinality(Below(Ids(m), t[k].id)) = k
    BY <1>1, RankInList
  <2>3. s[k].id = t[k].id
    BY <2>1, <2>2, RankIsUnique
  <2>4. s[k].value = t[k].value /\ s[k] \in Counters /\ t[k] \in Counters
    BY <1>1, <2>3 DEF Canonical
  <2> QED BY <2>3, <2>4 DEF Counters
<1> QED BY <1>1, <1>2, SameQueue

-----------------------------------------------------------------------------
(* Search, Get and Bump. *)

LEMMA MinExists ==
    ASSUME NEW S \in SUBSET Nat, S # {}
    PROVE  Min(S) \in S /\ \A y \in S : Min(S) <= y
<1> DEFINE R == OpToRel(<, Nat)
<1>1. IsWellFoundedOn(R, Nat)
  BY NatLessThanWellFounded
<1>2. \A x, y \in Nat : y < x => <<y, x>> \in R
  BY DEF OpToRel
<1> HIDE DEF R
<1>3. PICK x \in S : \A y \in S : ~(<<y, x>> \in R)
  BY <1>1, WFMin
<1>4. ASSUME NEW y \in S PROVE x <= y
  <2>1. x \in Nat /\ y \in Nat /\ ~(<<y, x>> \in R)
    BY <1>3
  <2>2. ~(y < x)
    BY <1>2, <2>1
  <2> QED BY <2>1, <2>2
<1> QED BY <1>4 DEF Min

\* sort.Search finds the place of d: smaller devices are before it, no smaller one behind.
LEMMA SearchIs ==
    ASSUME NEW m \in VersionVector, NEW s, Canonical(s, m), NEW d \in Device
    PROVE  /\ search(s, d) \in 1 .. Len(s) + 1
           /\ \A k \in 1 .. Len(s) : k < search(s, d) => s[k].id < d
           /\ \A k \in 1 .. Len(s) : k >= search(s, d) => s[k].id >= d
<1> DEFINE S == {k \in 1 .. Len(s) : s[k].id >= d} \cup {Len(s) + 1}
           f == search(s, d)
<1>1. Len(s) \in Nat /\ d \in Nat /\ \A k \in 1 .. Len(s) : s[k].id \in Nat
  BY CounterTyped, DevicesAreFinite
<1>2. S \in SUBSET Nat /\ S # {}
  BY <1>1
<1>3. f = Min(S)
  BY DEF search
<1>4. f \in S /\ \A y \in S : f <= y
  BY <1>2, <1>3, MinExists
<1>5. f \in 1 .. Len(s) + 1
  BY <1>1, <1>4
<1>6. ASSUME NEW k \in 1 .. Len(s), k < f PROVE s[k].id < d
  <2>1. k \notin S
    BY <1>4, <1>5, <1>6
  <2>2. ~(s[k].id >= d)
    BY <2>1
  <2> QED BY <1>1, <2>2
<1>7. ASSUME NEW k \in 1 .. Len(s), k >= f PROVE s[k].id >= d
  <2>1. f \in 1 .. Len(s) /\ s[f].id >= d
    BY <1>1, <1>4, <1>5, <1>7
  <2>2. f = k \/ s[f].id < s[k].id
    BY <1>7, <2>1 DEF Canonical, Ascending
  <2>3. s[f].id \in Nat /\ s[k].id \in Nat
    BY <1>1, <2>1
  <2> QED BY <1>1, <2>1, <2>2, <2>3
<1> QED BY <1>5, <1>6, <1>7

\* Get reads the counter of the vector, 0 for a device that has none.
LEMMA GetIsPointwise ==
    ASSUME NEW m \in VersionVector, NEW s, Canonical(s, m), NEW d \in Device
    PROVE  /\ Get(s, d) = m[d]
           /\ Has(s, d) <=> m[d] > 0
           /\ Has(s, d) => search(s, d) \in 1 .. Len(s)
<1> DEFINE f == search(s, d)
<1>1. m[d] \in Nat /\ d \in Nat /\ Len(s) \in Nat
  BY CounterTyped, DevicesAreFinite DEF VersionVector
<1>2. f \in 1 .. Len(s) + 1
  BY SearchIs
<1>3. ASSUME Has(s, d)
      PROVE  f \in 1 .. Len(s) /\ m[d] > 0 /\ s[f].value = m[d]
  <2>1. f \in 1 .. Len(s) /\ s[f].id = d
    BY <1>1, <1>2, <1>3 DEF Has
  <2> QED BY <2>1, CounterTyped
<1>4. ASSUME m[d] > 0 PROVE Has(s, d)
  <2>1. PICK k \in 1 .. Len(s) : s[k].id = d
    BY <1>4 DEF Canonical
  <2>2. ~(k < f)
    BY <1>1, <2>1, SearchIs
  <2>3. f \in 1 .. Len(s) /\ s[f].id \in Nat /\ s[f].id >= d
    BY <1>2, <2>2, SearchIs, CounterTyped
  <2>4. f = k \/ s[f].id < s[k].id
    BY <2>2, <2>3 DEF Canonical, Ascending
  <2>5. s[f].id = d
    BY <1>1, <2>1, <2>3, <2>4
  <2> QED BY <2>3, <2>5 DEF Has
<1>5. CASE Has(s, d)
  BY <1>3, <1>5 DEF Get
<1>6. CASE ~Has(s, d)
  BY <1>1, <1>4, <1>6 DEF Get
<1> QED BY <1>3, <1>4, <1>5, <1>6

LEMMA BumpTyped ==
    ASSUME NEW m \in VersionVector, NEW d \in Device
    PROVE  /\ Bump(m, d) \in VersionVector /\ Bump(m, d)[d] = m[d] + 1
           /\ \A e \in Device : e # d => Bump(m, d)[e] = m[e]
           /\ \A e \in Device : m[e] \in Nat
BY DEF Bump, VersionVector

\* A first counter inserted at its place.
LEMMA InsertKeeps ==
    ASSUME NEW m \in VersionVector, NEW s, Canonical(s, m), NEW d \in Device, m[d] = 0,
           NEW f \in 1 .. Len(s) + 1,
           \A k \in 1 .. Len(s) : (k < f => s[k].id < d) /\ (k >= f => s[k].id >= d),
           NEW c \in Counters, c.id = d, c.value = 1,
           NEW t \in Seq(Counters), Len(t) = Len(s) + 1, t[f] = c,
           \A k \in 1 .. f - 1 : t[k] = s[k],
           \A k \in f + 1 .. Len(s) + 1 : t[k] = s[k - 1]
    PROVE  Canonical(t, Bump(m, d))
<1> DEFINE b == Bump(m, d)
<1>1. /\ s \in Seq(Counters) /\ Len(s) \in Nat /\ d \in Nat
      /\ \A k \in 1 .. Len(s) :
            /\ s[k] \in Counters /\ s[k].id \in Device /\ s[k].id \in Nat
            /\ s[k].value \in Nat /\ s[k].value > 0 /\ m[s[k].id] = s[k].value
  BY CounterTyped, DevicesAreFinite
<1>2. /\ b \in VersionVector /\ b[d] = m[d] + 1 /\ m[d] \in Nat
      /\ \A e \in Device : e # d => b[e] = m[e]
  BY BumpTyped
<1>4. c.id = d /\ c.value = 1 /\ m[d] = 0
  OBVIOUS
<1>5. \A k \in 1 .. Len(s) : s[k].id # d
  BY <1>1, <1>2
<1>6. \A k \in 1 .. Len(s) : (k < f => s[k].id < d) /\ (k >= f => d < s[k].id)
  BY <1>1, <1>5
<1>7. /\ t \in Seq(Counters) /\ Len(t) = Len(s) + 1
      /\ \A k \in 1 .. f - 1 : t[k] = s[k]
      /\ t[f] = c
      /\ \A k \in f + 1 .. Len(s) + 1 : t[k] = s[k - 1]
  OBVIOUS
<1> HIDE DEF b
<1>8. ASSUME NEW k \in 1 .. Len(s) + 1
      PROVE  \/ k = f /\ t[k] = c
             \/ k < f /\ k \in 1 .. Len(s) /\ t[k] = s[k]
             \/ k > f /\ k - 1 \in 1 .. Len(s) /\ k - 1 >= f /\ t[k] = s[k - 1]
  <2>1. CASE k = f
    BY <1>7, <2>1
  <2>2. CASE k < f
    BY <1>1, <1>7, <2>2
  <2>3. CASE k > f
    BY <1>1, <1>7, <2>3
  <2> QED BY <1>1, <2>1, <2>2, <2>3
<1>9. ASSUME NEW k \in 1 .. Len(s) + 1, NEW l \in 1 .. Len(s) + 1, k < l
      PROVE  t[k].id < t[l].id
  <2>1. \A x, y \in 1 .. Len(s) : x < y => s[x].id < s[y].id
    BY DEF Canonical, Ascending
  <2>2. CASE l = f
    <3>1. t[l].id = d /\ k < f
      BY <1>4, <1>7, <1>9, <2>2
    <3>2. k \in 1 .. Len(s) /\ t[k] = s[k]
      BY <1>1, <1>8, <3>1
    <3> QED BY <1>6, <3>1, <3>2
  <2>3. CASE k = f
    <3>1. t[k].id = d /\ l > f
      BY <1>4, <1>7, <1>9, <2>3
    <3>2. l - 1 \in 1 .. Len(s) /\ l - 1 >= f /\ t[l] = s[l - 1]
      BY <1>1, <1>8, <3>1
    <3> QED BY <1>6, <3>1, <3>2
  <2>4. CASE k # f /\ l # f
    <3>1. CASE k < f /\ l < f
      BY <1>1, <1>8, <1>9, <2>1, <3>1
    <3>2. CASE k < f /\ l > f
      <4>1. t[k] = s[k] /\ t[l] = s[l - 1] /\ k \in 1 .. Len(s) /\ l - 1 \in 1 .. Len(s) /\ k < l - 1
        BY <1>1, <1>8, <3>2
      <4> QED BY <2>1, <4>1
    <3>3. CASE k > f /\ l > f
      <4>1. /\ t[k] = s[k - 1] /\ t[l] = s[l - 1] /\ k - 1 \in 1 .. Len(s)
            /\ l - 1 \in 1 .. Len(s) /\ k - 1 < l - 1
        BY <1>1, <1>8, <1>9, <3>3
      <4> QED BY <2>1, <4>1
    <3> QED BY <1>1, <1>9, <2>4, <3>1, <3>2, <3>3
  <2> QED BY <2>2, <2>3, <2>4
<1>10. Ascending(t)
  BY <1>7, <1>9 DEF Ascending
<1>11. ASSUME NEW k \in 1 .. Len(s) + 1 PROVE t[k].value = b[t[k].id] /\ t[k].value > 0
  <2>1. CASE t[k] = c
    BY <1>2, <1>4, <2>1
  <2>2. ASSUME NEW x \in 1 .. Len(s), t[k] = s[x] PROVE t[k].value = b[t[k].id] /\ t[k].value > 0
    BY <1>1, <1>2, <1>5, <2>2
  <2> QED BY <1>8, <2>1, <2>2
<1>12. ASSUME NEW e \in Device, b[e] > 0 PROVE \E k \in 1 .. Len(t) : t[k].id = e
  <2>1. CASE e = d
    BY <1>1, <1>4, <1>7, <2>1
  <2>2. CASE e # d
    <3>1. PICK k \in 1 .. Len(s) : s[k].id = e
      BY <1>2, <1>12, <2>2 DEF Canonical
    <3>2. CASE k < f
      <4>1. k \in 1 .. f - 1 /\ k \in 1 .. Len(t)
        BY <1>1, <1>7, <3>2
      <4> QED BY <1>7, <3>1, <4>1
    <3>3. CASE k >= f
      <4>1. k + 1 \in f + 1 .. Len(s) + 1 /\ k + 1 \in 1 .. Len(t) /\ (k + 1) - 1 = k
        BY <1>1, <1>7, <3>3
      <4> QED BY <1>7, <3>1, <4>1
    <3> QED BY <1>1, <3>2, <3>3
  <2> QED BY <2>1, <2>2
<1>13. Canonical(t, b)
  BY <1>7, <1>10, <1>11, <1>12 DEF Canonical
<1> QED BY <1>13 DEF b

\* Bump counts up in place, or inserts the first counter of its device where it belongs.
LEMMA BumpIsPointwise ==
    ASSUME NEW m \in VersionVector, NEW s, Canonical(s, m), NEW d \in Device
    PROVE  Canonical(BumpList(s, d), Bump(m, d))
<1> DEFINE f == search(s, d)
           b == Bump(m, d)
           t == BumpList(s, d)
<1>1. /\ s \in Seq(Counters) /\ Len(s) \in Nat /\ d \in Nat /\ f \in 1 .. Len(s) + 1
      /\ \A k \in 1 .. Len(s) :
            /\ s[k] \in Counters /\ s[k].id \in Device /\ s[k].id \in Nat
            /\ s[k].value \in Nat /\ s[k].value > 0 /\ m[s[k].id] = s[k].value
  BY CounterTyped, DevicesAreFinite, SearchIs
<1>2. /\ b \in VersionVector /\ b[d] = m[d] + 1 /\ m[d] \in Nat
      /\ \A e \in Device : e # d => b[e] = m[e]
  BY BumpTyped
<1>3. CASE Has(s, d)
  <2>1. f \in 1 .. Len(s) /\ s[f].id = d
    BY <1>3, GetIsPointwise DEF Has
  <2>2. t = [s EXCEPT ![f].value = @ + 1]
    BY <1>3 DEF BumpList
  <2> HIDE DEF t, f, b
  <2>3. ASSUME NEW k \in 1 .. Len(s)
        PROVE  /\ t[k] \in Counters /\ t[k].id = s[k].id
               /\ t[k].value = IF k = f THEN s[k].value + 1 ELSE s[k].value
    BY <1>1, <2>1, <2>2 DEF Counters
  <2>4. t \in Seq(Counters) /\ Len(t) = Len(s)
    <3>1. DOMAIN s = 1 .. Len(s)
      BY <1>1
    <3>2. t \in [1 .. Len(s) -> Counters]
      <4>1. DOMAIN t = 1 .. Len(s) /\ t = [k \in DOMAIN s |-> t[k]]
        BY <2>2, <3>1
      <4> QED BY <2>3, <3>1, <4>1
    <3> QED BY <1>1, <3>2
  <2>5. Ascending(t)
    BY <2>3, <2>4 DEF Canonical, Ascending
  <2>6. ASSUME NEW k \in 1 .. Len(t) PROVE t[k].value = b[t[k].id] /\ t[k].value > 0
    <3>1. k \in 1 .. Len(s) /\ s[k].id \in Device /\ s[k].value \in Nat /\ s[k].value > 0
      BY <1>1, <2>4
    <3>2. CASE k = f
      BY <1>1, <1>2, <2>1, <2>3, <3>1, <3>2
    <3>3. CASE k # f
      <4>1. s[k].id # d
        <5>1. s[k].id < s[f].id \/ s[f].id < s[k].id
          BY <2>1, <3>1, <3>3 DEF Canonical, Ascending
        <5> QED BY <1>1, <2>1, <3>1, <5>1
      <4> QED BY <1>1, <1>2, <2>3, <3>1, <3>3, <4>1
    <3> QED BY <3>2, <3>3
  <2>7. ASSUME NEW e \in Device, b[e] > 0 PROVE \E k \in 1 .. Len(t) : t[k].id = e
    <3>1. CASE e = d
      BY <2>1, <2>3, <2>4, <3>1
    <3>2. CASE e # d
      <4>1. PICK k \in 1 .. Len(s) : s[k].id = e
        BY <1>2, <2>7, <3>2 DEF Canonical
      <4> QED BY <2>3, <2>4, <4>1
    <3> QED BY <3>1, <3>2
  <2>8. Canonical(t, b)
    BY <2>4, <2>5, <2>6, <2>7 DEF Canonical
  <2> QED BY <2>8 DEF t, b
<1>4. CASE ~Has(s, d)
  <2>1. t = PutAt(s, f, Counter(d, 1))
    BY <1>4 DEF BumpList, PutAt
  <2>2. m[d] = 0
    BY <1>2, <1>4, GetIsPointwise
  <2>3. \A k \in 1 .. Len(s) : (k < f => s[k].id < d) /\ (k >= f => s[k].id >= d)
    BY SearchIs
  <2>4. Counter(d, 1) \in Counters /\ Counter(d, 1).id = d /\ Counter(d, 1).value = 1
    BY DEF Counter, Counters
  <2>5. f \in 1 .. Len(s) + 1 /\ s \in Seq(Counters)
    BY <1>1
  <2> HIDE DEF t, f, b
  <2>7. /\ t \in Seq(Counters) /\ Len(t) = Len(s) + 1 /\ t[f] = Counter(d, 1)
        /\ \A k \in 1 .. f - 1 : t[k] = s[k]
        /\ \A k \in f + 1 .. Len(s) + 1 : t[k] = s[k - 1]
    <3> DEFINE c == Counter(d, 1)
    <3> HIDE DEF c
    <3>1. c \in Counters /\ f \in 1 .. Len(s) + 1 /\ s \in Seq(Counters) /\ t = PutAt(s, f, c)
      BY <2>1, <2>4, <2>5 DEF c
    <3>2. t \in Seq(Counters) /\ Len(t) = Len(s) + 1
      BY <3>1, Inserted
    <3>3. t[f] = c
      BY <3>1, Inserted
    <3>4. \A k \in 1 .. f - 1 : t[k] = s[k]
      BY <3>1, Inserted
    <3>5. \A k \in f + 1 .. Len(s) + 1 : t[k] = s[k - 1]
      BY <3>1, Inserted
    <3> QED BY <3>2, <3>3, <3>4, <3>5 DEF c
  <2>8. Canonical(t, Bump(m, d))
    BY <2>2, <2>3, <2>4, <2>5, <2>7, InsertKeeps, Zenon
  <2> QED BY <2>8 DEF t
<1> QED BY <1>3, <1>4

-----------------------------------------------------------------------------
(* The lock-step walk. *)

\* What is before x in v is below what is left of w from y on.
Behind(v, x, w, y) == \A k \in 1 .. x - 1, l \in y .. Len(w) : v[k].id < w[l].id

Apart(v, w, x, y) == Behind(v, x, w, y) /\ Behind(w, y, v, x)

\* The position in a list after an iteration: x is the counter there, y that of the other.
Step(k, x, y) == IF x.id <= y.id THEN k + 1 ELSE k

\* Every loop walks over v for m and over w for n, and is at x and y.
Walking(m, n, v, w, x, y) ==
    /\ m \in VersionVector /\ n \in VersionVector
    /\ Canonical(v, m) /\ Canonical(w, n)
    /\ x \in 1 .. Len(v) + 1 /\ y \in 1 .. Len(w) + 1
    /\ Apart(v, w, x, y)

LEMMA Swapped ==
    ASSUME NEW m, NEW n, NEW v, NEW w, NEW x, NEW y, Walking(m, n, v, w, x, y)
    PROVE  Walking(n, m, w, v, y, x)
BY DEF Walking, Apart

LEMMA WalkTyped ==
    ASSUME NEW m, NEW n, NEW v, NEW w, NEW x, NEW y, Walking(m, n, v, w, x, y)
    PROVE  /\ Len(v) \in Nat /\ Len(w) \in Nat /\ x \in Nat /\ y \in Nat /\ x >= 1 /\ y >= 1
           /\ \A k \in 1 .. Len(v) :
                 /\ v[k] \in Counters /\ v[k].id \in Device /\ v[k].id \in Nat
                 /\ v[k].value \in Nat /\ v[k].value > 0 /\ m[v[k].id] = v[k].value
           /\ \A k \in 1 .. Len(w) :
                 /\ w[k] \in Counters /\ w[k].id \in Device /\ w[k].id \in Nat
                 /\ w[k].value \in Nat /\ w[k].value > 0 /\ n[w[k].id] = w[k].value
           /\ \A k, l \in 1 .. Len(v) : k < l => v[k].id < v[l].id
           /\ \A k, l \in 1 .. Len(w) : k < l => w[k].id < w[l].id
<1>1. /\ m \in VersionVector /\ n \in VersionVector /\ Canonical(v, m) /\ Canonical(w, n)
      /\ x \in 1 .. Len(v) + 1 /\ y \in 1 .. Len(w) + 1
  BY DEF Walking
<1>2. /\ Len(v) \in Nat
      /\ \A k \in 1 .. Len(v) :
            /\ v[k] \in Counters /\ v[k].id \in Device /\ v[k].id \in Nat
            /\ v[k].value \in Nat /\ v[k].value > 0 /\ m[v[k].id] = v[k].value
  BY <1>1, CounterTyped
<1>3. /\ Len(w) \in Nat
      /\ \A k \in 1 .. Len(w) :
            /\ w[k] \in Counters /\ w[k].id \in Device /\ w[k].id \in Nat
            /\ w[k].value \in Nat /\ w[k].value > 0 /\ n[w[k].id] = w[k].value
  BY <1>1, CounterTyped
<1>4. /\ \A k, l \in 1 .. Len(v) : k < l => v[k].id < v[l].id
      /\ \A k, l \in 1 .. Len(w) : k < l => w[k].id < w[l].id
  BY <1>1 DEF Canonical, Ascending
<1> QED BY <1>1, <1>2, <1>3, <1>4

\* An iteration leaves what is walked below what is left.
LEMMA BehindStep ==
    ASSUME NEW m, NEW n, NEW v, NEW w, NEW x, NEW y, Walking(m, n, v, w, x, y),
           x <= Len(v), y <= Len(w)
    PROVE  Behind(v, Step(x, v[x], w[y]), w, Step(y, w[y], v[x]))
<1> DEFINE x2 == Step(x, v[x], w[y])
           y2 == Step(y, w[y], v[x])
<1>1. /\ Len(v) \in Nat /\ Len(w) \in Nat /\ x \in Nat /\ y \in Nat /\ x >= 1 /\ y >= 1
      /\ x \in 1 .. Len(v) /\ y \in 1 .. Len(w)
      /\ \A k \in 1 .. Len(v) : v[k].id \in Nat
      /\ \A k \in 1 .. Len(w) : w[k].id \in Nat
      /\ \A k, l \in 1 .. Len(w) : k < l => w[k].id < w[l].id
  BY WalkTyped
<1>2. SUFFICES ASSUME NEW k \in 1 .. x2 - 1, NEW l \in y2 .. Len(w)
               PROVE  v[k].id < w[l].id
  BY DEF Behind
<1>3. v[x].id \in Nat /\ w[y].id \in Nat
  BY <1>1
<1>4. x2 \in {x, x + 1} /\ y2 \in {y, y + 1}
  BY DEF Step
<1>5. k \in 1 .. x /\ l \in y .. Len(w) /\ l \in 1 .. Len(w)
  BY <1>1, <1>4
<1>6. CASE k < x
  <2>1. k \in 1 .. x - 1
    BY <1>1, <1>5, <1>6
  <2> QED BY <1>5, <2>1 DEF Walking, Apart, Behind
<1>7. CASE k = x
  <2>1. v[x].id <= w[y].id
    <3>1. x2 # x
      BY <1>1, <1>7
    <3> QED BY <3>1 DEF Step
  <2>2. l = y => v[x].id # w[y].id
    <3>1. l = y => y2 = y
      BY <1>1, <1>4
    <3>2. y2 = y => ~(w[y].id <= v[x].id)
      BY <1>1 DEF Step
    <3> QED BY <1>3, <3>1, <3>2
  <2>3. l = y \/ w[y].id < w[l].id
    BY <1>1, <1>5
  <2>4. w[l].id \in Nat
    BY <1>1, <1>5
  <2> QED BY <1>3, <1>7, <2>1, <2>2, <2>3, <2>4
<1> QED BY <1>1, <1>5, <1>6, <1>7

LEMMA AdvanceKeeps ==
    ASSUME NEW m, NEW n, NEW v, NEW w, NEW x, NEW y, Walking(m, n, v, w, x, y),
           x <= Len(v), y <= Len(w)
    PROVE  Walking(m, n, v, w, Step(x, v[x], w[y]), Step(y, w[y], v[x]))
<1>1. Behind(v, Step(x, v[x], w[y]), w, Step(y, w[y], v[x]))
  BY BehindStep
<1>2. Behind(w, Step(y, w[y], v[x]), v, Step(x, v[x], w[y]))
  <2>1. Walking(n, m, w, v, y, x)
    BY Swapped
  <2> QED BY <2>1, BehindStep
<1>3. Step(x, v[x], w[y]) \in 1 .. Len(v) + 1 /\ Step(y, w[y], v[x]) \in 1 .. Len(w) + 1
  <2>1. Len(v) \in Nat /\ Len(w) \in Nat /\ x \in Nat /\ y \in Nat /\ x >= 1 /\ y >= 1
    BY WalkTyped
  <2> QED BY <2>1 DEF Step
<1> QED BY <1>1, <1>2, <1>3 DEF Walking, Apart

\* A counter left in v below all that is left of w has no counterpart in w.
LEMMA Missing ==
    ASSUME NEW m, NEW n, NEW v, NEW w, NEW x, NEW y, Walking(m, n, v, w, x, y),
           NEW k \in x .. Len(v), y > Len(w) \/ v[k].id < w[y].id
    PROVE  n[v[k].id] = 0
<1>1. /\ Len(v) \in Nat /\ Len(w) \in Nat /\ x \in Nat /\ y \in Nat /\ x >= 1 /\ y >= 1
      /\ \A l \in 1 .. Len(v) : v[l].id \in Device /\ v[l].id \in Nat
      /\ \A l \in 1 .. Len(w) : w[l].id \in Nat
      /\ \A h, l \in 1 .. Len(w) : h < l => w[h].id < w[l].id
  BY WalkTyped
<1>2. k \in 1 .. Len(v) /\ v[k].id \in Device /\ v[k].id \in Nat
  BY <1>1
<1>3. ASSUME NEW l \in 1 .. Len(w) PROVE w[l].id # v[k].id
  <2>1. CASE l < y
    <3>1. l \in 1 .. y - 1
      BY <1>1, <2>1
    <3>2. w[l].id < v[k].id
      BY <3>1 DEF Walking, Apart, Behind
    <3> QED BY <1>1, <1>2, <3>2
  <2>2. CASE l >= y
    <3>1. y \in 1 .. Len(w) /\ v[k].id < w[y].id
      BY <1>1, <2>2
    <3>2. l = y \/ w[y].id < w[l].id
      BY <1>1, <2>2, <3>1
    <3>3. w[y].id \in Nat /\ w[l].id \in Nat
      BY <1>1, <3>1
    <3> QED BY <1>2, <3>1, <3>2, <3>3
  <2> QED BY <1>1, <2>1, <2>2
<1>4. n \in VersionVector /\ Canonical(w, n)
  BY DEF Walking
<1>5. ~(n[v[k].id] > 0)
  BY <1>2, <1>3, <1>4 DEF Canonical
<1>6. n[v[k].id] \in Nat
  BY <1>2, <1>4 DEF VersionVector
<1> QED BY <1>5, <1>6

-----------------------------------------------------------------------------
(* Compare. *)

\* A counter before x in v is ahead of n.
AheadIn(v, x, n) == \E k \in 1 .. x - 1 : v[k].value > n[v[k].id]

\* An iteration finds v ahead when the counter it passes is.
LEMMA AheadStep ==
    ASSUME NEW m, NEW n, NEW v, NEW w, NEW x, NEW y, Walking(m, n, v, w, x, y),
           x <= Len(v), y <= Len(w)
    PROVE  AheadIn(v, Step(x, v[x], w[y]), n)
             <=> \/ AheadIn(v, x, n)
                 \/ v[x].id < w[y].id
                 \/ v[x].id = w[y].id /\ v[x].value > w[y].value
<1>1. /\ Len(v) \in Nat /\ Len(w) \in Nat /\ x \in Nat /\ y \in Nat /\ x >= 1 /\ y >= 1
      /\ x \in 1 .. Len(v) /\ y \in 1 .. Len(w)
  BY WalkTyped
<1>2. /\ v[x].id \in Nat /\ v[x].value \in Nat /\ v[x].value > 0
      /\ w[y].id \in Nat /\ n[w[y].id] = w[y].value
  BY <1>1, WalkTyped
<1>3. AheadIn(v, x + 1, n) <=> AheadIn(v, x, n) \/ v[x].value > n[v[x].id]
  <2>1. \A k : k \in 1 .. (x + 1) - 1 <=> k \in 1 .. x - 1 \/ k = x
    BY <1>1
  <2> QED BY <2>1, Zenon DEF AheadIn
<1>4. CASE v[x].id < w[y].id
  <2>1. n[v[x].id] = 0
    <3>1. x \in x .. Len(v)
      BY <1>1
    <3> QED BY <1>4, <3>1, Missing
  <2>2. Step(x, v[x], w[y]) = x + 1
    BY <1>2, <1>4 DEF Step
  <2> QED BY <1>2, <1>3, <1>4, <2>1, <2>2
<1>5. CASE v[x].id = w[y].id
  <2>1. Step(x, v[x], w[y]) = x + 1
    BY <1>2, <1>5 DEF Step
  <2> QED BY <1>2, <1>3, <1>5, <2>1
<1>6. CASE w[y].id < v[x].id
  <2>1. Step(x, v[x], w[y]) = x
    BY <1>2, <1>6 DEF Step
  <2> QED BY <1>2, <1>6, <2>1
<1> QED BY <1>2, <1>4, <1>5, <1>6

\* When a list has ended, v is ahead if a counter walked is, or if one is left.
LEMMA AheadAtEnd ==
    ASSUME NEW m, NEW n, NEW v, NEW w, NEW x, NEW y, Walking(m, n, v, w, x, y)
    PROVE  /\ AheadIn(v, x, n) => Ahead(m, n) # {}
           /\ x > Len(v) \/ y > Len(w) =>
                (Ahead(m, n) # {} <=> AheadIn(v, x, n) \/ x <= Len(v))
<1>1. /\ Len(v) \in Nat /\ Len(w) \in Nat /\ x \in Nat /\ y \in Nat /\ x >= 1 /\ y >= 1
      /\ x \in 1 .. Len(v) + 1
  BY WalkTyped DEF Walking
<1>2. \A k \in 1 .. Len(v) :
         /\ v[k].id \in Device /\ v[k].value \in Nat /\ v[k].value > 0 /\ m[v[k].id] = v[k].value
  BY WalkTyped
<1>3. ASSUME NEW k \in 1 .. Len(v), v[k].value > n[v[k].id] PROVE Ahead(m, n) # {}
  BY <1>2, <1>3 DEF Ahead
<1>4. AheadIn(v, x, n) => Ahead(m, n) # {}
  <2>1. \A k \in 1 .. x - 1 : k \in 1 .. Len(v)
    BY <1>1
  <2> QED BY <1>3, <2>1 DEF AheadIn
<1>5. ASSUME x <= Len(v), y > Len(w) PROVE Ahead(m, n) # {}
  <2>1. x \in x .. Len(v) /\ x \in 1 .. Len(v)
    BY <1>1, <1>5
  <2>2. n[v[x].id] = 0
    BY <1>5, <2>1, Missing
  <2> QED BY <1>2, <1>3, <2>1, <2>2
<1>6. ASSUME x > Len(v), Ahead(m, n) # {} PROVE AheadIn(v, x, n)
  <2>1. PICK d \in Device : m[d] > n[d]
    BY <1>6 DEF Ahead
  <2>2. m[d] \in Nat /\ n[d] \in Nat
    BY DEF Walking, VersionVector
  <2>3. PICK k \in 1 .. Len(v) : v[k].id = d
    <3>1. m[d] > 0
      BY <2>1, <2>2
    <3> QED BY <3>1 DEF Walking, Canonical
  <2>4. k \in 1 .. x - 1 /\ v[k].value > n[v[k].id]
    BY <1>1, <1>2, <1>6, <2>1, <2>3
  <2> QED BY <2>4 DEF AheadIn
<1> QED BY <1>1, <1>4, <1>5, <1>6

-----------------------------------------------------------------------------
(* Merge. *)

\* o is below what is left of v from x on.
Under(o, v, x) == \A k \in 1 .. Len(o), l \in x .. Len(v) : o[k].id < v[l].id

\* o has the devices of v before x.
Covers(o, v, x) == \A l \in 1 .. x - 1 : \E k \in 1 .. Len(o) : o[k].id = v[l].id

\* o is what the maximum M has for the devices walked.
Prefix(o, v, w, x, y, M) ==
    /\ o \in Seq(Counters) /\ Ascending(o)
    /\ \A k \in 1 .. Len(o) : o[k].value = M[o[k].id] /\ o[k].value > 0
    /\ Under(o, v, x) /\ Under(o, w, y)
    /\ Covers(o, v, x) /\ Covers(o, w, y)

LEMMA MergeAt ==
    ASSUME NEW m \in VersionVector, NEW n \in VersionVector, NEW d \in Device
    PROVE  /\ m[d] \in Nat /\ n[d] \in Nat
           /\ Merge(m, n)[d] = IF m[d] > n[d] THEN m[d] ELSE n[d]
BY DEF Merge, VersionVector

\* The counter Merge takes over is that of the smaller device, with its maximum.
LEMMA LargerIs ==
    ASSUME NEW m, NEW n, NEW v, NEW w, NEW x, NEW y, Walking(m, n, v, w, x, y),
           x <= Len(v), y <= Len(w), NEW c, c = Larger(v[x], w[y])
    PROVE  /\ c \in Counters /\ c.value = Merge(m, n)[c.id] /\ c.value > 0
           /\ c.id \in Nat /\ c.id <= v[x].id /\ c.id <= w[y].id
           /\ v[x].id <= w[y].id => c.id = v[x].id
           /\ w[y].id <= v[x].id => c.id = w[y].id
<1>1. x \in 1 .. Len(v) /\ y \in 1 .. Len(w)
  <2>1. Len(v) \in Nat /\ Len(w) \in Nat /\ x \in Nat /\ y \in Nat /\ x >= 1 /\ y >= 1
    BY WalkTyped
  <2> QED BY <2>1
<1>2. /\ v[x] \in Counters /\ v[x].id \in Device /\ v[x].id \in Nat
      /\ v[x].value \in Nat /\ v[x].value > 0 /\ m[v[x].id] = v[x].value
      /\ w[y] \in Counters /\ w[y].id \in Device /\ w[y].id \in Nat
      /\ w[y].value \in Nat /\ w[y].value > 0 /\ n[w[y].id] = w[y].value
  BY <1>1, WalkTyped
<1>3. m \in VersionVector /\ n \in VersionVector
  BY DEF Walking
<1>4. CASE v[x].id < w[y].id
  <2>1. c = v[x]
    BY <1>2, <1>4 DEF Larger
  <2>2. n[v[x].id] = 0
    <3>1. x \in x .. Len(v)
      BY <1>1
    <3> QED BY <1>4, <3>1, Missing
  <2>3. Merge(m, n)[v[x].id] = v[x].value
    BY <1>2, <1>3, <2>2, MergeAt
  <2> QED BY <1>2, <1>4, <2>1, <2>3
<1>5. CASE w[y].id < v[x].id
  <2>1. c = w[y]
    BY <1>2, <1>5 DEF Larger
  <2>2. m[w[y].id] = 0
    <3>1. y \in y .. Len(w)
      BY <1>1
    <3>2. Walking(n, m, w, v, y, x)
      BY Swapped
    <3> QED BY <1>5, <3>1, <3>2, Missing
  <2>3. Merge(m, n)[w[y].id] = w[y].value
    BY <1>2, <1>3, <2>2, MergeAt
  <2> QED BY <1>2, <1>5, <2>1, <2>3
<1>6. CASE v[x].id = w[y].id
  <2>1. c = [id |-> v[x].id, value |-> IF w[y].value > v[x].value THEN w[y].value ELSE v[x].value]
    BY <1>6 DEF Larger, Counter
  <2>2. c.id = v[x].id /\ c \in Counters
    BY <1>2, <2>1 DEF Counters
  <2>3. c.value = IF w[y].value > v[x].value THEN w[y].value ELSE v[x].value
    BY <2>1
  <2>4. Merge(m, n)[v[x].id] = IF m[v[x].id] > n[v[x].id] THEN m[v[x].id] ELSE n[v[x].id]
    BY <1>2, <1>3, MergeAt
  <2>5. n[v[x].id] = w[y].value
    BY <1>2, <1>6
  <2> QED BY <1>2, <1>6, <2>2, <2>3, <2>4, <2>5
<1> QED BY <1>2, <1>4, <1>5, <1>6

\* The elements of a list that has grown by c.
LEMMA Grown ==
    ASSUME NEW o \in Seq(Counters), NEW c \in Counters
    PROVE  /\ Append(o, c) \in Seq(Counters) /\ Len(o) \in Nat /\ Len(Append(o, c)) = Len(o) + 1
           /\ Append(o, c)[Len(o) + 1] = c
           /\ \A k \in 1 .. Len(o) : Append(o, c)[k] = o[k]
           /\ \A k \in 1 .. Len(o) + 1 : k \in 1 .. Len(o) \/ k = Len(o) + 1
OBVIOUS

\* What an iteration appends is below what it leaves of v, and it passes no other device.
LEMMA UnderStep ==
    ASSUME NEW m, NEW n, NEW v, NEW w, NEW x, NEW y, Walking(m, n, v, w, x, y),
           x <= Len(v), y <= Len(w), NEW c \in Counters, c = Larger(v[x], w[y]),
           NEW o \in Seq(Counters), Under(o, v, x), Covers(o, v, x)
    PROVE  /\ Under(Append(o, c), v, Step(x, v[x], w[y]))
           /\ Covers(Append(o, c), v, Step(x, v[x], w[y]))
<1> DEFINE x2 == Step(x, v[x], w[y])
           p == Append(o, c)
<1>1. /\ Len(v) \in Nat /\ Len(w) \in Nat /\ x \in Nat /\ y \in Nat
      /\ x \in 1 .. Len(v) /\ y \in 1 .. Len(w)
      /\ \A k \in 1 .. Len(v) : v[k].id \in Nat
      /\ \A k \in 1 .. Len(w) : w[k].id \in Nat
      /\ \A k, l \in 1 .. Len(v) : k < l => v[k].id < v[l].id
  BY WalkTyped
<1>2. /\ c.id \in Nat /\ c.id <= v[x].id
      /\ v[x].id <= w[y].id => c.id = v[x].id
      /\ w[y].id <= v[x].id => c.id = w[y].id
  BY LargerIs
<1>3. v[x].id \in Nat /\ w[y].id \in Nat
  BY <1>1
<1>4. \/ x2 = x + 1 /\ c.id = v[x].id
      \/ x2 = x /\ c.id < v[x].id
  <2>1. CASE v[x].id <= w[y].id
    BY <1>2, <2>1 DEF Step
  <2>2. CASE ~(v[x].id <= w[y].id)
    <3>1. x2 = x
      BY <2>2 DEF Step
    <3>2. c.id = w[y].id /\ w[y].id < v[x].id
      BY <1>2, <1>3, <2>2
    <3> QED BY <3>1, <3>2
  <2> QED BY <2>1, <2>2
<1> HIDE DEF x2, p
<1>5. /\ Len(o) \in Nat /\ Len(p) = Len(o) + 1 /\ p[Len(o) + 1] = c
      /\ \A k \in 1 .. Len(o) : p[k] = o[k]
      /\ \A k \in 1 .. Len(o) + 1 : k \in 1 .. Len(o) \/ k = Len(o) + 1
  BY Grown DEF p
<1>6. ASSUME NEW k \in 1 .. Len(p), NEW l \in x2 .. Len(v) PROVE p[k].id < v[l].id
  <2>1. l \in x .. Len(v) /\ l \in 1 .. Len(v)
    BY <1>1, <1>4
  <2>2. CASE k \in 1 .. Len(o)
    BY <1>5, <2>1, <2>2 DEF Under
  <2>3. CASE k = Len(o) + 1
    <3>1. p[k].id = c.id
      BY <1>5, <2>3
    <3>2. l = x \/ v[x].id < v[l].id
      BY <1>1, <2>1
    <3>3. v[l].id \in Nat
      BY <1>1, <2>1
    <3>4. l = x => x2 = x
      BY <1>1, <1>4
    <3>5. c.id < v[l].id
      <4>1. CASE x2 = x + 1 /\ c.id = v[x].id
        BY <1>1, <3>2, <3>4, <4>1
      <4>2. CASE x2 = x /\ c.id < v[x].id
        BY <1>2, <1>3, <3>2, <3>3, <4>2
      <4> QED BY <1>4, <4>1, <4>2
    <3> QED BY <3>1, <3>5
  <2> QED BY <1>5, <2>2, <2>3
<1>7. ASSUME NEW l \in 1 .. x2 - 1 PROVE \E k \in 1 .. Len(p) : p[k].id = v[l].id
  <2>1. CASE l \in 1 .. x - 1
    <3>1. PICK k \in 1 .. Len(o) : o[k].id = v[l].id
      BY <2>1 DEF Covers
    <3>2. k \in 1 .. Len(p) /\ p[k].id = v[l].id
      BY <1>5, <3>1
    <3> QED BY <3>2
  <2>2. CASE l \notin 1 .. x - 1
    <3>1. l = x /\ x2 = x + 1 /\ c.id = v[x].id
      BY <1>1, <1>4, <2>2
    <3>2. Len(o) + 1 \in 1 .. Len(p) /\ p[Len(o) + 1].id = v[l].id
      BY <1>5, <3>1
    <3> QED BY <3>2
  <2> QED BY <2>1, <2>2
<1>8. Under(p, v, x2) /\ Covers(p, v, x2)
  BY <1>6, <1>7 DEF Under, Covers
<1> QED BY <1>8 DEF p, x2

\* Merge symmetrically: the counter taken over for the pair does not depend on the order.
LEMMA LargerSwapped ==
    ASSUME NEW m, NEW n, NEW v, NEW w, NEW x, NEW y, Walking(m, n, v, w, x, y),
           x <= Len(v), y <= Len(w)
    PROVE  Larger(v[x], w[y]) = Larger(w[y], v[x])
<1>1. x \in 1 .. Len(v) /\ y \in 1 .. Len(w)
  <2>1. Len(v) \in Nat /\ Len(w) \in Nat /\ x \in Nat /\ y \in Nat /\ x >= 1 /\ y >= 1
    BY WalkTyped
  <2> QED BY <2>1
<1>2. /\ v[x].id \in Nat /\ v[x].value \in Nat /\ w[y].id \in Nat /\ w[y].value \in Nat
  BY <1>1, WalkTyped
<1> QED BY <1>2 DEF Larger, Counter

LEMMA PrefixStep ==
    ASSUME NEW m, NEW n, NEW v, NEW w, NEW x, NEW y, Walking(m, n, v, w, x, y),
           x <= Len(v), y <= Len(w), NEW o, Prefix(o, v, w, x, y, Merge(m, n))
    PROVE  Prefix(Append(o, Larger(v[x], w[y])), v, w,
                  Step(x, v[x], w[y]), Step(y, w[y], v[x]), Merge(m, n))
<1> DEFINE c == Larger(v[x], w[y])
           p == Append(o, c)
           M == Merge(m, n)
<1>1. c \in Counters /\ c.value = M[c.id] /\ c.value > 0 /\ c.id \in Nat
  BY LargerIs
<1>2. o \in Seq(Counters) /\ Ascending(o)
  BY DEF Prefix
<1>3. /\ Under(p, v, Step(x, v[x], w[y])) /\ Covers(p, v, Step(x, v[x], w[y]))
  BY <1>1, <1>2, UnderStep DEF Prefix
<1>4. /\ Under(p, w, Step(y, w[y], v[x])) /\ Covers(p, w, Step(y, w[y], v[x]))
  <2>1. Walking(n, m, w, v, y, x)
    BY Swapped
  <2>2. c = Larger(w[y], v[x])
    BY LargerSwapped
  <2> QED BY <1>1, <1>2, <2>1, <2>2, UnderStep DEF Prefix
<1> HIDE DEF p, c, M
<1>5. /\ p \in Seq(Counters) /\ Len(o) \in Nat /\ Len(p) = Len(o) + 1 /\ p[Len(o) + 1] = c
      /\ \A k \in 1 .. Len(o) : p[k] = o[k]
      /\ \A k \in 1 .. Len(o) + 1 : k \in 1 .. Len(o) \/ k = Len(o) + 1
  BY <1>1, <1>2, Grown DEF p
<1>6. ASSUME NEW k \in 1 .. Len(o) PROVE o[k].id < c.id
  <2>1. /\ Len(v) \in Nat /\ Len(w) \in Nat /\ x \in x .. Len(v) /\ y \in y .. Len(w)
    BY WalkTyped
  <2>2. o[k].id < v[x].id /\ o[k].id < w[y].id
    BY <2>1 DEF Prefix, Under
  <2>3. c.id \in {v[x].id, w[y].id}
    BY DEF c, Larger, Counter
  <2> QED BY <2>2, <2>3
<1>7. Ascending(p)
  <2> SUFFICES ASSUME NEW k \in 1 .. Len(p), NEW l \in 1 .. Len(p), k < l
               PROVE  p[k].id < p[l].id
    BY DEF Ascending
  <2>1. k \in 1 .. Len(o) /\ p[k] = o[k]
    BY <1>5
  <2>2. CASE l = Len(o) + 1
    BY <1>5, <1>6, <2>1, <2>2
  <2>3. CASE l \in 1 .. Len(o)
    BY <1>2, <1>5, <2>1, <2>3 DEF Ascending
  <2> QED BY <1>5, <2>2, <2>3
<1>8. ASSUME NEW k \in 1 .. Len(p) PROVE p[k].value = M[p[k].id] /\ p[k].value > 0
  <2>1. CASE k = Len(o) + 1
    BY <1>1, <1>5, <2>1
  <2>2. CASE k \in 1 .. Len(o)
    BY <1>5, <2>2 DEF Prefix, M
  <2> QED BY <1>5, <2>1, <2>2
<1>9. Prefix(p, v, w, Step(x, v[x], w[y]), Step(y, w[y], v[x]), M)
  BY <1>3, <1>4, <1>5, <1>7, <1>8 DEF Prefix
<1> QED BY <1>9 DEF p, c, M

\* What is left of a list.
LEMMA RestIs ==
    ASSUME NEW m, NEW n, NEW v, NEW w, NEW x, NEW y, Walking(m, n, v, w, x, y)
    PROVE  /\ Rest(v, x) \in Seq(Counters) /\ Len(Rest(v, x)) = Len(v) - x + 1
           /\ \A k \in 1 .. Len(v) - x + 1 : Rest(v, x)[k] = v[x + k - 1]
           /\ x > Len(v) => Rest(v, x) = <<>>
<1>1. v \in Seq(Counters) /\ x \in Nat \ {0} /\ Len(v) \in Nat /\ x <= Len(v) + 1
  BY WalkTyped DEF Walking, Canonical
<1>2. /\ Rest(v, x) \in Seq(Counters) /\ Len(Rest(v, x)) = Len(v) - x + 1
      /\ \A k \in 1 .. Len(v) - x + 1 : Rest(v, x)[k] = v[x + k - 1]
  BY <1>1, Piece DEF Rest
<1>3. ASSUME x > Len(v) PROVE Rest(v, x) = <<>>
  BY <1>1, <1>2, <1>3, EmptySeq
<1> QED BY <1>2, <1>3

\* When w has ended, what is left of v completes the maximum.
LEMMA Completed ==
    ASSUME NEW m, NEW n, NEW v, NEW w, NEW x, NEW y, Walking(m, n, v, w, x, y), y > Len(w),
           NEW o, Prefix(o, v, w, x, y, Merge(m, n))
    PROVE  Canonical(o \o Rest(v, x), Merge(m, n))
<1> DEFINE r == Rest(v, x)
           p == o \o r
           M == Merge(m, n)
<1>1. /\ Len(v) \in Nat /\ x \in Nat /\ x >= 1 /\ x <= Len(v) + 1 /\ Len(w) \in Nat /\ y = Len(w) + 1
      /\ \A k \in 1 .. Len(v) :
            /\ v[k] \in Counters /\ v[k].id \in Device /\ v[k].id \in Nat
            /\ v[k].value \in Nat /\ v[k].value > 0 /\ m[v[k].id] = v[k].value
      /\ \A k, l \in 1 .. Len(v) : k < l => v[k].id < v[l].id
  BY WalkTyped DEF Walking
<1>2. /\ r \in Seq(Counters) /\ Len(r) = Len(v) - x + 1
      /\ \A k \in 1 .. Len(v) - x + 1 : r[k] = v[x + k - 1]
  BY RestIs
<1>3. o \in Seq(Counters) /\ Len(o) \in Nat
  BY DEF Prefix
<1> HIDE DEF r
<1>4. /\ p \in Seq(Counters) /\ Len(p) = Len(o) + Len(r)
      /\ \A k \in 1 .. Len(o) : p[k] = o[k]
      /\ \A k \in 1 .. Len(r) : p[Len(o) + k] = r[k]
  BY <1>2, <1>3, Concat
<1> HIDE DEF p, M
<1>5. ASSUME NEW k \in 1 .. Len(p)
      PROVE  \/ k \in 1 .. Len(o) /\ p[k] = o[k]
             \/ /\ k > Len(o) /\ p[k] = v[k - Len(o) + x - 1]
                /\ k - Len(o) + x - 1 \in x .. Len(v)
                /\ k - Len(o) + x - 1 \in 1 .. Len(v)
  <2>1. CASE k <= Len(o)
    BY <1>3, <1>4, <2>1
  <2>2. CASE k > Len(o)
    <3>1. PICK l \in 1 .. Len(v) - x + 1 : k = Len(o) + l
      <4>1. k - Len(o) \in 1 .. Len(v) - x + 1 /\ k = Len(o) + (k - Len(o))
        BY <1>1, <1>2, <1>3, <1>4, <2>2
      <4> QED BY <4>1
    <3>2. p[k] = v[x + l - 1]
      BY <1>2, <1>4, <3>1
    <3>3. x + l - 1 = k - Len(o) + x - 1 /\ x + l - 1 \in x .. Len(v) /\ x + l - 1 \in 1 .. Len(v)
      BY <1>1, <1>3, <3>1
    <3> QED BY <2>2, <3>2, <3>3
  <2> QED BY <1>3, <2>1, <2>2
<1>6. Ascending(p)
  <2> SUFFICES ASSUME NEW k \in 1 .. Len(p), NEW l \in 1 .. Len(p), k < l
               PROVE  p[k].id < p[l].id
    BY DEF Ascending
  <2>1. CASE l \in 1 .. Len(o)
    <3>1. k \in 1 .. Len(o) /\ p[k] = o[k] /\ p[l] = o[l]
      BY <1>3, <1>4, <2>1
    <3> QED BY <2>1, <3>1 DEF Prefix, Ascending
  <2>2. CASE k \in 1 .. Len(o) /\ l > Len(o)
    <3>1. PICK h \in x .. Len(v) : p[l] = v[h]
      BY <1>3, <1>5, <2>2
    <3>2. p[k] = o[k]
      BY <1>4, <2>2
    <3> QED BY <2>2, <3>1, <3>2 DEF Prefix, Under
  <2>3. CASE k > Len(o) /\ l > Len(o)
    <3>1. /\ p[k] = v[k - Len(o) + x - 1] /\ k - Len(o) + x - 1 \in 1 .. Len(v)
          /\ p[l] = v[l - Len(o) + x - 1] /\ l - Len(o) + x - 1 \in 1 .. Len(v)
      BY <1>3, <1>5, <2>3
    <3>2. k - Len(o) + x - 1 < l - Len(o) + x - 1
      BY <1>1, <1>3
    <3> QED BY <1>1, <3>1, <3>2
  <2> QED BY <1>3, <2>1, <2>2, <2>3
<1>7. m \in VersionVector /\ n \in VersionVector
  BY DEF Walking
<1>8. ASSUME NEW k \in 1 .. Len(p) PROVE p[k].value = M[p[k].id] /\ p[k].value > 0
  <2>1. CASE k \in 1 .. Len(o)
    BY <1>4, <2>1 DEF Prefix, M
  <2>2. ASSUME NEW h \in x .. Len(v), p[k] = v[h]
        PROVE  p[k].value = M[p[k].id] /\ p[k].value > 0
    <3>1. h \in 1 .. Len(v)
      BY <1>1
    <3>2. n[v[h].id] = 0
      BY <1>1, Missing
    <3>3. M[v[h].id] = v[h].value
      BY <1>1, <1>7, <3>1, <3>2, MergeAt DEF M
    <3> QED BY <1>1, <2>2, <3>1, <3>3
  <2> QED BY <1>5, <2>1, <2>2
<1>9. ASSUME NEW l \in 1 .. Len(v) PROVE \E k \in 1 .. Len(p) : p[k].id = v[l].id
  <2>1. CASE l < x
    <3>1. l \in 1 .. x - 1
      BY <1>1, <2>1
    <3>2. PICK k \in 1 .. Len(o) : o[k].id = v[l].id
      BY <3>1 DEF Prefix, Covers
    <3>3. k \in 1 .. Len(p) /\ p[k].id = v[l].id
      BY <1>2, <1>3, <1>4, <3>2
    <3> QED BY <3>3
  <2>2. CASE l >= x
    <3>1. PICK h \in 1 .. Len(r) : l = x + h - 1
      <4>1. l - x + 1 \in 1 .. Len(r) /\ l = x + (l - x + 1) - 1
        BY <1>1, <1>2, <2>2
      <4> QED BY <4>1
    <3>2. Len(o) + h \in 1 .. Len(p) /\ p[Len(o) + h] = v[l]
      BY <1>1, <1>2, <1>3, <1>4, <3>1
    <3> QED BY <3>2
  <2> QED BY <1>1, <2>1, <2>2
<1>10. ASSUME NEW l \in 1 .. Len(w) PROVE \E k \in 1 .. Len(p) : p[k].id = w[l].id
  <2>1. l \in 1 .. y - 1
    BY <1>1
  <2>2. PICK k \in 1 .. Len(o) : o[k].id = w[l].id
    BY <2>1 DEF Prefix, Covers
  <2>3. k \in 1 .. Len(p) /\ p[k].id = w[l].id
    BY <1>2, <1>3, <1>4, <2>2
  <2> QED BY <2>3
<1>11. ASSUME NEW d \in Device, M[d] > 0 PROVE \E k \in 1 .. Len(p) : p[k].id = d
  <2>1. m[d] > 0 \/ n[d] > 0
    BY <1>7, <1>11, MergeAt DEF M
  <2>2. CASE m[d] > 0
    <3>1. PICK l \in 1 .. Len(v) : v[l].id = d
      BY <2>2 DEF Walking, Canonical
    <3> QED BY <1>9, <3>1
  <2>3. CASE n[d] > 0
    <3>1. PICK l \in 1 .. Len(w) : w[l].id = d
      BY <2>3 DEF Walking, Canonical
    <3> QED BY <1>10, <3>1
  <2> QED BY <2>1, <2>2, <2>3
<1>12. Canonical(p, M)
  BY <1>4, <1>6, <1>8, <1>11 DEF Canonical
<1> QED BY <1>12 DEF p, r, M

\* Whichever list has ended, Merge ends with the list of the maximum.
LEMMA MergedAtEnd ==
    ASSUME NEW m, NEW n, NEW v, NEW w, NEW x, NEW y, Walking(m, n, v, w, x, y),
           x > Len(v) \/ y > Len(w), NEW o, Prefix(o, v, w, x, y, Merge(m, n))
    PROVE  Canonical(o \o Rest(v, x) \o Rest(w, y), Merge(m, n))
<1>1. Walking(n, m, w, v, y, x)
  BY Swapped
<1>2. /\ Rest(v, x) \in Seq(Counters) /\ Rest(w, y) \in Seq(Counters) /\ o \in Seq(Counters)
      /\ x > Len(v) => Rest(v, x) = <<>>
      /\ y > Len(w) => Rest(w, y) = <<>>
  BY <1>1, RestIs DEF Prefix
<1>3. CASE y > Len(w)
  <2>1. Canonical(o \o Rest(v, x), Merge(m, n))
    BY <1>3, Completed
  <2>2. o \o Rest(v, x) \in Seq(Counters)
    BY <2>1 DEF Canonical
  <2>3. o \o Rest(v, x) \o Rest(w, y) = o \o Rest(v, x)
    BY <1>2, <1>3, <2>2, ConcatEmptySeq
  <2> QED BY <2>1, <2>3
<1>4. CASE x > Len(v)
  <2>1. m \in VersionVector /\ n \in VersionVector
    BY DEF Walking
  <2>2. Merge(m, n) = Merge(n, m)
    BY <2>1, MergeAhead
  <2>3. Prefix(o, w, v, y, x, Merge(n, m))
    BY <2>2 DEF Prefix
  <2>4. Canonical(o \o Rest(w, y), Merge(m, n))
    BY <1>1, <1>4, <2>2, <2>3, Completed
  <2>5. o \o Rest(v, x) = o
    BY <1>2, <1>4, ConcatEmptySeq
  <2> QED BY <2>4, <2>5
<1> QED BY <1>3, <1>4

-----------------------------------------------------------------------------
(* The specification. *)

\* The loops walk over the lists of the two leaves.
WalkingSides == Walking(Vector("a"), Vector("b"), List("a"), List("b"), i, j)

\* What Compare has found is what is ahead among the counters walked.
CompareInv ==
    /\ ahead \subseteq Side /\ out = <<>>
    /\ "a" \in ahead <=> AheadIn(List("a"), i, Vector("b"))
    /\ "b" \in ahead <=> AheadIn(List("b"), j, Vector("a"))

MergeInv == Prefix(out, List("a"), List("b"), i, j, Merge(Vector("a"), Vector("b")))

\* The inductive invariant.
WalkInv ==
    /\ told \in [Side -> Start]
    /\ pc \in {"compare", "merge", "done"}
    /\ pc # "done" => WalkingSides
    /\ pc = "compare" => CompareInv
    /\ pc # "compare" => ordering = Compare(Vector("a"), Vector("b"))
    /\ pc = "merge" => MergeInv
    /\ pc = "done" => Canonical(out, Merge(Vector("a"), Vector("b")))

\* Every leaf has a vector, and its list is canonical.
LEMMA SidesTyped ==
    ASSUME told \in [Side -> Start]
    PROVE  /\ Vector("a") \in VersionVector /\ Vector("b") \in VersionVector
           /\ Canonical(List("a"), Vector("a")) /\ Canonical(List("b"), Vector("b"))
<1>1. EmptyVV \in VersionVector
  BY DEF EmptyVV, VersionVector
<1>2. \A x \in Start : HistoryOf(x) \in VersionVector
  BY <1>1, StartTyped DEF HistoryOf
<1>3. Vector("a") \in VersionVector /\ Vector("b") \in VersionVector
  BY <1>2 DEF Vector, Started, Other, Side
<1> QED BY <1>3, ListIsCanonical DEF List

\* The loops start with nothing walked.
LEMMA WalkStarts ==
    ASSUME NEW m \in VersionVector, NEW n \in VersionVector, NEW v, NEW w,
           Canonical(v, m), Canonical(w, n)
    PROVE  /\ Walking(m, n, v, w, 1, 1)
           /\ ~AheadIn(v, 1, n) /\ ~AheadIn(w, 1, m)
           /\ Prefix(<<>>, v, w, 1, 1, Merge(m, n))
<1>1. Len(v) \in Nat /\ Len(w) \in Nat
  BY DEF Canonical
<1>2. 1 .. 1 - 1 = {} /\ 1 .. Len(<<>>) = {}
  OBVIOUS
<1>3. <<>> \in Seq(Counters)
  OBVIOUS
<1>4. Apart(v, w, 1, 1)
  BY <1>2 DEF Apart, Behind
<1>5. ~AheadIn(v, 1, n) /\ ~AheadIn(w, 1, m)
  BY <1>2 DEF AheadIn
<1>6. /\ Ascending(<<>>) /\ Under(<<>>, v, 1) /\ Under(<<>>, w, 1)
      /\ Covers(<<>>, v, 1) /\ Covers(<<>>, w, 1)
  BY <1>2, Zenon DEF Ascending, Under, Covers
<1>7. Prefix(<<>>, v, w, 1, 1, Merge(m, n))
  BY <1>2, <1>3, <1>6 DEF Prefix
<1>8. 1 \in 1 .. Len(v) + 1 /\ 1 \in 1 .. Len(w) + 1
  BY <1>1
<1> QED BY <1>4, <1>5, <1>7, <1>8 DEF Walking

\* What Compare returns, from the sides that are ahead.
LEMMA OrderingIs ==
    ASSUME NEW S \in SUBSET Side, NEW m \in VersionVector, NEW n \in VersionVector,
           "a" \in S <=> Ahead(m, n) # {}, "b" \in S <=> Ahead(n, m) # {}
    PROVE  OrderingOf(S) = Compare(m, n)
<1>1. CASE "a" \in S /\ "b" \in S
  <2>1. S = Side /\ S # {} /\ S # {"a"} /\ S # {"b"}
    <3>1. S = Side
      BY <1>1 DEF Side
    <3>2. "b" \notin {"a"} /\ "a" \notin {"b"}
      OBVIOUS
    <3> QED BY <1>1, <3>1, <3>2
  <2>2. OrderingOf(S) = "Concurrent"
    BY <2>1 DEF OrderingOf
  <2> QED BY <1>1, <2>2 DEF Compare
<1>2. CASE "a" \in S /\ "b" \notin S
  <2>1. S = {"a"} /\ S # Side
    BY <1>2 DEF Side
  <2>2. OrderingOf(S) = "Dominates"
    BY <2>1 DEF OrderingOf
  <2> QED BY <1>2, <2>2 DEF Compare
<1>3. CASE "a" \notin S /\ "b" \in S
  <2>1. S = {"b"} /\ S # Side
    BY <1>3 DEF Side
  <2>2. OrderingOf(S) = "DominatedBy"
    BY <2>1 DEF OrderingOf
  <2> QED BY <1>3, <2>2 DEF Compare
<1>4. CASE "a" \notin S /\ "b" \notin S
  <2>1. S = {}
    BY <1>4 DEF Side
  <2>2. OrderingOf(S) = "Equal"
    BY <2>1 DEF OrderingOf, Side
  <2> QED BY <1>4, <2>2 DEF Compare
<1> QED BY <1>1, <1>2, <1>3, <1>4

\* The lists are those of the leaves told, which no step of the walk changes.
LEMMA SameLists ==
    ASSUME told' = told
    PROVE  /\ Vector("a")' = Vector("a") /\ Vector("b")' = Vector("b")
           /\ List("a")' = List("a") /\ List("b")' = List("b")
<1>1. Vector("a")' = Vector("a") /\ Vector("b")' = Vector("b")
  BY DEF Vector, Started, HistoryOf
<1> QED BY <1>1 DEF List

LEMMA WalkInvInit == ASSUME WalkInit PROVE WalkInv
<1>1. told \in [Side -> Start] /\ pc = "compare" /\ i = 1 /\ j = 1 /\ ahead = {} /\ out = <<>>
  BY OtherSide DEF WalkInit, Init
<1>2. WalkingSides /\ CompareInv
  BY <1>1, SidesTyped, WalkStarts DEF WalkingSides, CompareInv
<1> QED BY <1>1, <1>2 DEF WalkInv

\* An iteration of either loop.
LEMMA AdvanceWalks ==
    ASSUME WalkingSides, Both, Advance, told' = told
    PROVE  /\ i' = Step(i, List("a")[i], List("b")[j]) /\ j' = Step(j, List("b")[j], List("a")[i])
           /\ WalkingSides'
<1>1. i' = Step(i, List("a")[i], List("b")[j]) /\ j' = Step(j, List("b")[j], List("a")[i])
  BY DEF Advance, Step
<1>2. Walking(Vector("a"), Vector("b"), List("a"), List("b"), i', j')
  BY <1>1, AdvanceKeeps DEF WalkingSides, Both
<1> QED BY <1>1, <1>2, SameLists DEF WalkingSides

LEMMA CompareStepKeeps == ASSUME WalkInv, CompareStep PROVE WalkInv'
<1>1. /\ told' = told /\ pc = "compare" /\ pc' = "compare" /\ out' = out /\ Both /\ Advance
      /\ WalkingSides /\ CompareInv
      /\ ahead' = ahead \cup Greater(List("a")[i], List("b")[j])
  BY DEF CompareStep, WalkInv, vars
<1> DEFINE v == List("a")
           w == List("b")
           m == Vector("a")
           n == Vector("b")
<1>2. /\ i' = Step(i, v[i], w[j]) /\ j' = Step(j, w[j], v[i])
      /\ WalkingSides' /\ v' = v /\ w' = w /\ m' = m /\ n' = n
  BY <1>1, AdvanceWalks, SameLists
<1>3. Walking(m, n, v, w, i, j) /\ Walking(n, m, w, v, j, i) /\ i <= Len(v) /\ j <= Len(w)
  BY <1>1, Swapped DEF WalkingSides, Both
<1>4. AheadIn(v, i', n) <=> \/ AheadIn(v, i, n) \/ v[i].id < w[j].id
                            \/ v[i].id = w[j].id /\ v[i].value > w[j].value
  BY <1>2, <1>3, AheadStep
<1>5. AheadIn(w, j', m) <=> \/ AheadIn(w, j, m) \/ w[j].id < v[i].id
                            \/ w[j].id = v[i].id /\ w[j].value > v[i].value
  BY <1>2, <1>3, AheadStep
<1>6. /\ Greater(v[i], w[j]) \subseteq Side
      /\ "a" \in Greater(v[i], w[j])
           <=> v[i].id < w[j].id \/ (v[i].id = w[j].id /\ v[i].value > w[j].value)
      /\ "b" \in Greater(v[i], w[j])
           <=> w[j].id < v[i].id \/ (v[i].id = w[j].id /\ v[i].value < w[j].value)
  BY DEF Greater, Side
<1>7. v[i].value \in Nat /\ w[j].value \in Nat
  <2>1. i \in 1 .. Len(v) /\ j \in 1 .. Len(w)
    <3>1. Len(v) \in Nat /\ Len(w) \in Nat /\ i \in Nat /\ j \in Nat /\ i >= 1 /\ j >= 1
      BY <1>3, WalkTyped
    <3> QED BY <1>3, <3>1
  <2> QED BY <1>3, <2>1, WalkTyped
<1>8. ("a" \in ahead <=> AheadIn(v, i, n)) /\ ("b" \in ahead <=> AheadIn(w, j, m))
  BY <1>1 DEF CompareInv
<1> HIDE DEF v, w, m, n
<1>9. "a" \in ahead' <=> AheadIn(v, i', n)
  BY <1>1, <1>4, <1>6, <1>8 DEF v, w
<1>10. "b" \in ahead' <=> AheadIn(w, j', m)
  BY <1>1, <1>5, <1>6, <1>7, <1>8 DEF v, w
<1>11. ahead' \subseteq Side /\ out' = <<>>
  BY <1>1, <1>6 DEF CompareInv, v, w
<1>12. CompareInv'
  BY <1>2, <1>9, <1>10, <1>11 DEF CompareInv, v, w, m, n
<1> QED BY <1>1, <1>2, <1>12 DEF WalkInv

LEMMA CompareEndKeeps == ASSUME WalkInv, CompareEnd PROVE WalkInv'
<1> DEFINE v == List("a")
           w == List("b")
           m == Vector("a")
           n == Vector("b")
<1>1. /\ told' = told /\ pc = "compare" /\ pc' = "merge" /\ i' = 1 /\ j' = 1 /\ out' = out
      /\ WalkingSides /\ CompareInv /\ told \in [Side -> Start]
      /\ ahead = Side \/ ~Both
      /\ ordering' = IF ahead = Side THEN "Concurrent" ELSE OrderingOf(ahead \cup Trailing)
  BY DEF CompareEnd, WalkInv, vars
<1>2. v' = v /\ w' = w /\ m' = m /\ n' = n
  BY <1>1, SameLists
<1>3. Walking(m, n, v, w, i, j) /\ Walking(n, m, w, v, j, i)
  BY <1>1, Swapped DEF WalkingSides
<1>4. ("a" \in ahead <=> AheadIn(v, i, n)) /\ ("b" \in ahead <=> AheadIn(w, j, m))
  BY <1>1 DEF CompareInv
<1>5. m \in VersionVector /\ n \in VersionVector /\ Canonical(v, m) /\ Canonical(w, n)
  BY <1>3 DEF Walking
<1>6. ordering' = Compare(m, n)
  <2>1. CASE ahead = Side
    <3>1. Ahead(m, n) # {} /\ Ahead(n, m) # {}
      BY <1>3, <1>4, <2>1, AheadAtEnd DEF Side
    <3> QED BY <1>1, <2>1, <3>1 DEF Compare
  <2>2. CASE ahead # Side
    <3>1. i > Len(v) \/ j > Len(w)
      <4>1. Len(v) \in Nat /\ Len(w) \in Nat /\ i \in Nat /\ j \in Nat
        BY <1>3, WalkTyped
      <4> QED BY <1>1, <2>2, <4>1 DEF Both
    <3>2. Ahead(m, n) # {} <=> "a" \in ahead \/ i <= Len(v)
      BY <1>3, <1>4, <3>1, AheadAtEnd
    <3>3. Ahead(n, m) # {} <=> "b" \in ahead \/ j <= Len(w)
      BY <1>3, <1>4, <3>1, AheadAtEnd
    <3>4. /\ "a" \in Trailing <=> i <= Len(v)
          /\ "b" \in Trailing <=> j <= Len(w)
          /\ Trailing \subseteq Side
      BY DEF Trailing, Side
    <3>5. ahead \cup Trailing \in SUBSET Side
      BY <1>1, <3>4 DEF CompareInv
    <3>6. OrderingOf(ahead \cup Trailing) = Compare(m, n)
      BY <1>5, <3>2, <3>3, <3>4, <3>5, OrderingIs
    <3> QED BY <1>1, <2>2, <3>6
  <2> QED BY <2>1, <2>2
<1>7. out' = <<>>
  BY <1>1 DEF CompareInv
<1>8. WalkingSides' /\ MergeInv'
  BY <1>1, <1>2, <1>5, <1>7, WalkStarts DEF WalkingSides, MergeInv
<1> QED BY <1>1, <1>2, <1>6, <1>8 DEF WalkInv

LEMMA MergeStepKeeps == ASSUME WalkInv, MergeStep PROVE WalkInv'
<1>1. /\ told' = told /\ pc = "merge" /\ pc' = "merge" /\ ordering' = ordering /\ Both /\ Advance
      /\ WalkingSides /\ MergeInv
      /\ out' = Append(out, Larger(List("a")[i], List("b")[j]))
  BY DEF MergeStep, WalkInv, vars
<1>2. /\ i' = Step(i, List("a")[i], List("b")[j]) /\ j' = Step(j, List("b")[j], List("a")[i])
      /\ WalkingSides'
  BY <1>1, AdvanceWalks
<1>3. Prefix(out', List("a"), List("b"), i', j', Merge(Vector("a"), Vector("b")))
  BY <1>1, <1>2, PrefixStep DEF WalkingSides, Both, MergeInv
<1>4. MergeInv'
  BY <1>1, <1>3, SameLists DEF MergeInv
<1>5. ordering' = Compare(Vector("a"), Vector("b"))'
  BY <1>1, SameLists DEF WalkInv
<1> QED BY <1>1, <1>2, <1>4, <1>5 DEF WalkInv

LEMMA MergeEndKeeps == ASSUME WalkInv, MergeEnd PROVE WalkInv'
<1>1. /\ told' = told /\ pc = "merge" /\ pc' = "done" /\ ordering' = ordering /\ ~Both
      /\ WalkingSides /\ MergeInv
      /\ out' = out \o Rest(List("a"), i) \o Rest(List("b"), j)
  BY DEF MergeEnd, WalkInv, vars
<1>2. i > Len(List("a")) \/ j > Len(List("b"))
  <2>1. Len(List("a")) \in Nat /\ Len(List("b")) \in Nat /\ i \in Nat /\ j \in Nat
    BY <1>1, WalkTyped DEF WalkingSides
  <2> QED BY <1>1, <2>1 DEF Both
<1>3. Canonical(out', Merge(Vector("a"), Vector("b")))
  BY <1>1, <1>2, MergedAtEnd DEF WalkingSides, MergeInv
<1>4. ordering' = Compare(Vector("a"), Vector("b"))'
  BY <1>1, SameLists DEF WalkInv
<1>5. Canonical(out, Merge(Vector("a"), Vector("b")))'
  BY <1>1, <1>3, SameLists
<1> QED BY <1>1, <1>4, <1>5 DEF WalkInv

LEMMA ResolveKeeps == ASSUME WalkInv, pc = "done", told' = told, UNCHANGED walk PROVE WalkInv'
<1>1. pc' = "done" /\ out' = out /\ ordering' = ordering
  BY DEF walk
<1>2. ordering' = Compare(Vector("a"), Vector("b"))'
  BY <1>1, SameLists DEF WalkInv
<1>3. Canonical(out, Merge(Vector("a"), Vector("b")))'
  BY <1>1, SameLists DEF WalkInv
<1> QED BY <1>1, <1>2, <1>3 DEF WalkInv

\* The invariant of the loops of Compare and Merge (versionvector.go).
THEOREM WalkInvariant == WalkSpec => []WalkInv
<1>1. WalkInit => WalkInv
  BY WalkInvInit
<1>2. WalkInv /\ [WalkNext]_<<vars, walk>> => WalkInv'
  <2> SUFFICES ASSUME WalkInv, [WalkNext]_<<vars, walk>> PROVE WalkInv'
    OBVIOUS
  <2>1. CASE CompareStep
    BY <2>1, CompareStepKeeps
  <2>2. CASE CompareEnd
    BY <2>2, CompareEndKeeps
  <2>3. CASE MergeStep
    BY <2>3, MergeStepKeeps
  <2>4. CASE MergeEnd
    BY <2>4, MergeEndKeeps
  <2>5. CASE pc = "done" /\ Next /\ UNCHANGED walk
    <3>1. told' = told
      BY <2>5 DEF Next, Resolve
    <3> QED BY <2>5, <3>1, ResolveKeeps
  <2>6. CASE UNCHANGED <<vars, walk>>
    <3>1. /\ told' = told /\ pc' = pc /\ i' = i /\ j' = j /\ ahead' = ahead
          /\ ordering' = ordering /\ out' = out
      BY <2>6 DEF vars, walk
    <3>2. /\ Vector("a")' = Vector("a") /\ Vector("b")' = Vector("b")
          /\ List("a")' = List("a") /\ List("b")' = List("b")
      BY <3>1, SameLists
    <3> QED BY <3>1, <3>2 DEF WalkInv, WalkingSides, CompareInv, MergeInv
  <2> QED BY <2>1, <2>2, <2>3, <2>4, <2>5, <2>6 DEF WalkNext
<1> QED BY <1>1, <1>2, PTL DEF WalkSpec

\* The walks and searches give on the lists what SyncData says of the vectors, for any
\* devices and counters: the resolver may be reasoned about with vectors as functions, and
\* equal vectors have one list (SR-5).
THEOREM WalksPointwise == WalkSpec => []WalksArePointwise
<1>1. WalkInv => WalksArePointwise
  <2> SUFFICES ASSUME WalkInv PROVE WalksArePointwise
    OBVIOUS
  <2> DEFINE v == List("a")
             w == List("b")
             m == Vector("a")
             n == Vector("b")
  <2>1. /\ m \in VersionVector /\ n \in VersionVector
        /\ Canonical(v, m) /\ Canonical(w, n)
    BY SidesTyped DEF WalkInv
  <2>2. ASSUME pc = "done" PROVE out = NewVersionVector(Merge(m, n))
    <3>1. Merge(m, n) \in VersionVector
      BY <2>1, MergeAhead
    <3>2. Canonical(out, Merge(m, n)) /\ Canonical(NewVersionVector(Merge(m, n)), Merge(m, n))
      BY <2>2, <3>1, ListIsCanonical DEF WalkInv
    <3> QED BY <3>1, <3>2, CanonicalIsUnique
  <2>3. IsEqual(v, w) <=> Compare(m, n) = "Equal"
    <3>1. m = n => v = w
      BY DEF List
    <3>2. v = w => IsEqual(v, w)
      BY DEF IsEqual
    <3>3. ASSUME IsEqual(v, w) PROVE m = n
      <4>1. v \in Seq(Counters) /\ w \in Seq(Counters)
        BY <2>1 DEF Canonical
      <4>2. v = w
        BY <3>3, <4>1, SameQueue DEF IsEqual
      <4>3. \A d \in Device : m[d] = Get(v, d) /\ n[d] = Get(v, d)
        BY <2>1, <4>2, GetIsPointwise
      <4> QED BY <2>1, <4>3 DEF VersionVector
    <3>4. Compare(m, n) = "Equal" <=> m = n
      BY <2>1, CompareMeaning
    <3> QED BY <3>1, <3>2, <3>3, <3>4
  <2>4. ASSUME NEW d \in Device PROVE Get(v, d) = m[d] /\ BumpList(v, d) = NewVersionVector(Bump(m, d))
    <3>1. Bump(m, d) \in VersionVector
      BY <2>1, BumpTyped
    <3>2. Canonical(BumpList(v, d), Bump(m, d))
      BY <2>1, BumpIsPointwise
    <3>3. Canonical(NewVersionVector(Bump(m, d)), Bump(m, d))
      BY <3>1, ListIsCanonical
    <3>4. BumpList(v, d) = NewVersionVector(Bump(m, d))
      BY <3>1, <3>2, <3>3, CanonicalIsUnique
    <3> QED BY <2>1, <3>4, GetIsPointwise
  <2>5. pc # "compare" => ordering = Compare(m, n)
    BY DEF WalkInv
  <2> QED BY <2>2, <2>3, <2>4, <2>5 DEF WalksArePointwise
<1> QED BY <1>1, WalkInvariant, PTL

\* The loops do not touch what the sides record: the walk before the verdict is invisible
\* to Resolver, so its theorems hold of this specification too.
THEOREM WalkImplementsResolver == WalkSpec => Spec
<1>1. WalkInit => Init
  BY DEF WalkInit
<1>2. [WalkNext]_<<vars, walk>> => [Next]_vars
  BY DEF WalkNext, CompareStep, CompareEnd, MergeStep, MergeEnd, vars
<1> QED BY <1>1, <1>2, PTL DEF WalkSpec, Spec

-----------------------------------------------------------------------------
(* The codec. *)

\* A list in which each device is above the one before it is ascending: of the places
\* that violate it, the first cannot exist.
LEMMA NeighboursSuffice ==
    ASSUME NEW t \in Seq(Counters), \A k \in 1 .. Len(t) : k > 1 => t[k].id > t[k - 1].id
    PROVE  Ascending(t)
<1> DEFINE S == {l \in 1 .. Len(t) : \E k \in 1 .. Len(t) : k < l /\ ~(t[k].id < t[l].id)}
<1>1. Len(t) \in Nat /\ \A k \in 1 .. Len(t) : t[k].id \in Nat
  <2>1. \A k \in 1 .. Len(t) : t[k] \in Counters
    OBVIOUS
  <2> QED BY <2>1, DevicesAreFinite DEF Counters
<1>2. S = {}
  <2>1. SUFFICES ASSUME S # {} PROVE FALSE
    OBVIOUS
  <2>2. S \in SUBSET Nat
    BY <1>1
  <2>3. PICK l \in S : \A y \in S : l <= y
    BY <2>1, <2>2, MinExists
  <2>4. PICK k \in 1 .. Len(t) : k < l /\ ~(t[k].id < t[l].id)
    BY <2>3
  <2>5. l \in 1 .. Len(t) /\ l - 1 \in 1 .. Len(t) /\ l - 1 < l /\ l > 1
    BY <1>1, <2>3, <2>4
  <2>6. t[l].id > t[l - 1].id /\ t[l].id \in Nat /\ t[l - 1].id \in Nat /\ t[k].id \in Nat
    BY <1>1, <2>4, <2>5
  <2>7. l - 1 \notin S
    BY <2>3, <2>5
  <2>8. k = l - 1 \/ t[k].id < t[l - 1].id
    BY <2>4, <2>5, <2>7
  <2> QED BY <2>4, <2>6, <2>8
<1> QED BY <1>2 DEF Ascending

\* An ascending list without zeros is the list of the vector that Get reads from it.
LEMMA AscendingIsCanonical ==
    ASSUME NEW t \in Seq(Counters), Ascending(t), \A k \in 1 .. Len(t) : t[k].value > 0
    PROVE  t = NewVersionVector([d \in Device |-> Get(t, d)])
<1> DEFINE at(d) == CHOOSE k \in 1 .. Len(t) : t[k].id = d
           m == [d \in Device |-> IF \E k \in 1 .. Len(t) : t[k].id = d THEN t[at(d)].value ELSE 0]
<1>1. \A k \in 1 .. Len(t) : t[k] \in Counters /\ t[k].id \in Device /\ t[k].value \in Nat
  <2>1. \A k \in 1 .. Len(t) : t[k] \in Counters
    OBVIOUS
  <2> QED BY <2>1 DEF Counters
<1>2. ASSUME NEW d \in Device, \E k \in 1 .. Len(t) : t[k].id = d
      PROVE  at(d) \in 1 .. Len(t) /\ t[at(d)].id = d
  BY <1>2
<1>3. m \in VersionVector
  <2>1. ASSUME NEW d \in Device PROVE m[d] \in Nat
    <3>1. CASE \E k \in 1 .. Len(t) : t[k].id = d
      <4>1. m[d] = t[at(d)].value
        BY <3>1
      <4> QED BY <1>1, <1>2, <3>1, <4>1
    <3>2. CASE ~\E k \in 1 .. Len(t) : t[k].id = d
      BY <3>2
    <3> QED BY <3>1, <3>2
  <2> QED BY <2>1 DEF VersionVector
<1>4. ASSUME NEW k \in 1 .. Len(t) PROVE t[k].value = m[t[k].id]
  <2>1. t[k].id \in Device /\ \E l \in 1 .. Len(t) : t[l].id = t[k].id
    BY <1>1
  <2>2. at(t[k].id) \in 1 .. Len(t) /\ t[at(t[k].id)].id = t[k].id
    BY <1>2, <2>1
  <2>3. m[t[k].id] = t[at(t[k].id)].value
    BY <2>1
  <2> HIDE DEF at, m
  <2>4. at(t[k].id) = k
    <3>1. ~(at(t[k].id) < k) /\ ~(k < at(t[k].id))
      <4>1. t[k].id \in Nat
        BY <2>1, DevicesAreFinite
      <4> QED BY <2>2, <4>1 DEF Ascending
    <3> QED BY <2>2, <3>1
  <2> QED BY <2>3, <2>4
<1>5. \A d \in Device : m[d] > 0 => \E k \in 1 .. Len(t) : t[k].id = d
  OBVIOUS
<1> HIDE DEF m, at
<1>6. Canonical(t, m)
  BY <1>4, <1>5 DEF Canonical
<1>7. m = [d \in Device |-> Get(t, d)]
  <2>1. \A d \in Device : Get(t, d) = m[d]
    BY <1>3, <1>6, GetIsPointwise
  <2> QED BY <1>3, <2>1 DEF VersionVector
<1>8. t = NewVersionVector(m)
  BY <1>3, <1>6, ListIsCanonical, CanonicalIsUnique
<1> QED BY <1>7, <1>8

\* The words of an encoded list.
LEMMA EncodeIs ==
    ASSUME NEW v \in Seq(Counters)
    PROVE  /\ Encode(v) \in Seq(Nat) /\ Len(Encode(v)) = 1 + 2 * Len(v)
           /\ Encode(v)[1] = Len(v) % Uint16
           /\ \A k \in 1 .. Len(v) : /\ Encode(v)[2 * k] = v[k].id
                                     /\ Encode(v)[2 * k + 1] = v[k].value
<1> DEFINE f == [k \in 1 .. 2 * Len(v) |->
                   LET c == v[(k + 1) \div 2] IN IF k % 2 = 1 THEN c.id ELSE c.value]
           h == <<Len(v) % Uint16>>
<1>1. Len(v) \in Nat /\ \A k \in 1 .. Len(v) : v[k].id \in Nat /\ v[k].value \in Nat
  <2>1. \A k \in 1 .. Len(v) : v[k] \in Counters
    OBVIOUS
  <2> QED BY <2>1, DevicesAreFinite DEF Counters
<1>2. \A k \in 1 .. 2 * Len(v) : (k + 1) \div 2 \in 1 .. Len(v)
  BY <1>1
<1>3. \A k \in 1 .. 2 * Len(v) : f[k] \in Nat
  BY <1>1, <1>2
<1>4. f \in Seq(Nat) /\ Len(f) = 2 * Len(v)
  <2>1. 2 * Len(v) \in Nat
    BY <1>1
  <2> QED BY <1>3, <2>1
<1>5. ASSUME NEW k \in 1 .. Len(v) PROVE f[2 * k - 1] = v[k].id /\ f[2 * k] = v[k].value
  <2>1. 2 * k - 1 \in 1 .. 2 * Len(v) /\ 2 * k \in 1 .. 2 * Len(v)
    BY <1>1
  <2>2. ((2 * k - 1) + 1) \div 2 = k /\ (2 * k + 1) \div 2 = k
    BY <1>1
  <2>3. (2 * k - 1) % 2 = 1 /\ (2 * k) % 2 = 0
    BY <1>1
  <2> QED BY <2>1, <2>2, <2>3
<1>6. Len(v) % Uint16 \in Nat
  BY <1>1 DEF Uint16
<1>7. h \in Seq(Nat) /\ Len(h) = 1 /\ h[1] = Len(v) % Uint16
  BY <1>6
<1>8. Encode(v) = h \o f
  BY DEF Encode
<1> HIDE DEF h, f
<1>9. /\ h \o f \in Seq(Nat) /\ Len(h \o f) = Len(h) + Len(f)
      /\ \A k \in 1 .. Len(h) : (h \o f)[k] = h[k]
      /\ \A k \in 1 .. Len(f) : (h \o f)[Len(h) + k] = f[k]
  <2>1. h \in Seq(Nat) /\ f \in Seq(Nat)
    BY <1>4, <1>7
  <2>2. h \o f \in Seq(Nat) /\ Len(h \o f) = Len(h) + Len(f)
    BY <2>1
  <2>3. \A k \in 1 .. Len(h) : (h \o f)[k] = h[k]
    BY <2>1
  <2>4. \A k \in 1 .. Len(f) : (h \o f)[Len(h) + k] = f[k]
    BY <2>1
  <2> QED BY <2>2, <2>3, <2>4
<1> DEFINE e == Encode(v)
<1>10. /\ e \in Seq(Nat) /\ Len(e) = 1 + 2 * Len(v) /\ e[1] = Len(v) % Uint16
       /\ \A k \in 1 .. 2 * Len(v) : e[1 + k] = f[k]
  <2>1. 1 \in 1 .. Len(h)
    BY <1>7
  <2> QED BY <1>4, <1>7, <1>8, <1>9, <2>1
<1> HIDE DEF e
<1>11. ASSUME NEW k \in 1 .. Len(v) PROVE e[2 * k] = v[k].id /\ e[2 * k + 1] = v[k].value
  <2>1. 2 * k - 1 \in 1 .. 2 * Len(v) /\ 2 * k \in 1 .. 2 * Len(v)
    BY <1>1
  <2>2. 1 + (2 * k - 1) = 2 * k /\ 1 + 2 * k = 2 * k + 1
    BY <1>1
  <2>3. e[1 + (2 * k - 1)] = f[2 * k - 1] /\ e[1 + 2 * k] = f[2 * k]
    BY <1>10, <2>1
  <2> QED BY <1>5, <2>2, <2>3
<1> QED BY <1>10, <1>11 DEF e

\* The first of two vectors on the wire has its words where it would have them alone.
LEMMA Followed ==
    ASSUME NEW u \in Seq(Nat), NEW w \in Seq(Nat)
    PROVE  /\ u \o w \in Seq(Nat) /\ Len(u \o w) >= Len(u)
           /\ \A k \in 1 .. Len(u) : (u \o w)[k] = u[k]
<1>1. u \o w \in Seq(Nat) /\ Len(u \o w) >= Len(u)
  OBVIOUS
<1>2. \A k \in 1 .. Len(u) : (u \o w)[k] = u[k]
  OBVIOUS
<1> QED BY <1>1, <1>2

\* A list refused by the decoder: a zero counter or a device not above the one before it.
Refused(t) == \E k \in 1 .. Len(t) : t[k].value = 0 \/ (k > 1 /\ t[k].id <= t[k - 1].id)

\* What the decoder makes of words that hold the list t.
LEMMA DecodeIs ==
    ASSUME NEW t \in Seq(Counters), NEW b \in Seq(Nat), Len(b) >= 1 + 2 * Len(t),
           b[1] = Len(t),
           \A k \in 1 .. Len(t) : b[2 * k] = t[k].id /\ b[2 * k + 1] = t[k].value
    PROVE  DecodeVersionVector(b) =
             IF Refused(t) THEN ErrMalformedVersionVector
             ELSE [ok |-> TRUE, vv |-> t, read |-> 1 + 2 * Len(t)]
<1> DEFINE f == [k \in 1 .. Len(t) |-> Counter(b[2 * k], b[2 * k + 1])]
<1>1. Len(t) \in Nat /\ \A k \in 1 .. Len(t) : t[k] \in Counters
  OBVIOUS
<1>2. b # <<>> /\ Head(b) = Len(t) /\ ~(Len(b) < 1 + 2 * Len(t))
  BY <1>1
<1>3. ASSUME NEW k \in 1 .. Len(t) PROVE f[k] = t[k]
  <2>1. f[k] = [id |-> t[k].id, value |-> t[k].value]
    BY DEF Counter
  <2>2. t[k] \in [id : Device, value : Nat]
    BY <1>1 DEF Counters
  <2> QED BY <2>1, <2>2
<1>4. f = t
  <2>1. DOMAIN f = 1 .. Len(t) /\ DOMAIN t = 1 .. Len(t)
    OBVIOUS
  <2>2. f = [k \in 1 .. Len(t) |-> t[k]]
    BY <1>3
  <2>3. t = [k \in 1 .. Len(t) |-> t[k]]
    OBVIOUS
  <2> QED BY <2>2, <2>3
<1>5. DecodeVersionVector(b) =
        IF \E k \in 1 .. Len(t) : f[k].value = 0 \/ (k > 1 /\ f[k].id <= f[k - 1].id)
        THEN ErrMalformedVersionVector
        ELSE [ok |-> TRUE, vv |-> f, read |-> 1 + 2 * Len(t)]
  BY <1>2 DEF DecodeVersionVector
<1> HIDE DEF f
<1> QED BY <1>4, <1>5 DEF Refused

\* Words that end before the last counter they announce are refused.
LEMMA CutOff ==
    ASSUME NEW b \in Seq(Nat), b # <<>> => Len(b) < 1 + 2 * Head(b)
    PROVE  DecodeVersionVector(b) = ErrMalformedVersionVector
BY DEF DecodeVersionVector

\* A vector has no more counters than a uint16 can count.
LEMMA ListFits ==
    ASSUME NEW m \in VersionVector, NEW s, Canonical(s, m)
    PROVE  s \in Seq(Counters) /\ Len(s) \in Nat /\ Len(s) % Uint16 = Len(s)
<1>1. s \in Seq(Counters) /\ Len(s) \in Nat /\ Len(s) = Cardinality(Ids(m))
  BY RankInList DEF Canonical
<1>2. Ids(m) \in SUBSET Device /\ IsFiniteSet(Device) /\ Cardinality(Device) \in Nat
  BY DevicesAreFinite DEF Ids
<1>3. Cardinality(Ids(m)) <= Cardinality(Device)
  BY <1>2, FS_Subset
<1>4. Len(s) < Uint16
  BY <1>1, <1>2, <1>3, WalkAssumption DEF Uint16
<1> QED BY <1>1, <1>4 DEF Uint16

\* What is written of a canonical list is read back, whatever follows it.
LEMMA ReadBack ==
    ASSUME NEW m \in VersionVector, NEW s, Canonical(s, m), NEW more \in Seq(Nat)
    PROVE  DecodeVersionVector(Encode(s) \o more)
             = [ok |-> TRUE, vv |-> s, read |-> Len(Encode(s))]
<1> DEFINE e == Encode(s)
           b == e \o more
<1>1. s \in Seq(Counters) /\ Len(s) \in Nat /\ Len(s) % Uint16 = Len(s)
  BY ListFits
<1>2. /\ e \in Seq(Nat) /\ Len(e) = 1 + 2 * Len(s) /\ e[1] = Len(s)
      /\ \A k \in 1 .. Len(s) : e[2 * k] = s[k].id /\ e[2 * k + 1] = s[k].value
  BY <1>1, EncodeIs
<1> HIDE DEF e
<1>3. b \in Seq(Nat) /\ Len(b) >= Len(e) /\ \A k \in 1 .. Len(e) : b[k] = e[k]
  BY <1>2, Followed
<1> HIDE DEF b
<1>4. b[1] = Len(s) /\ Len(b) >= 1 + 2 * Len(s)
  BY <1>1, <1>2, <1>3
<1>5. ASSUME NEW k \in 1 .. Len(s) PROVE b[2 * k] = s[k].id /\ b[2 * k + 1] = s[k].value
  <2>1. 2 * k \in 1 .. Len(e) /\ 2 * k + 1 \in 1 .. Len(e)
    BY <1>1, <1>2
  <2> QED BY <1>2, <1>3, <2>1
<1>6. ~Refused(s)
  <2> SUFFICES ASSUME NEW k \in 1 .. Len(s), s[k].value = 0 \/ (k > 1 /\ s[k].id <= s[k - 1].id)
               PROVE  FALSE
    BY DEF Refused
  <2>1. s[k].value > 0 /\ s[k].value \in Nat /\ s[k].id \in Nat
    BY CounterTyped
  <2>2. k > 1 /\ s[k].id <= s[k - 1].id
    BY <2>1
  <2>3. k - 1 \in 1 .. Len(s) /\ k - 1 < k
    BY <1>1, <2>2
  <2>4. s[k - 1].id < s[k].id /\ s[k - 1].id \in Nat
    BY <2>3, CounterTyped DEF Canonical, Ascending
  <2> QED BY <2>1, <2>2, <2>4
<1>7. DecodeVersionVector(b) = [ok |-> TRUE, vv |-> s, read |-> 1 + 2 * Len(s)]
  BY <1>1, <1>3, <1>4, <1>5, <1>6, DecodeIs
<1> QED BY <1>2, <1>7 DEF b, e

\* A list that is accepted is canonical, even when its count did not fit.
LEMMA AcceptedIsCanonical ==
    ASSUME NEW u \in Seq(Counters), NEW r, r = DecodeVersionVector(Encode(u)), r.ok
    PROVE  r.vv = NewVersionVector([d \in Device |-> Get(r.vv, d)])
<1> DEFINE e == Encode(u)
           c == Len(u) % Uint16
           t == SubSeq(u, 1, c)
<1>1. Len(u) \in Nat /\ c \in Nat /\ c <= Len(u)
  BY DEF Uint16
<1>2. /\ e \in Seq(Nat) /\ Len(e) = 1 + 2 * Len(u) /\ e[1] = c
      /\ \A k \in 1 .. Len(u) : e[2 * k] = u[k].id /\ e[2 * k + 1] = u[k].value
  BY EncodeIs
<1> HIDE DEF e, c
<1>3. t \in Seq(Counters) /\ Len(t) = c /\ \A k \in 1 .. c : t[k] = u[k]
  <2>1. t \in Seq(Counters) /\ Len(t) = c
    BY <1>1
  <2>2. \A k \in 1 .. c : t[k] = u[k]
    BY <1>1
  <2> QED BY <2>1, <2>2
<1> HIDE DEF t
<1>4. /\ Len(e) >= 1 + 2 * Len(t) /\ e[1] = Len(t)
      /\ \A k \in 1 .. Len(t) : e[2 * k] = t[k].id /\ e[2 * k + 1] = t[k].value
  <2>1. \A k \in 1 .. Len(t) : k \in 1 .. Len(u)
    BY <1>1, <1>3
  <2>2. Len(e) >= 1 + 2 * Len(t) /\ e[1] = Len(t)
    BY <1>1, <1>2, <1>3
  <2>3. ASSUME NEW k \in 1 .. Len(t) PROVE e[2 * k] = t[k].id /\ e[2 * k + 1] = t[k].value
    <3>1. k \in 1 .. Len(u) /\ t[k] = u[k]
      BY <1>3, <2>1
    <3>2. e[2 * k] = u[k].id /\ e[2 * k + 1] = u[k].value
      BY <1>2, <3>1
    <3> QED BY <3>1, <3>2
  <2> QED BY <2>2, <2>3
<1>5. r = IF Refused(t) THEN ErrMalformedVersionVector
          ELSE [ok |-> TRUE, vv |-> t, read |-> 1 + 2 * Len(t)]
  BY <1>2, <1>3, <1>4, DecodeIs DEF e
<1>6. ~Refused(t) /\ r.vv = t
  BY <1>5 DEF ErrMalformedVersionVector
<1>7. \A k \in 1 .. Len(t) : t[k] \in Counters /\ t[k].id \in Nat /\ t[k].value \in Nat
  <2>1. \A k \in 1 .. Len(t) : t[k] \in Counters
    BY <1>3
  <2> QED BY <2>1, DevicesAreFinite DEF Counters
<1>8. ASSUME NEW k \in 1 .. Len(t) PROVE t[k].value > 0 /\ (k > 1 => t[k].id > t[k - 1].id)
  <2>1. t[k].value # 0 /\ (k > 1 => ~(t[k].id <= t[k - 1].id))
    BY <1>6 DEF Refused
  <2>2. k > 1 => k - 1 \in 1 .. Len(t)
    BY <1>1, <1>3
  <2> QED BY <1>7, <2>1, <2>2
<1>9. Ascending(t)
  BY <1>3, <1>8, NeighboursSuffice
<1>10. t = NewVersionVector([d \in Device |-> Get(t, d)])
  BY <1>3, <1>8, <1>9, AscendingIsCanonical
<1> QED BY <1>6, <1>10

\* The wire form of vectors is exact for any vectors of fewer than 2^16 counters: read
\* back as written, refused when cut off anywhere, and accepted only when canonical
\* (versionvector.go Encode, DecodeVersionVector).
THEOREM CodecExact == WalkSpec => []CodecIsExact
<1>1. WalkInv => CodecIsExact
  <2> SUFFICES ASSUME WalkInv PROVE CodecIsExact
    OBVIOUS
  <2> DEFINE v == List("a")
             w == List("b")
             e == Encode(v)
  <2>1. /\ Vector("a") \in VersionVector /\ Canonical(v, Vector("a"))
        /\ Vector("b") \in VersionVector /\ Canonical(w, Vector("b"))
    BY SidesTyped DEF WalkInv
  <2>2. /\ v \in Seq(Counters) /\ Len(v) \in Nat /\ Len(v) % Uint16 = Len(v)
        /\ w \in Seq(Counters)
    BY <2>1, ListFits
  <2>3. Encode(w) \in Seq(Nat) /\ e \in Seq(Nat) /\ Len(e) = 1 + 2 * Len(v) /\ e[1] = Len(v)
    BY <2>2, EncodeIs
  <2>4. DecodeVersionVector(e \o Encode(w)) = [ok |-> TRUE, vv |-> v, read |-> Len(e)]
    BY <2>1, <2>3, ReadBack
  <2>5. ASSUME DecodeVersionVector(Spliced).ok
        PROVE  DecodeVersionVector(Spliced).vv
                 = NewVersionVector([d \in Device |-> Get(DecodeVersionVector(Spliced).vv, d)])
    <3>1. v \o w \in Seq(Counters)
      BY <2>2
    <3> QED BY <2>5, <3>1, AcceptedIsCanonical DEF Spliced
  <2> HIDE DEF e, v, w
  <2>6. ASSUME NEW n \in 0 .. Len(e) - 1 PROVE ~DecodeVersionVector(SubSeq(e, 1, n)).ok
    <3> DEFINE b == SubSeq(e, 1, n)
    <3>1. n \in Nat /\ n < 1 + 2 * Len(v) /\ n <= Len(e)
      BY <2>2, <2>3
    <3>2. b \in Seq(Nat) /\ Len(b) = n
      BY <2>3, <3>1
    <3>3. ASSUME n # 0 PROVE b[1] = Len(v)
      BY <2>3, <3>1, <3>3
    <3> HIDE DEF b
    <3>4. b # <<>> => Head(b) = b[1] /\ n # 0
      BY <3>2
    <3>5. b # <<>> => Len(b) < 1 + 2 * Head(b)
      BY <3>1, <3>2, <3>3, <3>4
    <3>6. DecodeVersionVector(b) = ErrMalformedVersionVector
      BY <3>2, <3>5, CutOff
    <3> QED BY <3>6 DEF ErrMalformedVersionVector, b
  <2> QED BY <2>4, <2>5, <2>6 DEF CodecIsExact, e, v, w
<1> QED BY <1>1, WalkInvariant, PTL
=============================================================================
