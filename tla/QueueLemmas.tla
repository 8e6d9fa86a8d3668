---------------------------- MODULE QueueLemmas -----------------------------
(***************************************************************************)
(* What the proofs need to know of the channels and wires of the models:   *)
(* sequences that grow at the end and shrink at the head.                  *)
(***************************************************************************)
EXTENDS Integers, Sequences, Functions, TLAPS

\* A send adds its element to what a channel holds.
LEMMA RangeAppend ==
    ASSUME NEW S, NEW q \in Seq(S), NEW k \in S
    PROVE  /\ Append(q, k) \in Seq(S)
           /\ Len(Append(q, k)) = Len(q) + 1
           /\ Range(Append(q, k)) = Range(q) \cup {k}
<1>1. /\ Append(q, k) \in Seq(S) /\ Len(Append(q, k)) = Len(q) + 1
      /\ DOMAIN q = 1 .. Len(q) /\ DOMAIN Append(q, k) = 1 .. Len(q) + 1
      /\ Len(q) \in Nat
      /\ \A i \in 1 .. Len(q) : Append(q, k)[i] = q[i]
      /\ Append(q, k)[Len(q) + 1] = k
  OBVIOUS
<1>2. \A x : x \in Range(Append(q, k)) <=> x \in Range(q) \/ x = k
  <2>1. ASSUME NEW x \in Range(Append(q, k)) PROVE x \in Range(q) \/ x = k
    <3>1. PICK i \in 1 .. Len(q) + 1 : x = Append(q, k)[i]
      BY <2>1, <1>1 DEF Range
    <3>2. i \in 1 .. Len(q) \/ i = Len(q) + 1
      BY <1>1
    <3> QED BY <3>1, <3>2, <1>1 DEF Range
  <2>2. ASSUME NEW x \in Range(q) PROVE x \in Range(Append(q, k))
    <3>1. PICK i \in 1 .. Len(q) : x = q[i]
      BY <2>2, <1>1 DEF Range
    <3>2. i \in 1 .. Len(q) + 1 /\ x = Append(q, k)[i]
      BY <3>1, <1>1
    <3> QED BY <3>2, <1>1 DEF Range
  <2>3. k \in Range(Append(q, k))
    <3>1. Len(q) + 1 \in 1 .. Len(q) + 1
      BY <1>1
    <3> QED BY <3>1, <1>1 DEF Range
  <2> QED BY <2>1, <2>2, <2>3
<1> QED BY <1>1, <1>2

\* A receive takes away only the element it returns.
LEMMA RangeTail ==
    ASSUME NEW S, NEW q \in Seq(S), q # <<>>
    PROVE  /\ Tail(q) \in Seq(S) /\ Head(q) \in S
           /\ Len(Tail(q)) = Len(q) - 1
           /\ Range(q) = Range(Tail(q)) \cup {Head(q)}
<1>1. /\ Tail(q) \in Seq(S) /\ Head(q) \in S /\ Len(q) \in Nat /\ Len(q) > 0
      /\ Len(Tail(q)) = Len(q) - 1
      /\ DOMAIN q = 1 .. Len(q) /\ DOMAIN Tail(q) = 1 .. Len(q) - 1
      /\ Head(q) = q[1]
      /\ \A i \in 1 .. Len(q) - 1 : Tail(q)[i] = q[i + 1]
  OBVIOUS
<1>2. \A x : x \in Range(q) <=> x \in Range(Tail(q)) \/ x = Head(q)
  <2>1. ASSUME NEW x \in Range(q) PROVE x \in Range(Tail(q)) \/ x = Head(q)
    <3>1. PICK i \in 1 .. Len(q) : x = q[i]
      BY <2>1, <1>1 DEF Range
    <3>2. CASE i = 1
      BY <3>1, <3>2, <1>1
    <3>3. CASE i # 1
      <4>1. i - 1 \in 1 .. Len(q) - 1 /\ x = Tail(q)[i - 1]
        BY <3>1, <3>3, <1>1
      <4> QED BY <4>1, <1>1 DEF Range
    <3> QED BY <3>2, <3>3
  <2>2. ASSUME NEW x \in Range(Tail(q)) PROVE x \in Range(q)
    <3>1. PICK i \in 1 .. Len(q) - 1 : x = Tail(q)[i]
      BY <2>2, <1>1 DEF Range
    <3>2. i + 1 \in 1 .. Len(q) /\ x = q[i + 1]
      BY <3>1, <1>1
    <3> QED BY <3>2, <1>1 DEF Range
  <2>3. Head(q) \in Range(q)
    BY <1>1 DEF Range
  <2> QED BY <2>1, <2>2, <2>3
<1> QED BY <1>1, <1>2

\* Nothing is in an empty queue.
LEMMA RangeEmpty == Range(<<>>) = {}
BY DEF Range

\* It is a queue of whatever one likes.
LEMMA EmptyQueue == ASSUME NEW S PROVE <<>> \in Seq(S) /\ Len(<<>>) = 0
OBVIOUS

\* What is in a queue of S is in S.
LEMMA RangeType ==
    ASSUME NEW S, NEW q \in Seq(S)
    PROVE  \A x \in Range(q) : x \in S
BY DEF Range

-----------------------------------------------------------------------------
(* Order. *)

\* Nothing is in the queue twice.
NoRepeat(q) == \A i, j \in 1 .. Len(q) : q[i] = q[j] => i = j

\* Every x in the queue comes before every y.
Precedes(q, x, y) == \A i, j \in 1 .. Len(q) : q[i] = x /\ q[j] = y => i < j

\* A send keeps the order unless it sends an x after a y, and repeats only what is there.
LEMMA OrderAppend ==
    ASSUME NEW S, NEW q \in Seq(S), NEW z \in S
    PROVE  /\ NoRepeat(q) /\ z \notin Range(q) => NoRepeat(Append(q, z))
           /\ \A x, y : Precedes(q, x, y) /\ x # y /\ (z = x => y \notin Range(q))
                         => Precedes(Append(q, z), x, y)
<1> DEFINE n == Len(q)
           t == Append(q, z)
<1>1. /\ n \in Nat /\ Len(t) = n + 1 /\ DOMAIN q = 1 .. n
      /\ \A i \in 1 .. n : t[i] = q[i] /\ q[i] \in Range(q)
      /\ t[n + 1] = z
      /\ \A i \in 1 .. n + 1 : i \in 1 .. n \/ i = n + 1
  BY DEF Range
<1> HIDE DEF t, n
<1>2. ASSUME NoRepeat(q), z \notin Range(q) PROVE NoRepeat(t)
  BY <1>1, <1>2 DEF NoRepeat, n
<1>3. ASSUME NEW x, NEW y, Precedes(q, x, y), x # y, z = x => y \notin Range(q)
      PROVE  Precedes(t, x, y)
  <2> SUFFICES ASSUME NEW i \in 1 .. n + 1, NEW j \in 1 .. n + 1, t[i] = x, t[j] = y
               PROVE  i < j
    BY <1>1 DEF Precedes
  <2>1. CASE i \in 1 .. n /\ j \in 1 .. n
    BY <1>1, <1>3, <2>1 DEF Precedes, n
  <2>2. CASE i \in 1 .. n /\ j = n + 1
    BY <1>1, <2>2
  <2>3. CASE i = n + 1
    BY <1>1, <1>3, <2>3
  <2> QED BY <1>1, <2>1, <2>2, <2>3
<1> QED BY <1>2, <1>3 DEF t

\* A receive keeps the order; what it returns was there once, and nothing came before it.
LEMMA OrderTail ==
    ASSUME NEW S, NEW q \in Seq(S), q # <<>>
    PROVE  /\ NoRepeat(q) => NoRepeat(Tail(q)) /\ Head(q) \notin Range(Tail(q))
           /\ \A x, y : Precedes(q, x, y) =>
                 /\ Precedes(Tail(q), x, y)
                 /\ Head(q) = y => x \notin Range(q)
<1> DEFINE n == Len(q)
           t == Tail(q)
<1>1. /\ n \in Nat /\ n > 0 /\ Len(t) = n - 1 /\ DOMAIN q = 1 .. n /\ DOMAIN t = 1 .. n - 1
      /\ Head(q) = q[1]
      /\ \A i \in 1 .. n - 1 : t[i] = q[i + 1]
  OBVIOUS
<1>2. \A i \in 1 .. n - 1 : i + 1 \in 1 .. n /\ i + 1 # 1
  BY <1>1
<1> HIDE DEF n, t
<1>3. ASSUME NoRepeat(q) PROVE NoRepeat(t) /\ Head(q) \notin Range(t)
  <2>1. \A i, j \in 1 .. n - 1 : t[i] = t[j] => i = j
    <3> SUFFICES ASSUME NEW i \in 1 .. n - 1, NEW j \in 1 .. n - 1, t[i] = t[j] PROVE i = j
      OBVIOUS
    <3>1. q[i + 1] = q[j + 1]
      BY <1>1
    <3>2. i + 1 = j + 1
      BY <1>2, <1>3, <3>1 DEF NoRepeat, n
    <3> QED BY <3>2
  <2>2. ASSUME NEW i \in 1 .. n - 1, t[i] = Head(q) PROVE FALSE
    <3>1. q[i + 1] = q[1] /\ 1 \in 1 .. n
      BY <1>1, <2>2
    <3> QED BY <1>2, <1>3, <3>1 DEF NoRepeat, n
  <2> QED BY <1>1, <2>1, <2>2 DEF NoRepeat, Range
<1>4. ASSUME NEW x, NEW y, Precedes(q, x, y)
      PROVE  Precedes(t, x, y) /\ (Head(q) = y => x \notin Range(q))
  <2>1. ASSUME NEW i \in 1 .. n - 1, NEW j \in 1 .. n - 1, t[i] = x, t[j] = y PROVE i < j
    <3>1. q[i + 1] = x /\ q[j + 1] = y
      BY <1>1, <2>1
    <3>2. i + 1 < j + 1
      BY <1>2, <1>4, <3>1 DEF Precedes, n
    <3> QED BY <3>2
  <2>2. ASSUME Head(q) = y, NEW i \in 1 .. n, q[i] = x PROVE FALSE
    <3>1. q[1] = y /\ 1 \in 1 .. n
      BY <1>1, <2>2
    <3>2. i < 1
      BY <1>4, <2>2, <3>1 DEF Precedes, n
    <3> QED BY <3>2
  <2> QED BY <1>1, <2>1, <2>2 DEF Precedes, Range
<1> QED BY <1>3, <1>4 DEF t

\* Two queues one after the other.
LEMMA Concat ==
    ASSUME NEW T, NEW u \in Seq(T), NEW v \in Seq(T)
    PROVE  /\ u \o v \in Seq(T) /\ Len(u \o v) = Len(u) + Len(v)
           /\ \A k \in 1 .. Len(u) : (u \o v)[k] = u[k]
           /\ \A k \in 1 .. Len(v) : (u \o v)[Len(u) + k] = v[k]
<1>1. u \o v \in Seq(T) /\ Len(u \o v) = Len(u) + Len(v)
  OBVIOUS
<1>2. \A k \in 1 .. Len(u) : (u \o v)[k] = u[k]
  OBVIOUS
<1>3. \A k \in 1 .. Len(v) : (u \o v)[Len(u) + k] = v[k]
  OBVIOUS
<1> QED BY <1>1, <1>2, <1>3

\* Queues of the same length and with the same elements at each place are equal.
LEMMA SameQueue ==
    ASSUME NEW T, NEW u \in Seq(T), NEW v \in Seq(T), Len(u) = Len(v),
           \A k \in 1 .. Len(u) : u[k] = v[k]
    PROVE  u = v
OBVIOUS

\* What starts with u and goes on with v is u and v one after the other.
LEMMA Pieces ==
    ASSUME NEW T, NEW u \in Seq(T), NEW v \in Seq(T), NEW w \in Seq(T),
           Len(w) = Len(u) + Len(v),
           \A k \in 1 .. Len(u) : w[k] = u[k],
           \A k \in 1 .. Len(v) : w[Len(u) + k] = v[k]
    PROVE  u \o v = w
<1>1. /\ u \o v \in Seq(T) /\ Len(u \o v) = Len(w)
      /\ \A k \in 1 .. Len(u) : (u \o v)[k] = u[k]
      /\ \A k \in 1 .. Len(v) : (u \o v)[Len(u) + k] = v[k]
  BY Concat
<1>2. ASSUME NEW k \in 1 .. Len(w) PROVE (u \o v)[k] = w[k]
  <2>1. CASE k <= Len(u)
    <3>1. k \in 1 .. Len(u)
      BY <2>1
    <3> QED BY <1>1, <3>1
  <2>2. CASE k > Len(u)
    <3>1. PICK n \in 1 .. Len(v) : k = Len(u) + n
      <4>1. k - Len(u) \in 1 .. Len(v) /\ k = Len(u) + (k - Len(u))
        BY <2>2
      <4> QED BY <4>1
    <3> QED BY <1>1, <3>1
  <2> QED BY <2>1, <2>2
<1> QED BY <1>1, <1>2, SameQueue

\* A piece of a queue, from m to n.
LEMMA Piece ==
    ASSUME NEW T, NEW q \in Seq(T), NEW m \in Nat \ {0}, NEW n \in Nat,
           m <= n + 1, n <= Len(q)
    PROVE  /\ SubSeq(q, m, n) \in Seq(T) /\ Len(SubSeq(q, m, n)) = n - m + 1
           /\ \A k \in 1 .. n - m + 1 : SubSeq(q, m, n)[k] = q[m + k - 1]
<1>1. SubSeq(q, m, n) \in Seq(T)
  OBVIOUS
<1>2. Len(SubSeq(q, m, n)) = n - m + 1
  OBVIOUS
<1>3. \A k \in 1 .. n - m + 1 : SubSeq(q, m, n)[k] = q[m + k - 1]
  OBVIOUS
<1> QED BY <1>1, <1>2, <1>3

\* An element put into a queue before its f-th.
PutAt(q, f, x) == SubSeq(q, 1, f - 1) \o <<x>> \o SubSeq(q, f, Len(q))

LEMMA Inserted ==
    ASSUME NEW T, NEW q \in Seq(T), NEW x \in T, NEW f \in 1 .. Len(q) + 1
    PROVE  /\ PutAt(q, f, x) \in Seq(T) /\ Len(PutAt(q, f, x)) = Len(q) + 1
           /\ \A k \in 1 .. f - 1 : PutAt(q, f, x)[k] = q[k]
           /\ PutAt(q, f, x)[f] = x
           /\ \A k \in f + 1 .. Len(q) + 1 : PutAt(q, f, x)[k] = q[k - 1]
<1>1. PICK u \in Seq(T) : /\ u = SubSeq(q, 1, f - 1) /\ Len(u) = f - 1
                          /\ \A k \in 1 .. f - 1 : u[k] = q[k]
  <2>1. SubSeq(q, 1, f - 1) \in Seq(T) /\ Len(SubSeq(q, 1, f - 1)) = f - 1
    BY Piece
  <2>2. \A k \in 1 .. f - 1 : SubSeq(q, 1, f - 1)[k] = q[k]
    OBVIOUS
  <2> QED BY <2>1, <2>2, Zenon
<1>2. PICK w \in Seq(T) : /\ w = SubSeq(q, f, Len(q)) /\ Len(w) = Len(q) - f + 1
                          /\ \A k \in 1 .. Len(q) - f + 1 : w[k] = q[f + k - 1]
  <2>1. /\ SubSeq(q, f, Len(q)) \in Seq(T)
        /\ Len(SubSeq(q, f, Len(q))) = Len(q) - f + 1
        /\ \A k \in 1 .. Len(q) - f + 1 : SubSeq(q, f, Len(q))[k] = q[f + k - 1]
    BY Piece
  <2> QED BY <2>1, Zenon
<1>3. PICK v \in Seq(T) : v = u \o <<x>> /\ Len(v) = f /\ v[f] = x /\ \A k \in 1 .. f - 1 : v[k] = u[k]
  <2>1. u \o <<x>> = Append(u, x)
    OBVIOUS
  <2>2. /\ Append(u, x) \in Seq(T) /\ Len(Append(u, x)) = f /\ Append(u, x)[f] = x
        /\ \A k \in 1 .. f - 1 : Append(u, x)[k] = u[k]
    BY <1>1
  <2> QED BY <2>1, <2>2, Zenon
<1>4. /\ v \o w \in Seq(T) /\ Len(v \o w) = Len(q) + 1
      /\ \A k \in 1 .. f : (v \o w)[k] = v[k]
      /\ \A k \in 1 .. Len(q) - f + 1 : (v \o w)[f + k] = w[k]
  <2>1. /\ v \o w \in Seq(T) /\ Len(v \o w) = Len(v) + Len(w)
        /\ \A k \in 1 .. Len(v) : (v \o w)[k] = v[k]
        /\ \A k \in 1 .. Len(w) : (v \o w)[Len(v) + k] = w[k]
    BY Concat
  <2>2. Len(v) = f /\ Len(w) = Len(q) - f + 1 /\ Len(v) + Len(w) = Len(q) + 1
    <3>1. Len(v) = f /\ Len(w) = Len(q) - f + 1
      BY <1>2, <1>3, Zenon
    <3>2. f \in Nat /\ Len(q) \in Nat
      OBVIOUS
    <3>3. f + (Len(q) - f + 1) = Len(q) + 1
      BY <3>2
    <3> QED BY <3>1, <3>3, Zenon
  <2> QED BY <2>1, <2>2, Zenon
<1>5. \A k \in 1 .. f - 1 : (v \o w)[k] = q[k]
  BY <1>1, <1>3, <1>4
<1>6. (v \o w)[f] = x
  BY <1>3, <1>4
<1>7. ASSUME NEW k \in f + 1 .. Len(q) + 1 PROVE (v \o w)[k] = q[k - 1]
  <2>1. PICK l \in 1 .. Len(q) - f + 1 : k = f + l
    <3>1. k - f \in 1 .. Len(q) - f + 1 /\ k = f + (k - f)
      OBVIOUS
    <3> QED BY <3>1
  <2>2. f + l - 1 = k - 1
    BY <2>1
  <2> QED BY <1>2, <1>4, <2>1, <2>2
<1>8. PutAt(q, f, x) = v \o w
  BY <1>1, <1>2, <1>3 DEF PutAt
<1> QED BY <1>4, <1>5, <1>6, <1>7, <1>8, Zenon
=============================================================================
