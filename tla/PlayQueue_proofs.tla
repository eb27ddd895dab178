-------------------------- MODULE PlayQueue_proofs --------------------------
(***************************************************************************)
(* Proofs about PlayQueue: what its operators on sequences and orders      *)
(* return; that the queue stays well-formed (QueueInv), that its edits are *)
(* exact, that it goes on from the track loaded (with FolderPlays), and    *)
(* that what is on the card gives it back (with CardInv).                  *)
(***************************************************************************)
EXTENDS PlayQueue, FiniteSetTheorems, SequenceTheorems, WellFoundedInduction, TLAPS

-----------------------------------------------------------------------------
(* The members of a set of places, in order.                                *)

\* S is a set of places in a sequence of length n.
PlacesIn(S, n) == n \in Nat /\ S \subseteq 1..n

LEMMA PlaceIs == ASSUME NEW S, NEW n, PlacesIn(S, n) PROVE n \in Nat /\ \A i \in S : i \in Int /\ i >= 1 /\ i <= n
BY DEF PlacesIn

LEMMA RankType ==
  ASSUME NEW S, NEW n, PlacesIn(S, n)
  PROVE  /\ IsFiniteSet(S) /\ Cardinality(S) \in Nat /\ Cardinality(S) <= n
         /\ \A i \in Int : Rank(S, i) \in Nat /\ Rank(S, i) <= Cardinality(S)
<1>1. n \in Nat /\ S \subseteq 1..n
  BY DEF PlacesIn
<1>2. IsFiniteSet(1..n) /\ Cardinality(1..n) = n
  BY <1>1, FS_Interval
<1>3. IsFiniteSet(S) /\ Cardinality(S) <= n
  BY <1>1, <1>2, FS_Subset, Zenon
<1>4. Cardinality(S) \in Nat
  BY <1>3, FS_CardinalityType, Zenon
<1>5. ASSUME NEW i \in Int PROVE Rank(S, i) \in Nat /\ Rank(S, i) <= Cardinality(S)
  <2> DEFINE A == {j \in S : j <= i}
  <2>1. A \subseteq S
    OBVIOUS
  <2> HIDE DEF A
  <2>2. IsFiniteSet(A) /\ Cardinality(A) <= Cardinality(S)
    BY <1>3, <2>1, FS_Subset, Zenon
  <2>3. Cardinality(A) \in Nat
    BY <2>2, FS_CardinalityType, Zenon
  <2> QED
    BY <2>2, <2>3 DEF Rank, A
<1> QED
  BY <1>3, <1>4, <1>5

\* The rank grows with each member.
LEMMA RankGrows ==
  ASSUME NEW S, NEW n, PlacesIn(S, n), NEW i \in Int, NEW j \in S, i < j
  PROVE  Rank(S, i) < Rank(S, j)
<1> DEFINE A == {k \in S : k <= i}
           B == {k \in S : k <= j}
<1>1. j \in Int /\ \A k \in S : k \in Int
  BY PlaceIs
<1>2. A \subseteq B
  <2> SUFFICES ASSUME NEW k \in A PROVE k \in B
    OBVIOUS
  <2> QED
    BY <1>1
<1>3. j \in B /\ j \notin A /\ B \subseteq S
  BY <1>1
<1>4. IsFiniteSet(S)
  BY RankType
<1> HIDE DEF A, B
<1>5. IsFiniteSet(B)
  BY <1>3, <1>4, FS_Subset, Zenon
<1>6. Cardinality(A) <= Cardinality(B) /\ Cardinality(B) # Cardinality(A)
  BY <1>2, <1>3, <1>5, FS_Subset, Zenon
<1>7. Rank(S, i) = Cardinality(A) /\ Rank(S, j) = Cardinality(B)
  BY DEF Rank, A, B
<1>8. Rank(S, i) \in Nat /\ Rank(S, j) \in Nat
  BY <1>1, RankType
<1> QED
  BY <1>6, <1>7, <1>8

LEMMA RankIsOnto ==
  ASSUME NEW S, NEW n, PlacesIn(S, n)
  PROVE  /\ \A i \in S : Rank(S, i) \in 1..Cardinality(S)
         /\ \A i, j \in S : Rank(S, i) = Rank(S, j) => i = j
         /\ \A k \in 1..Cardinality(S) : \E i \in S : Rank(S, i) = k
<1>1. \A i \in Int : Rank(S, i) \in Nat /\ Rank(S, i) <= Cardinality(S)
  BY RankType
<1>2. IsFiniteSet(S) /\ Cardinality(S) \in Nat
  BY RankType
<1>3. \A i \in S : i \in Int
  BY PlaceIs
<1>4. ASSUME NEW i \in S PROVE Rank(S, i) \in 1..Cardinality(S)
  <2>1. i \in Int /\ i - 1 \in Int /\ i - 1 < i
    BY <1>3
  <2>2. Rank(S, i - 1) < Rank(S, i)
    BY <2>1, RankGrows
  <2>3. Rank(S, i - 1) \in Nat /\ Rank(S, i) \in Nat /\ Rank(S, i) <= Cardinality(S)
    BY <1>1, <2>1
  <2> QED
    BY <1>2, <2>2, <2>3
<1>5. ASSUME NEW i \in S, NEW j \in S, Rank(S, i) = Rank(S, j) PROVE i = j
  <2>1. i \in Int /\ j \in Int /\ Rank(S, i) \in Nat /\ Rank(S, j) \in Nat
    BY <1>1, <1>3
  <2>2. i < j => Rank(S, i) < Rank(S, j)
    BY <2>1, RankGrows
  <2>3. j < i => Rank(S, j) < Rank(S, i)
    BY <2>1, RankGrows
  <2> QED
    BY <1>5, <2>1, <2>2, <2>3
<1> DEFINE c == Cardinality(S)
           f == [i \in S |-> Rank(S, i)]
<1>6. IsFiniteSet(1..c) /\ Cardinality(1..c) = c
  BY <1>2, FS_Interval
<1>7. f \in Injection(S, 1..c)
  BY <1>4, <1>5 DEF Injection, IsInjective
<1>8. f \in Surjection(S, 1..c)
  BY <1>2, <1>6, <1>7, FS_Injection
<1>9. \A k \in 1..c : \E i \in S : Rank(S, i) = k
  BY <1>8 DEF Surjection
<1> QED
  BY <1>4, <1>5, <1>9

\* InOrder(S) and Rank(S, _) undo each other.
LEMMA InOrderIs ==
  ASSUME NEW S, NEW n, PlacesIn(S, n)
  PROVE  /\ \A k \in 1..Cardinality(S) : InOrder(S)[k] \in S /\ Rank(S, InOrder(S)[k]) = k
         /\ \A i \in S : InOrder(S)[Rank(S, i)] = i
<1>1. ASSUME NEW k \in 1..Cardinality(S) PROVE InOrder(S)[k] \in S /\ Rank(S, InOrder(S)[k]) = k
  <2>1. \E i \in S : Rank(S, i) = k
    BY RankIsOnto
  <2>2. InOrder(S)[k] = CHOOSE i \in S : Rank(S, i) = k
    BY DEF InOrder
  <2> QED
    BY <2>1, <2>2
<1>2. ASSUME NEW i \in S PROVE InOrder(S)[Rank(S, i)] = i
  <2>1. Rank(S, i) \in 1..Cardinality(S)
    BY RankIsOnto
  <2>2. InOrder(S)[Rank(S, i)] \in S /\ Rank(S, InOrder(S)[Rank(S, i)]) = Rank(S, i)
    BY <1>1, <2>1
  <2> QED
    BY <2>2, RankIsOnto
<1> QED
  BY <1>1, <1>2

\* It runs upwards.
LEMMA InOrderGrows ==
  ASSUME NEW S, NEW n, PlacesIn(S, n), NEW j \in 1..Cardinality(S), NEW k \in 1..Cardinality(S), j < k
  PROVE  InOrder(S)[j] < InOrder(S)[k]
<1> DEFINE a == InOrder(S)[j]
           b == InOrder(S)[k]
<1>1. a \in S /\ b \in S /\ Rank(S, a) = j /\ Rank(S, b) = k
  BY InOrderIs
<1> HIDE DEF a, b
<1>2. a \in Int /\ b \in Int /\ j \in Int /\ k \in Int
  BY <1>1, PlaceIs, RankType
<1>3. b < a => Rank(S, b) < Rank(S, a)
  BY <1>1, <1>2, RankGrows
<1> QED
  BY <1>1, <1>2, <1>3 DEF a, b

\* Of an unbroken beginning the ranks are the places themselves.
LEMMA RankOfAll ==
  ASSUME NEW S, NEW n, PlacesIn(S, n), NEW i \in Nat, 1..i \subseteq S
  PROVE  Rank(S, i) = i
<1>1. \A k \in S : k \in Int /\ k >= 1
  BY PlaceIs
<1>2. ASSUME NEW k \in S, k <= i PROVE k \in 1..i
  BY <1>1, <1>2
<1>3. ASSUME NEW k \in 1..i PROVE k \in S /\ k <= i
  OBVIOUS
<1>4. {k \in S : k <= i} = 1..i
  BY <1>2, <1>3
<1>5. Cardinality(1..i) = i
  BY FS_Interval
<1> QED
  BY <1>4, <1>5 DEF Rank

LEMMA AtIs ==
  ASSUME NEW T, NEW s \in Seq(T), NEW S, PlacesIn(S, Len(s))
  PROVE  /\ At(s, S) \in Seq(T) /\ Len(At(s, S)) = Cardinality(S)
         /\ \A k \in 1..Cardinality(S) : At(s, S)[k] = s[InOrder(S)[k]]
<1>1. Cardinality(S) \in Nat /\ Len(s) \in Nat
  BY RankType
<1>2. ASSUME NEW k \in 1..Cardinality(S) PROVE s[InOrder(S)[k]] \in T
  <2>1. InOrder(S)[k] \in 1..Len(s)
    BY InOrderIs DEF PlacesIn
  <2> QED
    BY <2>1
<1> DEFINE e(k) == s[InOrder(S)[k]]
<1>3. At(s, S) = [k \in 1..Cardinality(S) |-> e(k)]
  BY DEF At
<1>4. \A k \in 1..Cardinality(S) : e(k) \in T
  BY <1>2
<1> HIDE DEF e
<1>5. /\ At(s, S) \in Seq(T) /\ Len(At(s, S)) = Cardinality(S)
      /\ \A k \in 1..Cardinality(S) : At(s, S)[k] = e(k)
  BY <1>1, <1>3, <1>4
<1> QED
  BY <1>5 DEF e

-----------------------------------------------------------------------------
(* Insertion and removal, place by place.                                   *)

IsInserted(r, T, s, i, t) ==
  /\ r \in Seq(T) /\ Len(r) = Len(s) + 1
  /\ \A k \in 1..(Len(s) + 1) : r[k] = IF k < i THEN s[k] ELSE IF k = i THEN t ELSE s[k - 1]

LEMMA Insertion ==
  ASSUME NEW T, NEW s \in Seq(T), NEW t \in T, NEW i \in 1..(Len(s) + 1)
  PROVE  IsInserted(InsertAt(s, i, t), T, s, i, t)
<1> DEFINE a == SubSeq(s, 1, i - 1)
           b == SubSeq(s, i, Len(s))
           c == a \o <<t>>
<1>1. a \in Seq(T) /\ Len(a) = i - 1 /\ \A k \in 1..(i - 1) : a[k] = s[k]
  OBVIOUS
<1>2. b \in Seq(T) /\ Len(b) = Len(s) - i + 1 /\ \A k \in 1..(Len(s) - i + 1) : b[k] = s[i + k - 1]
  OBVIOUS
<1>3. InsertAt(s, i, t) = c \o b
  BY DEF InsertAt
<1> HIDE DEF a, b
<1>4. c \in Seq(T) /\ Len(c) = i /\ (\A k \in 1..(i - 1) : c[k] = s[k]) /\ c[i] = t
  BY <1>1
<1> HIDE DEF c
<1>5. /\ c \o b \in Seq(T) /\ Len(c \o b) = Len(c) + Len(b)
      /\ \A k \in 1..(Len(c) + Len(b)) : (c \o b)[k] = IF k <= Len(c) THEN c[k] ELSE b[k - Len(c)]
  BY <1>2, <1>4, ConcatProperties
<1> HIDE DEF c
<1>7. Len(c) + Len(b) = Len(s) + 1 /\ Len(s) \in Nat
  BY <1>2, <1>4
<1>6. \A k \in 1..(Len(s) + 1) : (c \o b)[k] = IF k <= i THEN c[k] ELSE b[k - i]
  BY <1>4, <1>5, <1>7
<1> DEFINE r == c \o b
<1> HIDE DEF r
<1>8. /\ r \in Seq(T) /\ Len(r) = Len(s) + 1
      /\ \A k \in 1..(Len(s) + 1) : r[k] = IF k < i THEN s[k] ELSE IF k = i THEN t ELSE s[k - 1]
  BY <1>2, <1>4, <1>5, <1>6, <1>7 DEF r
<1>9. IsInserted(r, T, s, i, t)
  BY <1>8, Zenon DEF IsInserted
<1> QED
  BY <1>3, <1>9 DEF r

LEMMA InsertAtIs ==
  ASSUME NEW T, NEW s \in Seq(T), NEW t \in T, NEW i \in 1..(Len(s) + 1)
  PROVE  /\ InsertAt(s, i, t) \in Seq(T) /\ Len(InsertAt(s, i, t)) = Len(s) + 1
         /\ \A k \in 1..(Len(s) + 1) :
              InsertAt(s, i, t)[k] = IF k < i THEN s[k] ELSE IF k = i THEN t ELSE s[k - 1]
<1>1. IsInserted(InsertAt(s, i, t), T, s, i, t)
  BY Insertion, Zenon
<1> QED
  BY <1>1, Zenon DEF IsInserted

LEMMA RemoveAtIs ==
  ASSUME NEW T, NEW s \in Seq(T), NEW i \in 1..Len(s)
  PROVE  /\ RemoveAt(s, i) \in Seq(T) /\ Len(RemoveAt(s, i)) = Len(s) - 1
         /\ \A k \in 1..(Len(s) - 1) : RemoveAt(s, i)[k] = IF k < i THEN s[k] ELSE s[k + 1]
<1> DEFINE a == SubSeq(s, 1, i - 1)
           b == SubSeq(s, i + 1, Len(s))
<1>1. a \in Seq(T) /\ Len(a) = i - 1 /\ \A k \in 1..(i - 1) : a[k] = s[k]
  OBVIOUS
<1>2. b \in Seq(T) /\ Len(b) = Len(s) - i /\ \A k \in 1..(Len(s) - i) : b[k] = s[i + k]
  OBVIOUS
<1>3. RemoveAt(s, i) = a \o b
  BY DEF RemoveAt
<1> HIDE DEF a, b
<1>4. /\ a \o b \in Seq(T) /\ Len(a \o b) = Len(a) + Len(b)
      /\ \A k \in 1..(Len(a) + Len(b)) : (a \o b)[k] = IF k <= Len(a) THEN a[k] ELSE b[k - Len(a)]
  BY <1>1, <1>2, ConcatProperties
<1>5. Len(a) + Len(b) = Len(s) - 1 /\ Len(s) \in Nat
  BY <1>1, <1>2
<1> QED
  BY <1>1, <1>2, <1>3, <1>4, <1>5

\* A move: out of one place and into another.
LEMMA DraggedIs ==
  ASSUME NEW T, NEW s \in Seq(T), NEW from \in 1..Len(s), NEW to \in 1..Len(s)
  PROVE  LET moved == InsertAt(RemoveAt(s, from), to, s[from])
         IN  /\ moved \in Seq(T) /\ Len(moved) = Len(s)
             /\ \A k \in 1..Len(s) : moved[MovedTo(k, from, to)] = s[k]
<1> DEFINE r == RemoveAt(s, from)
<1>1. r \in Seq(T) /\ Len(r) = Len(s) - 1
      /\ \A k \in 1..(Len(s) - 1) : r[k] = IF k < from THEN s[k] ELSE s[k + 1]
  BY RemoveAtIs
<1> HIDE DEF r
<1> DEFINE e == s[from]
           m == InsertAt(r, to, e)
<1>2. e \in T /\ to \in 1..(Len(r) + 1)
  BY <1>1
<1> HIDE DEF e
<1>3. /\ m \in Seq(T) /\ Len(m) = Len(r) + 1
      /\ \A k \in 1..(Len(r) + 1) : m[k] = IF k < to THEN r[k] ELSE IF k = to THEN e ELSE r[k - 1]
  BY <1>1, <1>2, InsertAtIs
<1> HIDE DEF m
<1>4. ASSUME NEW k \in 1..Len(s) PROVE m[MovedTo(k, from, to)] = s[k]
  <2>1. Len(s) \in Nat /\ Len(r) + 1 = Len(s)
    BY <1>1
  <2>2. CASE k = from
    BY <1>3, <2>1, <2>2 DEF MovedTo, e
  <2>3. CASE from < k /\ k <= to
    BY <1>1, <1>3, <2>1, <2>3 DEF MovedTo
  <2>4. CASE to <= k /\ k < from
    <3>1. MovedTo(k, from, to) = k + 1
      BY <2>1, <2>4 DEF MovedTo
    <3>2. k + 1 \in 1..(Len(r) + 1) /\ ~(k + 1 < to) /\ k + 1 # to /\ (k + 1) - 1 = k
      BY <2>1, <2>4
    <3>3. m[k + 1] = r[k]
      BY <1>3, <3>2
    <3>4. r[k] = s[k]
      BY <1>1, <2>1, <2>4
    <3> QED
      BY <3>1, <3>3, <3>4
  <2>5. CASE k # from /\ ~(from < k /\ k <= to) /\ ~(to <= k /\ k < from)
    BY <1>1, <1>3, <2>1, <2>5 DEF MovedTo
  <2> QED
    BY <2>2, <2>3, <2>4, <2>5
<1>5. m \in Seq(T) /\ Len(m) = Len(s)
  BY <1>1, <1>3
<1>6. m = InsertAt(RemoveAt(s, from), to, s[from])
  BY DEF m, e, r
<1> QED
  BY <1>4, <1>5, <1>6

\* Where positions go in a move is a permutation of them.
MovesPlaces(n, from, to) ==
  /\ \A k \in 1..n : MovedTo(k, from, to) \in 1..n
  /\ \A k \in 1..n : \E j \in 1..n : MovedTo(j, from, to) = k
  /\ \A j, k \in 1..n : MovedTo(j, from, to) = MovedTo(k, from, to) => j = k

LEMMA MovedToIs ==
  ASSUME NEW n \in Nat, NEW from \in 1..n, NEW to \in 1..n
  PROVE  MovesPlaces(n, from, to)
<1>1. \A k \in 1..n : MovedTo(k, from, to) \in 1..n
  BY DEF MovedTo
<1>2. \A j, k \in 1..n : MovedTo(j, from, to) = MovedTo(k, from, to) => j = k
  BY DEF MovedTo
<1>3. ASSUME NEW k \in 1..n PROVE \E j \in 1..n : MovedTo(j, from, to) = k
  <2>1. MovedTo(MovedTo(k, to, from), from, to) = k
    BY DEF MovedTo
  <2>2. MovedTo(k, to, from) \in 1..n
    BY DEF MovedTo
  <2> QED
    BY <2>1, <2>2
<1> QED
  BY <1>1, <1>2, <1>3 DEF MovesPlaces

\* The first place at which a track is.
LEMMA IndexInIs ==
  ASSUME NEW T, NEW s \in Seq(T), NEW t \in ToSet(s)
  PROVE  /\ IndexIn(s, t) \in 1..Len(s) /\ s[IndexIn(s, t)] = t
         /\ \A j \in 1..Len(s) : s[j] = t => IndexIn(s, t) <= j
<1> DEFINE at == {i \in 1..Len(s) : s[i] = t}
<1>1. at # {} /\ PlacesIn(at, Len(s))
  BY DEF ToSet, PlacesIn
<1>2. \E i \in at : \A j \in at : i <= j
  <2> HIDE DEF at
  <2>1. Cardinality(at) \in Nat /\ Cardinality(at) # 0
    BY <1>1, RankType, FS_EmptySet
  <2>2. 1 \in 1..Cardinality(at)
    BY <2>1
  <2>3. PICK i \in at : Rank(at, i) = 1
    BY <1>1, <2>2, RankIsOnto
  <2>4. ASSUME NEW j \in at PROVE i <= j
    <3>1. i \in Int /\ j \in Int /\ Rank(at, j) >= 1 /\ Rank(at, j) \in Int
      BY <1>1, <2>1, PlaceIs, RankIsOnto
    <3>2. j < i => Rank(at, j) < Rank(at, i)
      BY <1>1, <3>1, RankGrows
    <3> QED
      BY <2>3, <3>1, <3>2
  <2> QED
    BY <2>4
<1>3. IndexIn(s, t) = CHOOSE i \in DOMAIN s : s[i] = t /\ \A j \in DOMAIN s : s[j] = t => i <= j
  BY DEF IndexIn
<1>4. \E i \in DOMAIN s : s[i] = t /\ \A j \in DOMAIN s : s[j] = t => i <= j
  BY <1>2
<1> QED
  BY <1>3, <1>4

\* An order has every entry once.
LEMMA OrderIs ==
  ASSUME NEW n \in Nat, NEW o \in Orders(n)
  PROVE  /\ o \in Seq(1..n) /\ Len(o) = n
         /\ \A i, j \in 1..n : o[i] = o[j] => i = j
         /\ \A e \in 1..n : \E i \in 1..n : o[i] = e
<1>1. o \in [1..n -> 1..n] /\ \A e \in 1..n : \E i \in 1..n : o[i] = e
  BY DEF Orders
<1>2. o \in Surjection(1..n, 1..n)
  BY <1>1 DEF Surjection
<1>3. o \in Injection(1..n, 1..n)
  BY <1>2, FS_Interval, FS_Surjection
<1> QED
  BY <1>1, <1>3 DEF Injection, IsInjective

-----------------------------------------------------------------------------
(* A queue is well-formed.                                                  *)

QueueRecord ==
  [rows : Seq(Tracks), stale : BOOLEAN, added : Seq(Tracks), order : Seq(Nat), pos : Nat,
   custom : BOOLEAN, ordered : BOOLEAN, chain : [from : Nat, slot : Nat], revised : BOOLEAN]

\* What it is made of fits together; and its order is one of these entries.
Shape(q) ==
  /\ q \in QueueRecord
  /\ q.ordered \/ q.rows # <<>> => q.custom
  /\ q.stale => q.rows # <<>>

Fit(q) ==
  /\ Shape(q)
  /\ q.order \in Orders(Count(q))
  /\ q.pos \in 1..Count(q) \/ (Count(q) = 0 /\ q.pos = 1)

\* r has the entries of q.
Same(q, r) ==
  /\ r.rows = q.rows /\ r.stale = q.stale /\ r.added = q.added
  /\ r.custom = q.custom /\ r.ordered = q.ordered

LEMMA RecordIs ==
  ASSUME NEW q \in QueueRecord
  PROVE  /\ q.rows \in Seq(Tracks) /\ q.added \in Seq(Tracks) /\ q.order \in Seq(Nat) /\ q.pos \in Nat
         /\ q.stale \in BOOLEAN /\ q.custom \in BOOLEAN /\ q.ordered \in BOOLEAN /\ q.revised \in BOOLEAN
         /\ q.chain \in [from : Nat, slot : Nat]
<1>1. q.rows \in Seq(Tracks) /\ q.added \in Seq(Tracks) /\ q.order \in Seq(Nat) /\ q.pos \in Nat
  BY DEF QueueRecord
<1>2. q.stale \in BOOLEAN /\ q.custom \in BOOLEAN /\ q.ordered \in BOOLEAN /\ q.revised \in BOOLEAN
  BY DEF QueueRecord
<1>3. q.chain \in [from : Nat, slot : Nat]
  BY DEF QueueRecord
<1> QED
  BY <1>1, <1>2, <1>3

\* Only the place is another.
Placed(q, i) == [q EXCEPT !.pos = i]

LEMMA ReorderedIs ==
  ASSUME NEW q \in QueueRecord, NEW o \in Seq(Nat), NEW i \in Nat
  PROVE  /\ Reordered(q, o, i) \in QueueRecord /\ Same(q, Reordered(q, o, i)) /\ Reordered(q, o, i).revised
         /\ Reordered(q, o, i).order = o /\ Reordered(q, o, i).pos = i /\ Reordered(q, o, i).chain = q.chain
<1> DEFINE r == [q EXCEPT !.order = o, !.pos = i, !.revised = TRUE]
<1>1. r \in QueueRecord
  BY DEF QueueRecord
<1>2. r.rows = q.rows /\ r.added = q.added
  BY DEF QueueRecord
<1>3. r.stale = q.stale
  BY DEF QueueRecord
<1>4. r.revised
  BY DEF QueueRecord
<1>5. r.pos = i /\ r.order = o
  BY DEF QueueRecord
<1>6. r.custom = q.custom /\ r.ordered = q.ordered /\ r.chain = q.chain
  BY DEF QueueRecord
<1>7. Reordered(q, o, i) = r
  BY DEF Reordered
<1> HIDE DEF r
<1> QED
  BY <1>1, <1>2, <1>3, <1>4, <1>5, <1>6, <1>7 DEF Same

LEMMA PlacedIs ==
  ASSUME NEW q \in QueueRecord, NEW i \in Nat
  PROVE  /\ Placed(q, i) \in QueueRecord /\ Same(q, Placed(q, i)) /\ Placed(q, i).revised = q.revised
         /\ Placed(q, i).order = q.order /\ Placed(q, i).pos = i /\ Placed(q, i).chain = q.chain
<1> DEFINE r == [q EXCEPT !.pos = i]
<1>1. r \in QueueRecord
  BY DEF QueueRecord
<1>2. r.rows = q.rows /\ r.added = q.added
  BY DEF QueueRecord
<1>3. r.stale = q.stale
  BY DEF QueueRecord
<1>4. r.revised = q.revised
  BY DEF QueueRecord
<1>5. r.pos = i /\ r.order = q.order
  BY DEF QueueRecord
<1>6. r.custom = q.custom /\ r.ordered = q.ordered /\ r.chain = q.chain
  BY DEF QueueRecord
<1>7. Placed(q, i) = r
  BY DEF Placed
<1> HIDE DEF r
<1> QED
  BY <1>1, <1>2, <1>3, <1>4, <1>5, <1>6, <1>7 DEF Same

LEMMA SameShape ==
  ASSUME NEW q, NEW r, Shape(q), r \in QueueRecord, Same(q, r)
  PROVE  Shape(r) /\ Count(r) = Count(q) /\ Paths(r) = Paths(q)
BY DEF Shape, Same, Count, Paths

LEMMA ShapeIs ==
  ASSUME NEW q, Shape(q)
  PROVE  /\ Count(q) \in Nat /\ Paths(q) \in Seq(Tracks) /\ Len(Paths(q)) = Count(q)
         /\ Len(q.rows) \in Nat /\ Len(q.added) \in Nat /\ Count(q) = Len(q.rows) + Len(q.added)
         /\ \A e \in 1..Count(q) : Paths(q)[e] = IF e <= Len(q.rows) THEN q.rows[e] ELSE q.added[e - Len(q.rows)]
<1>1. q.rows \in Seq(Tracks) /\ q.added \in Seq(Tracks)
  BY RecordIs DEF Shape
<1> DEFINE a == q.rows
           b == q.added
<1>2. a \in Seq(Tracks) /\ b \in Seq(Tracks) /\ Count(q) = Len(a) + Len(b) /\ Paths(q) = a \o b
  BY <1>1 DEF Count, Paths
<1> HIDE DEF a, b
<1>3. Len(a) \in Nat /\ Len(b) \in Nat
  BY <1>2
<1>4. /\ a \o b \in Seq(Tracks) /\ Len(a \o b) = Len(a) + Len(b)
      /\ \A e \in 1..(Len(a) + Len(b)) : (a \o b)[e] = IF e <= Len(a) THEN a[e] ELSE b[e - Len(a)]
  BY <1>2, ConcatProperties
<1>5. /\ Count(q) \in Nat /\ Paths(q) \in Seq(Tracks) /\ Len(Paths(q)) = Count(q)
      /\ Len(a) \in Nat /\ Len(b) \in Nat /\ Count(q) = Len(a) + Len(b)
      /\ \A e \in 1..Count(q) : Paths(q)[e] = IF e <= Len(a) THEN a[e] ELSE b[e - Len(a)]
  BY <1>2, <1>3, <1>4
<1> QED
  BY <1>5 DEF a, b

LEMMA FitIs ==
  ASSUME NEW q, Fit(q)
  PROVE  /\ q.order \in Seq(1..Count(q)) /\ Len(q.order) = Count(q)
         /\ \A i, j \in 1..Count(q) : q.order[i] = q.order[j] => i = j
         /\ \A e \in 1..Count(q) : \E i \in 1..Count(q) : q.order[i] = e
         /\ \A i \in 1..Count(q) : q.order[i] \in 1..Count(q)
         /\ View(q) \in Seq(Tracks) /\ Len(View(q)) = Count(q)
         /\ \A i \in 1..Count(q) : View(q)[i] = Paths(q)[q.order[i]] /\ View(q)[i] \in Tracks
<1>1. Count(q) \in Nat /\ q.order \in Orders(Count(q)) /\ Shape(q)
  BY ShapeIs DEF Fit
<1>2. /\ q.order \in Seq(1..Count(q)) /\ Len(q.order) = Count(q)
      /\ \A i, j \in 1..Count(q) : q.order[i] = q.order[j] => i = j
      /\ \A e \in 1..Count(q) : \E i \in 1..Count(q) : q.order[i] = e
  BY <1>1, OrderIs
<1>3. ASSUME NEW i \in 1..Count(q) PROVE q.order[i] \in 1..Count(q)
  BY <1>2, ElementOfSeq
<1>4. Paths(q) \in Seq(Tracks) /\ Len(Paths(q)) = Count(q)
  BY <1>1, ShapeIs
<1>5. \A i \in 1..Count(q) : Paths(q)[q.order[i]] \in Tracks
  BY <1>3, <1>4
<1>6. View(q) = [i \in 1..Count(q) |-> Paths(q)[q.order[i]]]
  BY <1>4 DEF View
<1> QED
  BY <1>1, <1>2, <1>3, <1>5, <1>6

\* Playback is on an entry, if there is one.
LEMMA FitPlace ==
  ASSUME NEW q, Fit(q), Count(q) # 0
  PROVE  /\ Count(q) > 0 /\ q.pos \in 1..Count(q)
         /\ Current(q) = View(q)[q.pos] /\ Current(q) \in Tracks
<1>1. q.pos \in 1..Count(q) /\ Count(q) \in Nat
  BY ShapeIs DEF Fit
<1>2. Count(q) > 0
  BY <1>1
<1>3. View(q)[q.pos] = Paths(q)[q.order[q.pos]] /\ View(q)[q.pos] \in Tracks
  BY <1>1, FitIs
<1> QED
  BY <1>1, <1>2, <1>3, Zenon DEF Current

LEMMA RowsAreCustom == ASSUME NEW q, Fit(q), q.rows # <<>> PROVE q.custom /\ Count(q) # 0
<1>1. q.custom
  BY Zenon DEF Fit, Shape
<1>2. q.rows \in Seq(Tracks)
  BY RecordIs DEF Fit, Shape
<1>3. Len(q.rows) # 0
  BY <1>2
<1>4. Count(q) = Len(q.rows) + Len(q.added) /\ Len(q.rows) \in Nat /\ Len(q.added) \in Nat
  BY ShapeIs DEF Fit
<1>5. Count(q) # 0
  <2> DEFINE a == Len(q.rows)
             b == Len(q.added)
             n == Count(q)
  <2>1. a # 0 /\ n = a + b /\ a \in Nat /\ b \in Nat
    BY <1>3, <1>4
  <2> HIDE DEF a, b, n
  <2>2. n # 0
    BY <2>1
  <2> QED
    BY <2>2 DEF n
<1> QED
  BY <1>1, <1>5

LEMMA ClearIs == Fit(playlist_clear) /\ Shape(playlist_clear) /\ Count(playlist_clear) = 0
<1>1. playlist_clear \in QueueRecord
  BY DEF playlist_clear, Fresh, QueueRecord, NoChain
<1>2. Count(playlist_clear) = 0
  BY DEF playlist_clear, Fresh, Count
<1>3. <<>> \in Orders(0)
  BY DEF Orders
<1> QED
  BY <1>1, <1>2, <1>3 DEF Fit, Shape, playlist_clear, Fresh

\* Any other place will do.
LEMMA PlacedFits ==
  ASSUME NEW q, Fit(q), NEW i \in 1..Count(q)
  PROVE  /\ Fit(Placed(q, i)) /\ Same(q, Placed(q, i)) /\ Placed(q, i).order = q.order /\ Placed(q, i).pos = i
         /\ Placed(q, i).chain = q.chain /\ View(Placed(q, i)) = View(q) /\ Placed(q, i).revised = q.revised
<1> DEFINE r == Placed(q, i)
<1>1. q \in QueueRecord /\ Shape(q) /\ Count(q) \in Nat
  BY ShapeIs DEF Fit, Shape
<1>2. r \in QueueRecord /\ Same(q, r) /\ r.order = q.order /\ r.pos = i /\ r.revised = q.revised /\ r.chain = q.chain
  BY <1>1, PlacedIs
<1> HIDE DEF r
<1>3. Shape(r) /\ Count(r) = Count(q) /\ Paths(r) = Paths(q)
  BY <1>1, <1>2, SameShape
<1>4. Fit(r) /\ View(r) = View(q)
  BY <1>2, <1>3 DEF Fit, View
<1> QED
  BY <1>2, <1>4 DEF r

\* Whatever the order it is dealt.
LEMMA DealtFits ==
  ASSUME NEW q, Shape(q), NEW o \in Orders(Count(q)), NEW i, i \in 1..Count(q) \/ (Count(q) = 0 /\ i = 1)
  PROVE  /\ Fit(Reordered(q, o, i)) /\ Same(q, Reordered(q, o, i)) /\ Reordered(q, o, i).revised
         /\ Reordered(q, o, i).order = o /\ Reordered(q, o, i).pos = i /\ Reordered(q, o, i).chain = q.chain
<1> DEFINE r == Reordered(q, o, i)
<1>5. q \in QueueRecord /\ Count(q) \in Nat
  BY ShapeIs DEF Shape
<1>1. q \in QueueRecord /\ Count(q) \in Nat /\ i \in Nat
  BY <1>5
<1>6. o \in Seq(1..Count(q))
  BY <1>1, OrderIs
<1>2. o \in Seq(Nat)
  BY <1>1, <1>6
<1>3. r \in QueueRecord /\ Same(q, r) /\ r.order = o /\ r.pos = i /\ r.revised /\ r.chain = q.chain
  BY <1>1, <1>2, ReorderedIs
<1> HIDE DEF r
<1>4. Shape(r) /\ Count(r) = Count(q)
  BY <1>3, SameShape
<1>7. Fit(r)
  BY <1>3, <1>4 DEF Fit
<1> QED
  BY <1>3, <1>7 DEF r

\* The order of the entries themselves.
LEMMA IdentityIs ==
  ASSUME NEW q, Shape(q), NEW start \in Nat \ {0}, NEW r, r = order_identity(q, start)
  PROVE  /\ Fit(r) /\ Same(q, r) /\ r.revised /\ View(r) = Paths(q) /\ r.chain = q.chain
         /\ \A i \in 1..Count(q) : r.order[i] = i
         /\ r.pos = IF start <= Count(q) THEN start ELSE 1
<1> DEFINE o == [i \in 1..Count(q) |-> i]
           p == IF start <= Count(q) THEN start ELSE 1
<1>1. Count(q) \in Nat /\ Paths(q) \in Seq(Tracks) /\ Len(Paths(q)) = Count(q)
  BY ShapeIs
<1>2. o \in Orders(Count(q)) /\ \A i \in 1..Count(q) : o[i] = i
  BY DEF Orders
<1>3. p \in 1..Count(q) \/ (Count(q) = 0 /\ p = 1)
  BY <1>1
<1>4. r = Reordered(q, o, p)
  BY DEF order_identity
<1> HIDE DEF p, o
<1>5. Fit(r) /\ Same(q, r) /\ r.order = o /\ r.pos = p /\ r.revised /\ r.chain = q.chain
  BY <1>2, <1>3, <1>4, DealtFits
<1>6. Count(r) = Count(q) /\ Paths(r) = Paths(q)
  BY <1>5 DEF Same, Count, Paths
<1>7. View(r) = Paths(q)
  <2>1. View(r) = [i \in 1..Count(q) |-> Paths(q)[i]]
    BY <1>1, <1>2, <1>5, <1>6 DEF View
  <2> QED
    BY <1>1, <2>1
<1> QED
  BY <1>2, <1>5, <1>7 DEF p

LEMMA ShuffledFits ==
  ASSUME NEW q, Shape(q), NEW start
  PROVE  /\ \A r \in order_shuffle_from(q, start) : Fit(r) /\ Same(q, r) /\ r.revised
         /\ \A r \in order_shuffle_round(q) : Fit(r) /\ Same(q, r) /\ r.revised
<1>1. Count(q) \in Nat
  BY ShapeIs
<1>2. ASSUME NEW o \in Orders(Count(q)), NEW r, r = Reordered(q, o, 1)
      PROVE  Fit(r) /\ Same(q, r) /\ r.revised
  <2>1. 1 \in 1..Count(q) \/ Count(q) = 0
    BY <1>1
  <2>2. 1 \in 1..Count(q) \/ (Count(q) = 0 /\ 1 = 1)
    BY <2>1
  <2> QED
    BY <1>2, <2>2, DealtFits
<1> QED
  BY <1>2 DEF order_shuffle_from, order_shuffle_round

LEMMA StartedFits ==
  ASSUME NEW q, Shape(q), NEW start \in Nat \ {0}, NEW r \in Started(q, start)
  PROVE  /\ Fit(r) /\ Same(q, r) /\ r.revised
         /\ ~shuffling(q) => r = order_identity(q, start)
<1>1. CASE shuffling(q)
  BY <1>1, ShuffledFits DEF Started
<1>2. CASE ~shuffling(q)
  <2>1. r = order_identity(q, start)
    BY <1>2 DEF Started
  <2> QED
    BY <2>1, IdentityIs
<1> QED
  BY <1>1, <1>2

LEMMA UpcomingFits ==
  ASSUME NEW q, Fit(q), NEW r \in order_shuffle_upcoming(q)
  PROVE  /\ Fit(r) /\ Same(q, r)
         /\ r.pos = q.pos /\ (Count(q) # 0 => Current(r) = Current(q))
         /\ r = q \/ r.revised
<1>1. q \in QueueRecord /\ Shape(q) /\ Count(q) \in Nat
  BY ShapeIs DEF Fit, Shape
<1>2. CASE r = q
  BY <1>2 DEF Fit, Same
<1>3. CASE r # q
  <2> DEFINE p == q.pos
  <2>1. PICK o \in Orders(Count(q)) : /\ r = Reordered(q, o, p)
                                      /\ \A i \in 1..p : o[i] = q.order[i]
    BY <1>3 DEF order_shuffle_upcoming
  <2>3. p \in 1..Count(q) \/ (Count(q) = 0 /\ p = 1)
    BY DEF Fit
  <2>6. Count(q) # 0 => o[p] = q.order[p]
    BY <1>1, <2>1, <2>3
  <2> HIDE DEF p
  <2>4. Fit(r) /\ Same(q, r) /\ r.order = o /\ r.pos = p /\ r.revised
    BY <1>1, <2>1, <2>3, DealtFits
  <2>5. Paths(r) = Paths(q)
    BY <2>4 DEF Same, Paths
  <2> QED
    BY <2>4, <2>5, <2>6 DEF Current, p
<1> QED
  BY <1>2, <1>3

-----------------------------------------------------------------------------
(* Loads.                                                                   *)

\* A queue of these rows and paths, before it has an order.
Made(q, rows, added, custom, ordered) ==
  /\ Shape(q) /\ Count(q) = Len(rows) + Len(added) /\ Paths(q) = rows \o added /\ ~q.stale /\ q.revised
  /\ q.rows = rows /\ q.added = added /\ q.custom = custom /\ q.ordered = ordered

LEMMA FreshIs ==
  ASSUME NEW rows \in Seq(Tracks), NEW added \in Seq(Tracks), NEW custom \in BOOLEAN, NEW ordered \in BOOLEAN,
         ordered \/ rows # <<>> => custom
  PROVE  Made(Fresh(rows, added, custom, ordered), rows, added, custom, ordered)
<1> DEFINE q == Fresh(rows, added, custom, ordered)
<1>1. NoChain \in [from : Nat, slot : Nat]
  BY DEF NoChain
<1>2. <<>> \in Seq(Nat) /\ 1 \in Nat
  OBVIOUS
<1> DEFINE e == <<>>
           n == 1
<1> HIDE DEF e, n
<1>3. [rows |-> rows, stale |-> FALSE, added |-> added, order |-> e, pos |-> n,
       custom |-> custom, ordered |-> ordered, chain |-> NoChain, revised |-> TRUE] \in QueueRecord
  BY <1>1, <1>2 DEF QueueRecord, e, n
<1>4. q.rows = rows /\ q.added = added
  BY DEF Fresh
<1>5. q.stale = FALSE /\ q.revised = TRUE
  BY Zenon DEF Fresh
<1>6. q.custom = custom
  BY Zenon DEF Fresh
<1>7. q.ordered = ordered
  BY Zenon DEF Fresh
<1>8. q \in QueueRecord
  BY <1>3 DEF e, n, Fresh
<1> HIDE DEF q
<1>9. Shape(q)
  BY <1>4, <1>5, <1>6, <1>7, <1>8, Zenon DEF Shape
<1>10. Made(q, rows, added, custom, ordered)
  BY <1>4, <1>5, <1>6, <1>7, <1>9, Zenon DEF Count, Paths, Made
<1> QED
  BY <1>10 DEF q

\* A queue of paths; and the rows of a library list.
LEMMA FreshPaths ==
  ASSUME NEW list \in Seq(Tracks), NEW custom \in BOOLEAN, NEW ordered \in BOOLEAN, ordered => custom
  PROVE  LET q == Fresh(<<>>, list, custom, ordered)
         IN  /\ Shape(q) /\ Count(q) = Len(list) /\ Paths(q) = list /\ ~q.stale
             /\ q.rows = <<>> /\ q.custom = custom /\ q.ordered = ordered
<1> DEFINE q == Fresh(<<>>, list, custom, ordered)
<1>1. <<>> \in Seq(Tracks) /\ <<>> \o list = list
  BY ConcatEmptySeq
<1>2. Len(<<>>) + Len(list) = Len(list)
  OBVIOUS
<1>3. ordered \/ <<>> # <<>> => custom
  OBVIOUS
<1>4. Made(q, <<>>, list, custom, ordered)
  BY <1>1, <1>3, FreshIs, Zenon
<1> HIDE DEF q
<1>5. /\ Shape(q) /\ Count(q) = Len(list) /\ Paths(q) = list /\ ~q.stale
      /\ q.rows = <<>> /\ q.custom = custom /\ q.ordered = ordered
  BY <1>1, <1>2, <1>4, Zenon DEF Made
<1> QED
  BY <1>5, Zenon DEF q

LEMMA FreshRows ==
  ASSUME NEW rows \in Seq(Tracks)
  PROVE  LET q == Fresh(rows, <<>>, TRUE, FALSE)
         IN  /\ Shape(q) /\ Count(q) = Len(rows) /\ Paths(q) = rows /\ ~q.stale
             /\ q.rows = rows /\ q.custom /\ ~q.ordered
<1> DEFINE q == Fresh(rows, <<>>, TRUE, FALSE)
<1>1. <<>> \in Seq(Tracks) /\ rows \o <<>> = rows
  BY ConcatEmptySeq
<1>2. Len(rows) + Len(<<>>) = Len(rows)
  OBVIOUS
<1>3. FALSE \/ rows # <<>> => TRUE
  OBVIOUS
<1>4. Made(q, rows, <<>>, TRUE, FALSE)
  BY <1>1, <1>3, FreshIs, Zenon
<1> HIDE DEF q
<1>5. /\ Shape(q) /\ Count(q) = Len(rows) /\ Paths(q) = rows /\ ~q.stale
      /\ q.rows = rows /\ q.custom /\ ~q.ordered
  BY <1>1, <1>2, <1>4, Zenon DEF Made
<1> QED
  BY <1>5, Zenon DEF q

LEMMA SameIs ==
  ASSUME NEW q, NEW r, Same(q, r)
  PROVE  /\ r.rows = q.rows /\ r.stale = q.stale /\ r.added = q.added /\ r.custom = q.custom /\ r.ordered = q.ordered
         /\ Count(r) = Count(q) /\ Paths(r) = Paths(q) /\ shuffling(r) = shuffling(q)
BY DEF Same, Count, Paths, shuffling

\* What a load leaves: the list, at its start, unless it is dealt.
Loaded(r, list, start) ==
  /\ Fit(r) /\ Count(r) = Len(list) /\ Paths(r) = list /\ r.revised /\ ~r.stale
  /\ r.ordered \/ ~Shuffled(mode) => View(r) = list /\ r.pos = IF start <= Len(list) THEN start ELSE 1

LEMMA StartedLoads ==
  ASSUME NEW q, Shape(q), ~q.stale, NEW start \in Nat \ {0}, NEW r \in Started(q, start)
  PROVE  Loaded(r, Paths(q), start) /\ r.rows = q.rows /\ r.custom = q.custom /\ r.ordered = q.ordered
<1>1. Fit(r) /\ Same(q, r) /\ r.revised
  BY StartedFits
<1>2. /\ r.rows = q.rows /\ r.stale = q.stale /\ r.custom = q.custom /\ r.ordered = q.ordered
      /\ Count(r) = Count(q) /\ Paths(r) = Paths(q)
  BY <1>1, SameIs
<1>3. Count(q) = Len(Paths(q))
  BY ShapeIs
<1>4. ASSUME r.ordered \/ ~Shuffled(mode) PROVE View(r) = Paths(q) /\ r.pos = IF start <= Count(q) THEN start ELSE 1
  <2>1. ~shuffling(q)
    BY <1>2, <1>4, Zenon DEF shuffling
  <2>2. r = order_identity(q, start)
    BY <2>1, StartedFits
  <2> QED
    BY <2>2, IdentityIs, Zenon
<1> QED
  BY <1>1, <1>2, <1>3, <1>4 DEF Loaded

LEMMA LoadFolder ==
  ASSUME NEW folder \in Seq(Tracks), NEW start \in Nat \ {0}, NEW r \in playlist_load_folder(folder, start)
  PROVE  Loaded(r, folder, start) /\ r.rows = <<>> /\ ~r.custom /\ ~r.ordered
<1> DEFINE q == Fresh(<<>>, folder, FALSE, FALSE)
<1>1. Shape(q) /\ Paths(q) = folder /\ ~q.stale /\ q.rows = <<>> /\ ~q.custom /\ ~q.ordered
  BY FreshPaths, Zenon
<1>2. r \in Started(q, start)
  BY DEF playlist_load_folder
<1> HIDE DEF q
<1>3. Loaded(r, Paths(q), start) /\ r.rows = q.rows /\ r.custom = q.custom /\ r.ordered = q.ordered
  BY <1>1, <1>2, StartedLoads
<1> QED
  BY <1>1, <1>3, Zenon

LEMMA InRangeIs ==
  ASSUME NEW q, Shape(q), NEW start \in Nat \ {0}
  PROVE  InRange(q, start) = (IF start <= Count(q) THEN start ELSE 1) /\ InRange(q, start) \in Nat \ {0}
BY ShapeIs DEF InRange

LEMMA LoadPaths ==
  ASSUME NEW list \in Seq(Tracks), NEW start \in Nat \ {0}, NEW r \in playlist_load_paths(list, start)
  PROVE  Loaded(r, list, start) /\ r.rows = <<>> /\ r.custom /\ ~r.ordered
<1> DEFINE q == Fresh(<<>>, list, TRUE, FALSE)
           first == InRange(q, start)
<1>1. Shape(q) /\ Count(q) = Len(list) /\ Paths(q) = list /\ ~q.stale /\ q.rows = <<>> /\ q.custom /\ ~q.ordered
  BY FreshPaths, Zenon
<1>2. r \in Started(q, first)
  BY DEF playlist_load_paths
<1>3. first = (IF start <= Count(q) THEN start ELSE 1) /\ first \in Nat \ {0}
  <2> HIDE DEF q
  <2> QED
    BY <1>1, InRangeIs
<1> HIDE DEF q, first
<1>4. Loaded(r, Paths(q), first) /\ r.rows = q.rows /\ r.custom = q.custom /\ r.ordered = q.ordered
  BY <1>1, <1>2, <1>3, StartedLoads
<1>5. Loaded(r, list, start)
  BY <1>1, <1>3, <1>4 DEF Loaded
<1> QED
  BY <1>1, <1>4, <1>5, Zenon

LEMMA LoadPathsOrdered ==
  ASSUME NEW list \in Seq(Tracks), NEW start \in Nat \ {0}
  PROVE  LET r == playlist_load_paths_ordered(list, start)
         IN  Loaded(r, list, start) /\ r.rows = <<>> /\ r.custom /\ r.ordered
<1> DEFINE q == Fresh(<<>>, list, TRUE, TRUE)
           first == InRange(q, start)
           r == playlist_load_paths_ordered(list, start)
<1>1. Shape(q) /\ Count(q) = Len(list) /\ Paths(q) = list /\ ~q.stale /\ q.rows = <<>> /\ q.custom /\ q.ordered
  BY FreshPaths, Zenon
<1>2. r = order_identity(q, first)
  BY DEF playlist_load_paths_ordered
<1>3. first = (IF start <= Count(q) THEN start ELSE 1) /\ first \in Nat \ {0}
  <2> HIDE DEF q
  <2> QED
    BY <1>1, InRangeIs
<1> HIDE DEF q, first, r
<1>4. Fit(r) /\ Same(q, r) /\ r.revised /\ View(r) = Paths(q) /\ r.pos = IF first <= Count(q) THEN first ELSE 1
  BY <1>1, <1>2, <1>3, IdentityIs
<1>5. /\ r.rows = q.rows /\ r.stale = q.stale /\ r.custom = q.custom /\ r.ordered = q.ordered
      /\ Count(r) = Count(q) /\ Paths(r) = Paths(q)
  BY <1>4, SameIs
<1>6. Loaded(r, list, start)
  BY <1>1, <1>3, <1>4, <1>5 DEF Loaded
<1>7. r.rows = <<>> /\ r.custom /\ r.ordered
  BY <1>1, <1>5, Zenon
<1> QED
  BY <1>6, <1>7 DEF r

LEMMA LoadIndex ==
  ASSUME NEW rows \in Seq(Tracks), NEW start \in Nat \ {0}, NEW r \in playlist_load_index(rows, start)
  PROVE  Loaded(r, rows, start) /\ r.rows = rows /\ r.custom /\ ~r.ordered
<1> DEFINE q == Fresh(rows, <<>>, TRUE, FALSE)
           first == InRange(q, start)
<1>1. Shape(q) /\ Count(q) = Len(rows) /\ Paths(q) = rows /\ ~q.stale /\ q.rows = rows /\ q.custom /\ ~q.ordered
  BY FreshRows, Zenon
<1>2. r \in Started(q, first)
  BY DEF playlist_load_index
<1>3. first = (IF start <= Count(q) THEN start ELSE 1) /\ first \in Nat \ {0}
  <2> HIDE DEF q
  <2> QED
    BY <1>1, InRangeIs
<1> HIDE DEF q, first
<1>4. Loaded(r, Paths(q), first) /\ r.rows = q.rows /\ r.custom = q.custom /\ r.ordered = q.ordered
  BY <1>1, <1>2, <1>3, StartedLoads
<1>5. Loaded(r, rows, start)
  BY <1>1, <1>3, <1>4 DEF Loaded
<1> QED
  BY <1>1, <1>4, <1>5, Zenon

\* A file has a folder, and is in it.
LEMMA FolderOfIs ==
  ASSUME NEW t \in Tracks
  PROVE  /\ FolderOf(t) \in Folders /\ FolderOf(t) \in Seq(Tracks) /\ FolderOf(t) # <<>> /\ t \in ToSet(FolderOf(t))
<1>1. \E f \in Folders : t \in ToSet(f)
  BY FoldersAssumption
<1>2. FolderOf(t) \in Folders /\ t \in ToSet(FolderOf(t))
  BY <1>1 DEF FolderOf
<1> QED
  BY <1>2, FoldersAssumption

LEMMA FolderQueueIs ==
  ASSUME NEW t \in Tracks, NEW r \in FolderQueue(t)
  PROVE  /\ Loaded(r, FolderOf(t), IndexIn(FolderOf(t), t)) /\ Fit(r) /\ Count(r) # 0
         /\ r.rows = <<>> /\ ~r.custom /\ ~r.ordered /\ r.revised
<1> DEFINE f == FolderOf(t)
           i == IndexIn(f, t)
<1>1. f \in Seq(Tracks) /\ f # <<>> /\ t \in ToSet(f)
  BY FolderOfIs
<1>2. r \in playlist_load_folder(f, i)
  BY DEF FolderQueue
<1> HIDE DEF f
<1>3. i \in 1..Len(f)
  BY <1>1, IndexInIs
<1> HIDE DEF i
<1>4. i \in Nat \ {0}
  BY <1>3
<1>5. Loaded(r, f, i) /\ r.rows = <<>> /\ ~r.custom /\ ~r.ordered
  BY <1>1, <1>2, <1>4, LoadFolder
<1>6. Len(f) # 0
  BY <1>1
<1>7. Fit(r) /\ Count(r) # 0 /\ r.revised
  BY <1>5, <1>6 DEF Loaded
<1> QED
  BY <1>5, <1>7, Zenon DEF f, i

-----------------------------------------------------------------------------
(* Reading a list again, looking for a track, writing the queue down.       *)

\* The list under the queue, read again.
Reread(q) == [q EXCEPT !.rows = library, !.stale = FALSE]

LEMMA RereadShape ==
  ASSUME NEW q, Fit(q), q.stale, library \in Seq(Tracks), library # <<>>
  PROVE  /\ Shape(Reread(q)) /\ ~Reread(q).stale /\ Reread(q).rows = library /\ Reread(q).added = q.added
         /\ Reread(q).custom /\ Reread(q).ordered = q.ordered
<1> DEFINE r == Reread(q)
<1>1. q \in QueueRecord /\ q.rows # <<>>
  BY Zenon DEF Fit, Shape
<1>2. r \in QueueRecord
  BY <1>1 DEF QueueRecord, Reread
<1>3. r.rows = library /\ r.added = q.added
  BY <1>1 DEF QueueRecord, Reread
<1>4. ~r.stale
  BY <1>1 DEF QueueRecord, Reread
<1>5. r.custom = q.custom
  BY <1>1 DEF QueueRecord, Reread
<1>6. r.ordered = q.ordered
  BY <1>1 DEF QueueRecord, Reread
<1>7. q.custom
  BY <1>1, RowsAreCustom
<1> HIDE DEF r
<1>8. Shape(r)
  BY <1>2, <1>3, <1>4, <1>5, <1>7, Zenon DEF Shape
<1> QED
  BY <1>3, <1>4, <1>5, <1>6, <1>7, <1>8, Zenon DEF r

\* What reading a stale list again may leave.
LEMMA RefreshIs ==
  ASSUME NEW q, Fit(q), library \in Seq(Tracks), NEW r \in refresh_stale_source(q)
  PROVE  /\ Fit(r) /\ ~r.stale
         /\ ~q.stale => r = q
         /\ q.stale => r.revised
         /\ q.stale /\ library = <<>> => r = playlist_clear
         /\ q.stale /\ library # <<>> =>
              /\ r.rows = library /\ r.added = q.added /\ r.custom /\ r.ordered = q.ordered
              /\ \E start \in Nat \ {0} : r \in Started(Reread(q), start)
<1>1. CASE ~q.stale
  BY <1>1 DEF refresh_stale_source
<1>2. CASE q.stale /\ library = <<>>
  <2>1. r = playlist_clear
    BY <1>2 DEF refresh_stale_source
  <2>2. ~r.stale /\ r.revised
    BY <2>1 DEF playlist_clear, Fresh
  <2> QED
    BY <1>2, <2>1, <2>2, ClearIs
<1>3. CASE q.stale /\ library # <<>>
  <2> DEFINE fresh == Reread(q)
             entry == q.order[q.pos]
             byPath == IF Current(q) \in ToSet(library) THEN IndexIn(library, Current(q)) ELSE 1
             byNumber == IF entry <= Len(library) THEN entry ELSE 1
  <2>1. r \in Started(fresh, byPath) \/ r \in Started(fresh, byNumber)
    BY <1>3 DEF refresh_stale_source, Reread
  <2>2. q.rows # <<>>
    BY <1>3 DEF Fit, Shape
  <2>3. q.pos \in 1..Count(q)
    BY <2>2, RowsAreCustom, FitPlace
  <2>4. entry \in 1..Count(q) /\ Count(q) \in Nat
    BY <2>3, FitIs, ShapeIs DEF Fit
  <2>5. byNumber \in Nat \ {0}
    BY <2>4
  <2>6. byPath \in Nat \ {0}
    <3>1. ASSUME Current(q) \in ToSet(library) PROVE IndexIn(library, Current(q)) \in 1..Len(library)
      BY <3>1, IndexInIs
    <3> QED
      BY <3>1
  <2>7. PICK start \in Nat \ {0} : r \in Started(fresh, start)
    BY <2>1, <2>5, <2>6
  <2>8. Shape(fresh) /\ ~fresh.stale /\ fresh.rows = library /\ fresh.added = q.added /\ fresh.custom /\ fresh.ordered = q.ordered
    BY <1>3, RereadShape
  <2> HIDE DEF fresh
  <2>9. Fit(r) /\ Same(fresh, r) /\ r.revised
    BY <2>7, <2>8, StartedFits
  <2>10. r.rows = library /\ r.added = q.added /\ r.custom /\ r.ordered = q.ordered /\ ~r.stale
    BY <2>8, <2>9, Zenon DEF Same
  <2> QED
    BY <1>3, <2>7, <2>9, <2>10, Zenon DEF fresh
<1> QED
  BY <1>1, <1>2, <1>3

\* Looking for a track moves playback only.
LEMMA LocateIs ==
  ASSUME NEW q, Fit(q), NEW t
  PROVE  \/ playlist_locate(q, t) = q
         \/ \E i \in 1..Count(q) : playlist_locate(q, t) = Placed(q, i) /\ View(q)[i] = t
<1> DEFINE at == {i \in 1..Count(q) : View(q)[i] = t}
           Off(i) == IF i >= q.pos THEN i - q.pos ELSE q.pos - i
           near == {i \in at : Off(i) <= LOCATE_RADIUS}
           nearest == {i \in near : \A j \in near : Off(i) < Off(j) \/ (Off(i) = Off(j) /\ i >= j)}
           found == IF q.rows = <<>> THEN {i \in at : \A j \in at : i <= j} ELSE nearest
<1>1. playlist_locate(q, t) = IF found = {} THEN q ELSE [q EXCEPT !.pos = CHOOSE i \in found : TRUE]
  BY DEF playlist_locate
<1>2. found \subseteq at
  OBVIOUS
<1> HIDE DEF found
<1>3. found # {} => (CHOOSE i \in found : TRUE) \in found
  OBVIOUS
<1> DEFINE k == CHOOSE i \in found : TRUE
<1>4. playlist_locate(q, t) = IF found = {} THEN q ELSE Placed(q, k)
  BY <1>1 DEF Placed
<1> HIDE DEF k
<1>5. found # {} => k \in 1..Count(q) /\ View(q)[k] = t
  BY <1>2, <1>3 DEF k
<1> QED
  BY <1>4, <1>5

LEMMA LocateFits ==
  ASSUME NEW q, Fit(q), NEW t
  PROVE  /\ Fit(playlist_locate(q, t)) /\ Same(q, playlist_locate(q, t))
         /\ View(playlist_locate(q, t)) = View(q) /\ playlist_locate(q, t).revised = q.revised
<1> DEFINE r == playlist_locate(q, t)
<1>1. r = q \/ \E i \in 1..Count(q) : r = Placed(q, i)
  BY LocateIs
<1> HIDE DEF r
<1>2. Same(q, q)
  BY DEF Same
<1>3. Fit(r) /\ Same(q, r) /\ View(r) = View(q) /\ r.revised = q.revised
  BY <1>1, <1>2, PlacedFits
<1> QED
  BY <1>3 DEF r

\* The revision alone.
LEMMA SavedFits ==
  ASSUME NEW q, Fit(q)
  PROVE  /\ Fit(Saved(q)) /\ Same(q, Saved(q)) /\ Saved(q).order = q.order /\ Saved(q).pos = q.pos
         /\ View(Saved(q)) = View(q) /\ ~Saved(q).revised
<1> DEFINE r == Saved(q)
<1>1. q \in QueueRecord /\ Shape(q)
  BY DEF Fit, Shape
<1>2. r \in QueueRecord /\ r.order = q.order /\ r.pos = q.pos
  BY <1>1 DEF QueueRecord, Saved
<1>3. r.rows = q.rows /\ r.added = q.added
  BY <1>1 DEF QueueRecord, Saved
<1>4. r.stale = q.stale
  BY <1>1 DEF QueueRecord, Saved
<1>5. r.custom = q.custom /\ r.ordered = q.ordered
  BY <1>1 DEF QueueRecord, Saved
<1>6. ~r.revised
  BY <1>1 DEF QueueRecord, Saved
<1> HIDE DEF r
<1>7. Same(q, r)
  BY <1>3, <1>4, <1>5 DEF Same
<1>8. Shape(r) /\ Count(r) = Count(q) /\ Paths(r) = Paths(q)
  BY <1>1, <1>2, <1>7, SameShape
<1>9. Fit(r) /\ View(r) = View(q)
  BY <1>2, <1>8 DEF Fit, View
<1> QED
  BY <1>2, <1>6, <1>7, <1>9 DEF r

-----------------------------------------------------------------------------
(* What is on the card.                                                     *)

Extra == [path : Tracks, slot : Nat \ {0}]
SavedLists == [form : {"list"}, paths : Seq(Tracks) \ {<<>>}, pos : Nat \ {0}, custom : BOOLEAN]
SavedQueries == [form : {"query"}, entry : Nat \ {0}, extra : Seq(Extra)]
SavedTypes == {Unsaved} \cup SavedLists \cup SavedQueries

LEMMA SavedIs ==
  ASSUME NEW s \in SavedTypes
  PROVE  /\ s.form = "list" => s \in SavedLists /\ s.paths \in Seq(Tracks) /\ s.paths # <<>> /\ s.pos \in Nat \ {0} /\ s.custom \in BOOLEAN
         /\ s.form = "query" => s \in SavedQueries /\ s.entry \in Nat \ {0} /\ s.extra \in Seq(Extra)
<1>1. CASE s = Unsaved
  BY <1>1 DEF Unsaved
<1>2. CASE s \in SavedLists
  <2>1. s.form = "list"
    BY <1>2 DEF SavedLists
  <2>2. s.paths \in Seq(Tracks) /\ s.paths # <<>> /\ s.pos \in Nat \ {0}
    BY <1>2 DEF SavedLists
  <2>3. s.custom \in BOOLEAN
    BY <1>2 DEF SavedLists
  <2> QED
    BY <1>2, <2>1, <2>2, <2>3
<1>3. CASE s \in SavedQueries
  BY <1>3 DEF SavedQueries
<1> QED
  BY <1>1, <1>2, <1>3 DEF SavedTypes

LEMMA AdditionsType ==
  ASSUME NEW q, Fit(q)
  PROVE  /\ Additions(q) \in Seq(Extra)
         /\ LET slots == {i \in 1..Count(q) : q.order[i] > Len(q.rows)}
            IN  /\ PlacesIn(slots, Count(q)) /\ Len(Additions(q)) = Cardinality(slots)
                /\ \A k \in 1..Cardinality(slots) :
                     /\ Additions(q)[k].slot = InOrder(slots)[k]
                     /\ Additions(q)[k].path = View(q)[InOrder(slots)[k]]
<1> DEFINE n == Count(q)
           slots == {i \in 1..n : q.order[i] > Len(q.rows)}
           row(i) == [path |-> View(q)[i], slot |-> i]
           all == [i \in 1..n |-> row(i)]
<1>1. n \in Nat /\ \A i \in 1..n : View(q)[i] \in Tracks
  BY ShapeIs, FitIs DEF Fit
<1>2. \A i \in 1..n : row(i) \in Extra
  BY <1>1 DEF Extra
<1>3. PlacesIn(slots, n)
  BY <1>1 DEF PlacesIn
<1>4. Additions(q) = At(all, slots)
  BY DEF Additions
<1>5. \A k \in 1..Cardinality(slots) : InOrder(slots)[k] \in 1..n
  <2> HIDE DEF slots
  <2> QED
    BY <1>3, InOrderIs DEF PlacesIn
<1> HIDE DEF row, slots, n
<1>6. all \in Seq(Extra) /\ Len(all) = n /\ \A i \in 1..n : all[i] = row(i)
  BY <1>1, <1>2
<1> HIDE DEF all
<1>7. /\ At(all, slots) \in Seq(Extra) /\ Len(At(all, slots)) = Cardinality(slots)
      /\ \A k \in 1..Cardinality(slots) : At(all, slots)[k] = all[InOrder(slots)[k]]
  BY <1>3, <1>6, AtIs
<1>8. \A k \in 1..Cardinality(slots) : Additions(q)[k] = row(InOrder(slots)[k])
  BY <1>4, <1>5, <1>6, <1>7
<1>9. \A i : row(i).slot = i /\ row(i).path = View(q)[i]
  BY DEF row
<1>10. Additions(q) \in Seq(Extra) /\ Len(Additions(q)) = Cardinality(slots)
  BY <1>4, <1>7
<1>11. \A k \in 1..Cardinality(slots) :
         Additions(q)[k].slot = InOrder(slots)[k] /\ Additions(q)[k].path = View(q)[InOrder(slots)[k]]
  BY <1>8, <1>9
<1> QED
  BY <1>3, <1>10, <1>11, Zenon DEF slots, n

\* What is written of a queue.
LEMMA WrittenTypes ==
  ASSUME NEW q, Fit(q), Count(q) # 0, saved \in SavedTypes
  PROVE  /\ library_queue_save_query(q) \in SavedQueries
         /\ library_queue_save(q) \in SavedLists
         /\ library_queue_save_index(q) \in SavedTypes
<1>1. q.pos \in 1..Count(q) /\ Count(q) \in Nat
  BY FitPlace, ShapeIs DEF Fit
<1>2. q.order[q.pos] \in 1..Count(q)
  BY <1>1, FitIs
<1>3. View(q) \in Seq(Tracks) /\ Len(View(q)) # 0
  BY FitIs
<1>4. q.custom \in BOOLEAN
  BY RecordIs DEF Fit, Shape
<1>5. Additions(q) \in Seq(Extra)
  BY AdditionsType
<1>6. library_queue_save_query(q) \in SavedQueries
  BY <1>1, <1>2, <1>5 DEF library_queue_save_query, SavedQueries
<1>7. View(q) \in Seq(Tracks) \ {<<>>} /\ q.pos \in Nat \ {0}
  BY <1>1, <1>3
<1>8. library_queue_save(q) \in SavedLists
  BY <1>4, <1>7 DEF library_queue_save, SavedLists
<1>9. library_queue_save_index(q) \in SavedTypes
  <2>1. CASE saved.form # "list"
    BY <2>1 DEF library_queue_save_index
  <2>2. CASE saved.form = "list"
    <3>1. saved \in SavedLists
      BY <2>2, SavedIs
    <3>2. [saved EXCEPT !.pos = q.pos] \in SavedLists
      BY <1>7, <3>1 DEF SavedLists
    <3> QED
      BY <2>2, <3>2 DEF library_queue_save_index, SavedTypes
  <2> QED
    BY <2>1, <2>2
<1> QED
  BY <1>6, <1>8, <1>9

LEMMA PersistIs ==
  ASSUME NEW q, Fit(q), saved \in SavedTypes, queue_persist(q)
  PROVE  /\ Fit(queue') /\ Same(q, queue') /\ View(queue') = View(q) /\ saved' \in SavedTypes
         /\ Count(q) = 0 => queue' = q /\ saved' = saved
         /\ Count(q) # 0 => queue' = Saved(q)
<1>1. CASE Count(q) = 0
  BY <1>1 DEF queue_persist, Same
<1>2. CASE Count(q) # 0
  <2>1. queue' = Saved(q)
    BY <1>2 DEF queue_persist, Saved
  <2>2. Fit(Saved(q)) /\ Same(q, Saved(q)) /\ View(Saved(q)) = View(q)
    BY SavedFits
  <2>3. saved' \in {library_queue_save_query(q), library_queue_save(q), library_queue_save_index(q)}
    BY <1>2 DEF queue_persist
  <2>4. saved' \in SavedTypes
    BY <1>2, <2>3, WrittenTypes DEF SavedTypes
  <2> QED
    BY <1>2, <2>1, <2>2, <2>4
<1> QED
  BY <1>1, <1>2

-----------------------------------------------------------------------------
(* Edits.                                                                   *)

LEMMA AppendOrder ==
  ASSUME NEW n \in Nat, NEW o \in Orders(n), NEW slot \in 1..(n + 1)
  PROVE  InsertAt(o, slot, n + 1) \in Orders(n + 1)
<1> DEFINE r == InsertAt(o, slot, n + 1)
<1>1. o \in Seq(1..(n + 1)) /\ Len(o) = n /\ (\A e \in 1..n : \E i \in 1..n : o[i] = e)
  <2>1. o \in Seq(1..n) /\ Len(o) = n /\ (\A e \in 1..n : \E i \in 1..n : o[i] = e)
    BY OrderIs
  <2>2. 1..n \subseteq 1..(n + 1)
    OBVIOUS
  <2>3. o \in Seq(1..(n + 1))
    BY <2>1, <2>2, SeqMonotonic, Zenon
  <2> QED
    BY <2>1, <2>3
<1> DEFINE t == n + 1
           T == 1..(n + 1)
<1>2. t \in T /\ slot \in 1..(Len(o) + 1) /\ o \in Seq(T)
  BY <1>1
<1> HIDE DEF t, T
<1>3. /\ InsertAt(o, slot, t) \in Seq(T) /\ Len(InsertAt(o, slot, t)) = Len(o) + 1
      /\ \A k \in 1..(Len(o) + 1) :
           InsertAt(o, slot, t)[k] = IF k < slot THEN o[k] ELSE IF k = slot THEN t ELSE o[k - 1]
  BY <1>2, InsertAtIs
<1>4. r = InsertAt(o, slot, t)
  BY DEF t
<1> HIDE DEF r
<1>5. r \in Seq(T) /\ Len(r) = n + 1
      /\ \A k \in 1..(n + 1) : r[k] = IF k < slot THEN o[k] ELSE IF k = slot THEN t ELSE o[k - 1]
  BY <1>1, <1>3, <1>4
<1>6. r \in [1..(n + 1) -> 1..(n + 1)]
  BY <1>5 DEF T
<1>7. ASSUME NEW e \in 1..(n + 1) PROVE \E i \in 1..(n + 1) : r[i] = e
  <2>1. CASE e = n + 1
    <3>1. slot \in 1..(n + 1) /\ ~(slot < slot)
      OBVIOUS
    <3>2. r[slot] = e
      BY <1>5, <2>1, <3>1 DEF t
    <3> QED
      BY <3>1, <3>2
  <2>2. CASE e \in 1..n
    <3>1. PICK i \in 1..n : o[i] = e
      BY <1>1, <2>2
    <3>2. CASE i < slot
      BY <1>5, <3>1, <3>2
    <3>3. CASE ~(i < slot)
      <4>1. i + 1 \in 1..(n + 1) /\ ~(i + 1 < slot) /\ i + 1 # slot /\ (i + 1) - 1 = i
        BY <3>3
      <4>2. r[i + 1] = o[i]
        BY <1>5, <4>1
      <4> QED
        BY <3>1, <4>1, <4>2
    <3> QED
      BY <3>2, <3>3
  <2> QED
    BY <2>1, <2>2
<1> QED
  BY <1>6, <1>7 DEF Orders, r

\* The entry pushed is in the playing order, and only it.
LEMMA PushedIs ==
  ASSUME NEW q, Fit(q), NEW t \in Tracks, NEW slot \in 1..(Count(q) + 1)
  PROVE  LET r == Pushed(q, t, slot)
         IN  /\ r \in QueueRecord /\ Shape(r) /\ Count(r) = Count(q) + 1 /\ r.order \in Orders(Count(q) + 1)
             /\ View(r) = InsertAt(View(q), slot, t)
             /\ r.rows = q.rows /\ r.added = Append(q.added, t) /\ r.order = InsertAt(q.order, slot, Count(q) + 1)
             /\ r.pos = q.pos /\ r.stale = q.stale /\ r.custom /\ r.ordered = q.ordered /\ r.chain = q.chain /\ r.revised
<1> DEFINE r == Pushed(q, t, slot)
           o == InsertAt(q.order, slot, Count(q) + 1)
           a == Append(q.added, t)
           n == Count(q)
<1>1. q \in QueueRecord /\ Shape(q) /\ n \in Nat /\ q.order \in Orders(n)
  BY ShapeIs DEF Fit, Shape
<1>2. o \in Orders(n + 1)
  BY <1>1, AppendOrder
<1>3. o \in Seq(Nat) /\ Len(o) = n + 1
  <2> HIDE DEF o, n
  <2>1. n + 1 \in Nat
    BY <1>1
  <2>2. o \in Seq(1..(n + 1)) /\ Len(o) = n + 1
    BY <1>2, <2>1, OrderIs
  <2>3. 1..(n + 1) \subseteq Nat
    OBVIOUS
  <2> QED
    BY <2>2, <2>3, SeqMonotonic, Zenon
<1>4. a \in Seq(Tracks) /\ Len(a) = Len(q.added) + 1
  BY <1>1, RecordIs
<1>5. r = [q EXCEPT !.added = a, !.order = o, !.custom = TRUE, !.revised = TRUE]
  BY DEF Pushed
<1> HIDE DEF o, a
<1>6. r \in QueueRecord
  BY <1>1, <1>3, <1>4, <1>5 DEF QueueRecord
<1>7. r.added = a /\ r.order = o /\ r.rows = q.rows
  BY <1>1, <1>5 DEF QueueRecord
<1>8. r.pos = q.pos /\ r.chain = q.chain
  BY <1>1, <1>5 DEF QueueRecord
<1>9. r.stale = q.stale /\ r.ordered = q.ordered
  BY <1>1, <1>5 DEF QueueRecord
<1>10. r.custom
  BY <1>1, <1>5 DEF QueueRecord
<1>11. r.revised
  BY <1>1, <1>5 DEF QueueRecord
<1> HIDE DEF r
<1>12. Shape(r)
  BY <1>1, <1>6, <1>7, <1>9, <1>10, Zenon DEF Shape
<1>13. Count(r) = n + 1
  <2>1. Len(q.rows) \in Nat /\ Len(q.added) \in Nat /\ n = Len(q.rows) + Len(q.added)
    BY <1>1, ShapeIs
  <2>2. Count(r) = Len(q.rows) + Len(a)
    BY <1>7 DEF Count
  <2> DEFINE x == Len(q.rows)
             y == Len(q.added)
             z == Len(a)
             c == Count(r)
  <2>3. x \in Nat /\ y \in Nat /\ n = x + y /\ z = y + 1 /\ c = x + z
    BY <1>4, <2>1, <2>2
  <2> HIDE DEF x, y, z, c, n
  <2>4. c = n + 1
    BY <2>3
  <2> QED
    BY <2>4 DEF c
<1>14. /\ \A e \in 1..n : Paths(r)[e] = Paths(q)[e]
       /\ Paths(r)[n + 1] = t
       /\ Paths(r) \in Seq(Tracks) /\ Len(Paths(r)) = n + 1
       /\ Paths(q) \in Seq(Tracks) /\ Len(Paths(q)) = n
  <2>1. Paths(q) \in Seq(Tracks) /\ Len(Paths(q)) = n /\ q.rows \in Seq(Tracks) /\ q.added \in Seq(Tracks)
    BY <1>1, ShapeIs, RecordIs
  <2>2. Append(q.added, t) = q.added \o <<t>> /\ <<t>> \in Seq(Tracks)
    BY <2>1, AppendIsConcat
  <2>3. Paths(r) = q.rows \o (q.added \o <<t>>)
    BY <1>7, <2>2 DEF Paths, a
  <2>4. Paths(r) = (q.rows \o q.added) \o <<t>>
    <3> DEFINE x == q.rows
               y == q.added
               z == <<t>>
    <3>1. x \in Seq(Tracks) /\ y \in Seq(Tracks) /\ z \in Seq(Tracks)
      BY <2>1, <2>2
    <3> HIDE DEF x, y, z
    <3>2. (x \o y) \o z = x \o (y \o z)
      BY <3>1, ConcatAssociative
    <3> QED
      BY <2>3, <3>2 DEF x, y, z
  <2>5. Paths(r) = Append(Paths(q), t)
    BY <2>1, <2>4, AppendIsConcat DEF Paths
  <2> DEFINE s == Paths(q)
  <2> HIDE DEF s
  <2>6. /\ Append(s, t) \in Seq(Tracks) /\ Len(Append(s, t)) = Len(s) + 1
        /\ (\A i \in 1..Len(s) : Append(s, t)[i] = s[i]) /\ Append(s, t)[Len(s) + 1] = t
    BY <2>1, AppendProperties DEF s
  <2> QED
    BY <2>1, <2>5, <2>6 DEF s
<1>15. View(r) = InsertAt(View(q), slot, t)
  <2> DEFINE v == View(q)
             w == InsertAt(v, slot, t)
             oo == q.order
  <2>1. v \in Seq(Tracks) /\ Len(v) = n /\ \A i \in 1..n : v[i] = Paths(q)[oo[i]] /\ oo[i] \in 1..n
    BY FitIs
  <2>2. oo \in Seq(Nat) /\ Len(oo) = n
    BY <1>1, FitIs, RecordIs
  <2> HIDE DEF v, oo
  <2>3. /\ w \in Seq(Tracks) /\ Len(w) = n + 1
        /\ \A k \in 1..(n + 1) : w[k] = IF k < slot THEN v[k] ELSE IF k = slot THEN t ELSE v[k - 1]
    <3>1. slot \in 1..(Len(v) + 1)
      BY <2>1
    <3>2. IsInserted(w, Tracks, v, slot, t)
      BY <2>1, <3>1, Insertion, Zenon
    <3> HIDE DEF w
    <3> QED
      BY <2>1, <3>2 DEF IsInserted
  <2> DEFINE m == n + 1
  <2>8. m \in Nat /\ slot \in 1..(Len(oo) + 1) /\ slot \in 1..m /\ m = Len(oo) + 1
    BY <1>1, <2>2
  <2>4. o = InsertAt(oo, slot, m)
    BY DEF o, oo
  <2> HIDE DEF m
  <2>5. \A k \in 1..m : o[k] = IF k < slot THEN oo[k] ELSE IF k = slot THEN m ELSE oo[k - 1]
    <3>1. IsInserted(o, Nat, oo, slot, m)
      BY <2>2, <2>4, <2>8, Insertion, Zenon
    <3> QED
      BY <2>8, <3>1 DEF IsInserted
  <2>6. View(r) = [i \in 1..m |-> Paths(r)[o[i]]]
    BY <1>7, <1>14 DEF View, m
  <2> HIDE DEF w
  <2>7. ASSUME NEW i \in 1..m PROVE Paths(r)[o[i]] = w[i]
    <3>1. CASE i < slot
      <4>1. i \in 1..n
        BY <1>1, <2>8, <3>1 DEF m
      <4>2. o[i] = oo[i] /\ w[i] = v[i]
        BY <2>3, <2>5, <3>1 DEF m
      <4> QED
        BY <1>14, <2>1, <4>1, <4>2
    <3>2. CASE i = slot
      <4>1. o[i] = m /\ w[i] = t
        BY <2>3, <2>5, <2>8, <3>2 DEF m
      <4> QED
        BY <1>14, <4>1 DEF m
    <3>3. CASE i > slot
      <4>1. i - 1 \in 1..n /\ ~(i < slot) /\ i # slot
        BY <1>1, <2>8, <3>3 DEF m
      <4>2. o[i] = oo[i - 1] /\ w[i] = v[i - 1]
        BY <2>3, <2>5, <4>1 DEF m
      <4> QED
        BY <1>14, <2>1, <4>1, <4>2
    <3> QED
      BY <2>8, <3>1, <3>2, <3>3
  <2>9. w = [i \in 1..m |-> w[i]]
    BY <2>3 DEF m
  <2> QED
    BY <2>6, <2>7, <2>9 DEF w, v
<1>16. r.order \in Orders(n + 1) /\ r.order = InsertAt(q.order, slot, Count(q) + 1) /\ r.added = Append(q.added, t)
  BY <1>2, <1>7 DEF o, a
<1> QED
  BY <1>6, <1>7, <1>8, <1>9, <1>10, <1>11, <1>12, <1>13, <1>15, <1>16, Zenon DEF r, n

\* Where additions go next, and where playback is; nothing else.
Rechained(q, c, i) == [q EXCEPT !.chain = c, !.pos = i]

LEMMA RechainedFits ==
  ASSUME NEW q, Shape(q), q.order \in Orders(Count(q)), NEW c \in [from : Nat, slot : Nat], NEW i \in 1..Count(q)
  PROVE  /\ Fit(Rechained(q, c, i)) /\ Same(q, Rechained(q, c, i)) /\ View(Rechained(q, c, i)) = View(q)
         /\ Rechained(q, c, i).order = q.order /\ Rechained(q, c, i).pos = i /\ Rechained(q, c, i).revised = q.revised
<1> DEFINE r == Rechained(q, c, i)
<1>1. q \in QueueRecord /\ Count(q) \in Nat
  BY ShapeIs DEF Shape
<1>2. i \in Nat
  BY <1>1
<1>3. r \in QueueRecord
  BY <1>1, <1>2 DEF QueueRecord, Rechained
<1>4. r.rows = q.rows /\ r.added = q.added
  BY <1>1 DEF QueueRecord, Rechained
<1>5. r.order = q.order /\ r.pos = i
  BY <1>1 DEF QueueRecord, Rechained
<1>6. r.stale = q.stale /\ r.revised = q.revised
  BY <1>1 DEF QueueRecord, Rechained
<1>7. r.custom = q.custom /\ r.ordered = q.ordered
  BY <1>1 DEF QueueRecord, Rechained
<1> HIDE DEF r
<1>8. Same(q, r)
  BY <1>4, <1>6, <1>7 DEF Same
<1>9. Shape(r) /\ Count(r) = Count(q) /\ Paths(r) = Paths(q)
  BY <1>3, <1>8, SameShape
<1>10. Fit(r) /\ View(r) = View(q)
  BY <1>5, <1>9 DEF Fit, View
<1> QED
  BY <1>5, <1>6, <1>8, <1>10 DEF r

\* An addition to a queue that has nothing.
LEMMA FirstEntryIs ==
  ASSUME NEW q, Fit(q), Count(q) = 0, NEW t \in Tracks
  PROVE  LET r == FirstEntry(q, t)
         IN  /\ Fit(r) /\ Count(r) = 1 /\ View(r) = <<t>> /\ r.rows = <<>> /\ r.custom /\ ~r.stale /\ r.revised
             /\ r.pos = 1 /\ r.ordered = q.ordered
<1> DEFINE p == [q EXCEPT !.added = <<t>>]
           m == order_identity(p, 1)
           r == FirstEntry(q, t)
<1>1. q \in QueueRecord /\ Shape(q)
  BY DEF Fit, Shape
<1>2. q.rows = <<>> /\ ~q.stale
  <2>1. q.rows = <<>>
    BY RowsAreCustom
  <2> QED
    BY <1>1, <2>1, Zenon DEF Shape
<1>3. <<t>> \in Seq(Tracks) /\ Len(<<t>>) = 1
  OBVIOUS
<1> DEFINE a == <<t>>
<1> HIDE DEF a
<1>4. [q EXCEPT !.added = a] \in QueueRecord
  BY <1>1, <1>3 DEF QueueRecord, a
<1>5. p \in QueueRecord
  BY <1>4 DEF a
<1>6. p.rows = <<>> /\ p.added = <<t>>
  BY <1>1, <1>2 DEF QueueRecord
<1>7. p.stale = q.stale /\ p.ordered = q.ordered
  BY <1>1 DEF QueueRecord
<1>8. p.custom = q.custom
  BY <1>1 DEF QueueRecord
<1> HIDE DEF p
<1>9. Shape(p)
  BY <1>1, <1>2, <1>5, <1>6, <1>7, <1>8, Zenon DEF Shape
<1>10. Count(p) = 1 /\ Paths(p) = <<t>>
  BY <1>3, <1>6 DEF Count, Paths
<1>11. /\ Fit(m) /\ Same(p, m) /\ m.revised /\ View(m) = Paths(p)
       /\ m.pos = IF 1 <= Count(p) THEN 1 ELSE 1
  <2>1. 1 \in Nat \ {0}
    OBVIOUS
  <2> QED
    BY <1>9, <2>1, IdentityIs, Zenon
<1> HIDE DEF m
<1>12. m \in QueueRecord /\ m.rows = <<>> /\ m.added = <<t>> /\ Paths(m) = <<t>> /\ Count(m) = 1 /\ m.pos = 1
  BY <1>6, <1>10, <1>11, SameIs DEF Fit, Shape
<1>13. m.ordered = q.ordered /\ ~m.stale
  BY <1>2, <1>7, <1>11, Zenon DEF Same
<1>14. r = [m EXCEPT !.custom = TRUE, !.chain = NoChain]
  BY DEF FirstEntry, m, p
<1>15. NoChain \in [from : Nat, slot : Nat]
  BY DEF NoChain
<1> HIDE DEF r
<1>16. r \in QueueRecord
  BY <1>12, <1>14, <1>15 DEF QueueRecord
<1>17. r.rows = m.rows /\ r.added = m.added
  BY <1>12, <1>14 DEF QueueRecord
<1>18. r.order = m.order /\ r.pos = m.pos
  BY <1>12, <1>14 DEF QueueRecord
<1>19. r.custom
  BY <1>12, <1>14 DEF QueueRecord
<1>20. r.stale = m.stale /\ r.ordered = m.ordered
  BY <1>12, <1>14 DEF QueueRecord
<1>21. r.revised = m.revised
  BY <1>12, <1>14 DEF QueueRecord
<1>22. Shape(r)
  BY <1>12, <1>13, <1>16, <1>17, <1>19, <1>20, Zenon DEF Shape
<1>23. Count(r) = 1 /\ Paths(r) = Paths(m) /\ Count(m) = 1
  BY <1>12, <1>17 DEF Count, Paths
<1>24. Fit(r)
  BY <1>11, <1>12, <1>18, <1>22, <1>23 DEF Fit
<1>25. View(r) = View(m)
  BY <1>18, <1>23 DEF View
<1>26. r.rows = <<>> /\ r.custom /\ ~r.stale /\ r.revised /\ r.ordered = q.ordered
  BY <1>11, <1>12, <1>13, <1>17, <1>19, <1>20, <1>21, Zenon
<1> QED
  BY <1>10, <1>11, <1>12, <1>18, <1>23, <1>24, <1>25, <1>26 DEF r

\* The slot behind the track playing, or behind the chain.
LEMMA ChainSlotIs ==
  ASSUME NEW q, Fit(q), Count(q) # 0
  PROVE  Least(ChainSlot(q), Count(q) + 1) \in (q.pos + 1)..(Count(q) + 1)
<1> DEFINE n == Count(q)
           p == q.pos
           f == q.chain.from
           c == q.chain.slot
<1>1. n \in Nat /\ p \in 1..n
  BY FitPlace, ShapeIs DEF Fit
<1>2. f \in Nat /\ c \in Nat
  BY RecordIs DEF Fit, Shape
<1> HIDE DEF n, p, f, c
<1>3. Least(IF f = p /\ c > p /\ c <= n + 1 THEN c + 1 ELSE p + 1, n + 1) \in (p + 1)..(n + 1)
  BY <1>1, <1>2 DEF Least
<1> QED
  BY <1>3 DEF ChainSlot, n, p, f, c

\* What an addition is: the track at a slot, and playback where it was.
Added(q, r, t, slot) ==
  /\ Fit(r) /\ View(r) = InsertAt(View(q), slot, t) /\ Count(r) = Count(q) + 1
  /\ r.rows = q.rows /\ r.added = Append(q.added, t) /\ r.custom /\ r.stale = q.stale /\ r.ordered = q.ordered /\ r.revised

LEMMA InsertedNextIs ==
  ASSUME NEW q, Fit(q), Count(q) # 0, NEW t \in Tracks
  PROVE  LET r == InsertedNext(q, t)
             slot == Least(ChainSlot(q), Count(q) + 1)
         IN  Added(q, r, t, slot) /\ r.pos = q.pos /\ slot \in (q.pos + 1)..(Count(q) + 1)
<1> DEFINE slot == Least(ChainSlot(q), Count(q) + 1)
           p == Pushed(q, t, slot)
           c == [from |-> q.pos, slot |-> slot]
           i == q.pos
           r == InsertedNext(q, t)
<1>1. slot \in (i + 1)..(Count(q) + 1) /\ Count(q) \in Nat /\ i \in 1..Count(q)
  BY ChainSlotIs, FitPlace, ShapeIs DEF Fit
<1>2. r = [p EXCEPT !.chain = c]
  BY DEF InsertedNext
<1> HIDE DEF slot
<1>3. slot \in 1..(Count(q) + 1) /\ slot \in Nat
  BY <1>1
<1>4. /\ p \in QueueRecord /\ Shape(p) /\ Count(p) = Count(q) + 1 /\ p.order \in Orders(Count(q) + 1)
      /\ View(p) = InsertAt(View(q), slot, t)
      /\ p.rows = q.rows /\ p.added = Append(q.added, t) /\ p.pos = q.pos /\ p.stale = q.stale
      /\ p.custom /\ p.ordered = q.ordered /\ p.revised
  BY <1>3, PushedIs, Zenon
<1>5. c \in [from : Nat, slot : Nat]
  BY <1>1, <1>3
<1> HIDE DEF p, c, r
<1>6. r = Rechained(p, c, i)
  BY <1>2, <1>4 DEF QueueRecord, Rechained
<1>7. i \in 1..Count(p) /\ p.order \in Orders(Count(p))
  BY <1>1, <1>4
<1>8. Fit(r) /\ Same(p, r) /\ View(r) = View(p) /\ r.pos = i /\ r.revised = p.revised
  BY <1>4, <1>5, <1>6, <1>7, RechainedFits, Zenon
<1>9. r.rows = p.rows /\ r.added = p.added /\ r.custom = p.custom /\ r.stale = p.stale /\ r.ordered = p.ordered /\ Count(r) = Count(p)
  BY <1>8, SameIs
<1>10. Added(q, r, t, slot)
  BY <1>4, <1>8, <1>9, Zenon DEF Added
<1> QED
  BY <1>1, <1>8, <1>10, Zenon DEF r, slot

LEMMA InsertedAtIs ==
  ASSUME NEW q, Fit(q), Count(q) # 0, NEW t \in Tracks, NEW wanted \in Nat \ {0}
  PROVE  LET r == InsertedAt(q, t, wanted)
             slot == Least(wanted, Count(q) + 1)
         IN  /\ Added(q, r, t, slot) /\ slot \in 1..(Count(q) + 1)
             /\ r.pos = IF slot <= q.pos THEN q.pos + 1 ELSE q.pos
<1> DEFINE slot == Least(wanted, Count(q) + 1)
           p == Pushed(q, t, slot)
           i == IF slot <= q.pos THEN q.pos + 1 ELSE q.pos
           r == InsertedAt(q, t, wanted)
<1>1. slot \in 1..(Count(q) + 1) /\ Count(q) \in Nat /\ q.pos \in 1..Count(q)
  <2> DEFINE n == Count(q)
  <2>1. n \in Nat /\ q.pos \in 1..n
    BY FitPlace, ShapeIs DEF Fit
  <2> HIDE DEF n
  <2>2. Least(wanted, n + 1) \in 1..(n + 1)
    BY <2>1 DEF Least
  <2> QED
    BY <2>1, <2>2 DEF n
<1>2. r = [p EXCEPT !.chain = NoChain, !.pos = IF slot <= q.pos THEN @ + 1 ELSE @]
  BY DEF InsertedAt
<1> HIDE DEF slot
<1>4. /\ p \in QueueRecord /\ Shape(p) /\ Count(p) = Count(q) + 1 /\ p.order \in Orders(Count(q) + 1)
      /\ View(p) = InsertAt(View(q), slot, t)
      /\ p.rows = q.rows /\ p.added = Append(q.added, t) /\ p.pos = q.pos /\ p.stale = q.stale
      /\ p.custom /\ p.ordered = q.ordered /\ p.revised
  BY <1>1, PushedIs, Zenon
<1>5. NoChain \in [from : Nat, slot : Nat]
  BY DEF NoChain
<1> HIDE DEF p, r
<1>11. i \in 1..(Count(q) + 1) /\ i = IF slot <= q.pos THEN p.pos + 1 ELSE p.pos
  BY <1>1, <1>4
<1>12. r = [p EXCEPT !.chain = NoChain, !.pos = IF slot <= q.pos THEN p.pos + 1 ELSE p.pos]
  BY <1>2, <1>4 DEF QueueRecord
<1> HIDE DEF i
<1>6. r = Rechained(p, NoChain, i)
  BY <1>11, <1>12 DEF Rechained
<1>7. i \in 1..Count(p) /\ p.order \in Orders(Count(p))
  BY <1>4, <1>11
<1>8. Fit(r) /\ Same(p, r) /\ View(r) = View(p) /\ r.pos = i /\ r.revised = p.revised
  BY <1>4, <1>5, <1>6, <1>7, RechainedFits, Zenon
<1>9. r.rows = p.rows /\ r.added = p.added /\ r.custom = p.custom /\ r.stale = p.stale /\ r.ordered = p.ordered /\ Count(r) = Count(p)
  BY <1>8, SameIs
<1>10. Added(q, r, t, slot)
  BY <1>4, <1>8, <1>9, Zenon DEF Added
<1> QED
  BY <1>1, <1>8, <1>10, Zenon DEF r, slot, i

\* Whatever the queue is.
LEMMA InsertionsFit ==
  ASSUME NEW q, Fit(q), NEW t \in Tracks, NEW wanted \in Nat \ {0}
  PROVE  Fit(InsertedNext(q, t)) /\ Fit(InsertedAt(q, t, wanted))
<1>1. CASE Count(q) = 0
  <2>1. InsertedNext(q, t) = FirstEntry(q, t) /\ InsertedAt(q, t, wanted) = FirstEntry(q, t)
    BY <1>1 DEF InsertedNext, InsertedAt
  <2>2. Fit(FirstEntry(q, t))
    BY <1>1, FirstEntryIs, Zenon
  <2> QED
    BY <2>1, <2>2
<1>2. CASE Count(q) # 0
  <2>1. Fit(InsertedNext(q, t))
    BY <1>2, InsertedNextIs, Zenon DEF Added
  <2>2. Fit(InsertedAt(q, t, wanted))
    BY <1>2, InsertedAtIs, Zenon DEF Added
  <2> QED
    BY <2>1, <2>2
<1> QED
  BY <1>1, <1>2

\* The places of what is kept.
Kept(q, gone) == (1..Count(q)) \ gone
KeptPlaces(q, gone) == {i \in 1..Count(q) : q.order[i] \in Kept(q, gone)}

LEMMA KeptIs ==
  ASSUME NEW q, Fit(q), NEW gone
  PROVE  /\ PlacesIn(Kept(q, gone), Count(q)) /\ PlacesIn(KeptPlaces(q, gone), Count(q))
         /\ Cardinality(KeptPlaces(q, gone)) = Cardinality(Kept(q, gone))
         /\ Cardinality(Kept(q, gone)) \in Nat
<1> DEFINE K == Kept(q, gone)
           P == KeptPlaces(q, gone)
           f == [i \in P |-> q.order[i]]
<1>1. Count(q) \in Nat
  BY ShapeIs DEF Fit
<1>2. PlacesIn(K, Count(q)) /\ PlacesIn(P, Count(q))
  BY <1>1 DEF PlacesIn, Kept, KeptPlaces
<1>3. /\ \A i, j \in 1..Count(q) : q.order[i] = q.order[j] => i = j
      /\ \A e \in 1..Count(q) : \E i \in 1..Count(q) : q.order[i] = e
  BY FitIs
<1>4. \A i \in P : q.order[i] \in K /\ i \in 1..Count(q)
  BY DEF KeptPlaces
<1>5. \A e \in K : \E i \in P : q.order[i] = e
  BY <1>3 DEF Kept, KeptPlaces
<1> HIDE DEF K, P
<1>6. f \in Injection(P, K) /\ f \in Surjection(P, K)
  BY <1>3, <1>4, <1>5 DEF Injection, IsInjective, Surjection
<1>7. IsFiniteSet(K) /\ IsFiniteSet(P) /\ Cardinality(K) \in Nat
  BY <1>2, RankType
<1> HIDE DEF f
<1>8. Cardinality(P) = Cardinality(K)
  BY <1>6, <1>7, FS_Injection, Zenon
<1> QED
  BY <1>2, <1>7, <1>8 DEF K, P

\* What the queue is as paths, without some of its entries.
Rebuilt(q, r, gone) ==
  /\ Fit(r) /\ View(r) = At(View(q), KeptPlaces(q, gone)) /\ r.pos = Rank(KeptPlaces(q, gone), q.pos)
  /\ r.rows = <<>> /\ r.custom /\ ~r.stale /\ r.ordered = q.ordered /\ r.revised
  /\ Count(r) = Cardinality(KeptPlaces(q, gone)) /\ Count(r) # 0 /\ Current(r) = Current(q)

LEMMA RebuiltIs ==
  ASSUME NEW q, Fit(q), Count(q) # 0, NEW gone, q.order[q.pos] \notin gone
  PROVE  Rebuilt(q, rebuild_as_paths(q, gone), gone)
<1> DEFINE n == Count(q)
           kept == Kept(q, gone)
           places == KeptPlaces(q, gone)
           c == Cardinality(kept)
           o == q.order
           order == At(o, places)
           added == At(Paths(q), kept)
           pos == IndexIn(order, o[q.pos])
           ranks == [i \in DOMAIN order |-> Rank(kept, order[i])]
           m == Fresh(<<>>, added, TRUE, q.ordered)
           r == Reordered(m, ranks, pos)
<1>1. rebuild_as_paths(q, gone) = r
  BY DEF rebuild_as_paths, Kept, KeptPlaces
<1>2. n \in Nat /\ q.pos \in 1..n
  BY FitPlace, ShapeIs DEF Fit
<1>3. PlacesIn(kept, n) /\ PlacesIn(places, n) /\ c \in Nat /\ Cardinality(places) = c
  BY KeptIs
<1>4. /\ o \in Seq(1..n) /\ Len(o) = n
      /\ \A i, j \in 1..n : o[i] = o[j] => i = j
      /\ \A e \in 1..n : \E i \in 1..n : o[i] = e
      /\ \A i \in 1..n : o[i] \in 1..n
  BY FitIs
<1>5. Paths(q) \in Seq(Tracks) /\ Len(Paths(q)) = n
  BY ShapeIs DEF Fit
<1>6. /\ \A i \in places : i \in 1..n /\ o[i] \in kept
      /\ \A i \in 1..n : o[i] \in kept => i \in places
      /\ \A e \in kept : e \in 1..n
      /\ q.pos \in places
  BY <1>2, <1>4 DEF Kept, KeptPlaces
<1> HIDE DEF n, kept, places, c, o
<1>7. /\ added \in Seq(Tracks) /\ Len(added) = c
      /\ \A k \in 1..c : added[k] = Paths(q)[InOrder(kept)[k]]
  <2> DEFINE s == Paths(q)
  <2>1. s \in Seq(Tracks) /\ PlacesIn(kept, Len(s)) /\ Cardinality(kept) = c
    BY <1>3, <1>5 DEF c
  <2> HIDE DEF s
  <2>2. /\ At(s, kept) \in Seq(Tracks) /\ Len(At(s, kept)) = Cardinality(kept)
        /\ \A k \in 1..Cardinality(kept) : At(s, kept)[k] = s[InOrder(kept)[k]]
    BY <2>1, AtIs
  <2> QED
    BY <2>1, <2>2 DEF s
<1>8. /\ order \in Seq(1..n) /\ Len(order) = c
      /\ \A k \in 1..c : order[k] = o[InOrder(places)[k]]
  <2>1. PlacesIn(places, Len(o))
    BY <1>3, <1>4
  <2> DEFINE T == 1..n
  <2>2. o \in Seq(T)
    BY <1>4
  <2> HIDE DEF T
  <2>3. /\ At(o, places) \in Seq(T) /\ Len(At(o, places)) = Cardinality(places)
        /\ \A k \in 1..Cardinality(places) : At(o, places)[k] = o[InOrder(places)[k]]
    BY <2>1, <2>2, AtIs
  <2> QED
    BY <1>3, <2>3 DEF T
<1>9. \A k \in 1..c : InOrder(places)[k] \in places /\ Rank(places, InOrder(places)[k]) = k
  BY <1>3, InOrderIs
<1>10. \A i \in places : Rank(places, i) \in 1..c /\ InOrder(places)[Rank(places, i)] = i
  BY <1>3, InOrderIs, RankIsOnto
<1>11. /\ \A e \in kept : Rank(kept, e) \in 1..c /\ InOrder(kept)[Rank(kept, e)] = e
       /\ \A k \in 1..c : \E e \in kept : Rank(kept, e) = k
  BY <1>3, InOrderIs, RankIsOnto DEF c
<1> HIDE DEF order, added
<1>12. \A k \in 1..c : order[k] \in kept
  BY <1>6, <1>8, <1>9
<1>13. DOMAIN order = 1..c
  BY <1>8
<1>14. ranks \in [1..c -> 1..c] /\ \A k \in 1..c : ranks[k] = Rank(kept, order[k])
  BY <1>11, <1>12, <1>13
<1> HIDE DEF ranks
<1>15. ranks \in Orders(c)
  <2>1. ASSUME NEW k \in 1..c PROVE \E i \in 1..c : ranks[i] = k
    <3>1. PICK e \in kept : Rank(kept, e) = k
      BY <1>11
    <3>2. PICK i \in 1..n : o[i] = e
      BY <1>4, <1>6
    <3>3. i \in places
      BY <1>6, <3>2
    <3>4. Rank(places, i) \in 1..c /\ order[Rank(places, i)] = e
      BY <1>8, <1>10, <3>2, <3>3
    <3> QED
      BY <1>14, <3>1, <3>4
  <2> QED
    BY <1>14, <2>1 DEF Orders
<1>16. pos = Rank(places, q.pos) /\ pos \in 1..c /\ order[pos] = o[q.pos]
  <2> DEFINE k == Rank(places, q.pos)
             e == o[q.pos]
  <2>1. k \in 1..c /\ order[k] = e
    BY <1>6, <1>8, <1>10
  <2>2. e \in ToSet(order)
    BY <1>13, <2>1 DEF ToSet
  <2> HIDE DEF e, k
  <2>3. IndexIn(order, e) \in 1..Len(order) /\ order[IndexIn(order, e)] = e
    BY <1>8, <2>2, IndexInIs
  <2>4. pos \in 1..c /\ order[pos] = e
    BY <1>8, <2>3 DEF e
  <2> HIDE DEF pos
  <2>5. InOrder(places)[pos] \in 1..n /\ o[InOrder(places)[pos]] = e
    BY <1>6, <1>8, <1>9, <2>4
  <2>6. InOrder(places)[pos] = q.pos
    <3> DEFINE i == InOrder(places)[pos]
    <3>1. i \in 1..n /\ o[i] = o[q.pos]
      BY <2>5 DEF e
    <3> HIDE DEF i
    <3>2. i = q.pos
      BY <1>2, <1>4, <3>1
    <3> QED
      BY <3>2 DEF i
  <2>7. pos = k
    BY <1>9, <2>4, <2>6 DEF k
  <2> QED
    BY <2>4, <2>7 DEF k, e
<1> HIDE DEF pos
<1>17. /\ Shape(m) /\ Count(m) = Len(added) /\ Paths(m) = added /\ ~m.stale
       /\ m.rows = <<>> /\ m.custom = TRUE /\ m.ordered = q.ordered
  <2>1. q.ordered \in BOOLEAN
    BY RecordIs DEF Fit, Shape
  <2> QED
    BY <1>7, <2>1, FreshPaths, Zenon
<1> HIDE DEF m
<1>18. Count(m) = c
  BY <1>7, <1>17
<1>19. Fit(r) /\ Same(m, r) /\ r.revised /\ r.order = ranks /\ r.pos = pos
  <2>1. ranks \in Orders(Count(m)) /\ (pos \in 1..Count(m) \/ (Count(m) = 0 /\ pos = 1))
    BY <1>15, <1>16, <1>18
  <2>2. r = Reordered(m, ranks, pos)
    OBVIOUS
  <2> HIDE DEF r
  <2> QED
    BY <1>17, <2>1, <2>2, DealtFits
<1> HIDE DEF r
<1>20. Count(r) = c /\ Paths(r) = added
  BY <1>17, <1>18, <1>19, SameIs
<1>21. r.rows = <<>> /\ r.custom /\ ~r.stale /\ r.ordered = q.ordered
  BY <1>17, <1>19, Zenon DEF Same
<1>22. /\ View(q) \in Seq(Tracks) /\ Len(View(q)) = n
       /\ \A i \in 1..n : View(q)[i] = Paths(q)[o[i]]
  BY FitIs DEF n, o
<1> DEFINE v == View(q)
<1> HIDE DEF v
<1>23. /\ At(v, places) = [k \in 1..c |-> v[InOrder(places)[k]]]
  BY <1>3 DEF At
<1>24. View(r) = [k \in 1..c |-> added[ranks[k]]]
  BY <1>7, <1>19, <1>20 DEF View
<1>25. ASSUME NEW k \in 1..c PROVE added[ranks[k]] = v[InOrder(places)[k]]
  <2>1. order[k] \in kept /\ ranks[k] = Rank(kept, order[k]) /\ ranks[k] \in 1..c
    BY <1>12, <1>14
  <2>2. InOrder(kept)[ranks[k]] = order[k]
    BY <1>11, <2>1
  <2>3. added[ranks[k]] = Paths(q)[order[k]]
    BY <1>7, <2>1, <2>2
  <2>4. InOrder(places)[k] \in 1..n /\ order[k] = o[InOrder(places)[k]]
    BY <1>6, <1>8, <1>9
  <2>5. v[InOrder(places)[k]] = Paths(q)[o[InOrder(places)[k]]]
    BY <1>22, <2>4 DEF v
  <2> QED
    BY <2>3, <2>4, <2>5
<1>26. View(r) = At(v, places)
  BY <1>23, <1>24, <1>25
<1>27. Count(r) # 0
  BY <1>16, <1>20
<1>28. Current(r) = Current(q)
  <2>1. Current(r) = added[ranks[pos]]
    BY <1>19, <1>20 DEF Current
  <2>2. added[ranks[pos]] = v[InOrder(places)[pos]] /\ InOrder(places)[pos] = q.pos
    BY <1>6, <1>10, <1>16, <1>25
  <2>3. v[q.pos] = Paths(q)[o[q.pos]]
    BY <1>2, <1>22 DEF v
  <2> QED
    BY <2>1, <2>2, <2>3 DEF Current, o
<1>29. Rebuilt(q, r, gone)
  BY <1>3, <1>16, <1>19, <1>20, <1>21, <1>26, <1>27, <1>28, Zenon DEF Rebuilt, places, v, c, kept
<1> QED
  BY <1>1, <1>29, Zenon DEF r, m, pos, ranks, order, added, o, kept, places

\* All of it, when nothing goes.
LEMMA NothingGone ==
  ASSUME NEW q, Fit(q), Count(q) # 0
  PROVE  LET r == rebuild_as_paths(q, {})
         IN  /\ Fit(r) /\ View(r) = View(q) /\ r.pos = q.pos /\ Count(r) = Count(q) /\ r.rows = <<>>
             /\ r.custom /\ ~r.stale /\ r.ordered = q.ordered /\ r.revised
<1> DEFINE r == rebuild_as_paths(q, {})
           P == KeptPlaces(q, {})
           n == Count(q)
<1>1. Rebuilt(q, r, {})
  BY RebuiltIs, Zenon
<1> HIDE DEF r
<1>2. n \in Nat /\ q.pos \in 1..n
  BY FitPlace, ShapeIs DEF Fit
<1>3. \A i \in 1..n : q.order[i] \in 1..n
  BY FitIs
<1>4. P = 1..n
  BY <1>3 DEF KeptPlaces, Kept
<1>5. View(q) \in Seq(Tracks) /\ Len(View(q)) = n
  BY FitIs
<1>6. Fit(r) /\ View(r) = At(View(q), P) /\ r.pos = Rank(P, q.pos) /\ Count(r) = Cardinality(P)
  BY <1>1, Zenon DEF Rebuilt
<1>7. r.rows = <<>> /\ r.custom /\ ~r.stale /\ r.ordered = q.ordered /\ r.revised
  BY <1>1, Zenon DEF Rebuilt
<1> DEFINE v == View(q)
           p == q.pos
<1> HIDE DEF v, n, p, P
<1>8. PlacesIn(P, n) /\ Cardinality(P) = n
  BY <1>2, <1>4, FS_Interval DEF PlacesIn
<1>9. ASSUME NEW k \in 1..n PROVE Rank(P, k) = k
  <2>1. k \in Nat /\ 1..k \subseteq P
    BY <1>2, <1>4
  <2> QED
    BY <1>8, <2>1, RankOfAll
<1>10. \A k \in 1..n : InOrder(P)[k] = k
  BY <1>4, <1>8, <1>9, InOrderIs
<1>11. At(v, P) = [k \in 1..n |-> v[InOrder(P)[k]]]
  BY <1>8 DEF At
<1>12. At(v, P) = v
  BY <1>5, <1>10, <1>11 DEF v, n
<1>13. View(r) = v /\ r.pos = p /\ Count(r) = n
  BY <1>2, <1>6, <1>8, <1>9, <1>12 DEF v, p, P, n
<1> QED
  BY <1>6, <1>7, <1>13, Zenon DEF r, v, p, n

\* What was chosen goes, and the track playing stays.
LEMMA RemovedIs ==
  ASSUME NEW q, Fit(q), Count(q) # 0, NEW slots
  PROVE  LET r == Removed(q, slots)
         IN  /\ Fit(r) /\ View(r) = Without(View(q), slots \ {q.pos}) /\ r.pos = q.pos - Cardinality({i \in slots \cap 1..Count(q) : i < q.pos})
             /\ Count(r) # 0 /\ Current(r) = Current(q) /\ r.ordered = q.ordered
             /\ r = q \/ (r.rows = <<>> /\ r.custom /\ ~r.stale /\ r.revised)
<1> DEFINE n == Count(q)
           p == q.pos
           o == q.order
           out == (slots \cap 1..n) \ {p}
           gone == {o[i] : i \in out}
           P == (1..n) \ (slots \ {p})
           before == {i \in slots \cap 1..n : i < p}
           v == View(q)
           r == Removed(q, slots)
<1>1. n \in Nat /\ p \in 1..n
  BY FitPlace, ShapeIs DEF Fit
<1>2. /\ \A i, j \in 1..n : o[i] = o[j] => i = j
      /\ \A i \in 1..n : o[i] \in 1..n
      /\ v \in Seq(Tracks) /\ Len(v) = n
  BY FitIs
<1>3. KeptPlaces(q, gone) = P
  <2>1. ASSUME NEW i \in 1..n PROVE o[i] \in gone <=> i \in slots \ {p}
    BY <1>2
  <2> QED
    BY <1>2, <2>1 DEF KeptPlaces, Kept
<1>4. p \in P /\ PlacesIn(P, n) /\ DOMAIN v = 1..n
  BY <1>1, <1>2 DEF PlacesIn
<1>5. Without(v, slots \ {p}) = At(v, P)
  BY <1>4 DEF Without
<1>6. r = IF gone = {} THEN q ELSE rebuild_as_paths(q, gone)
  BY DEF Removed
<1>7. o[p] \notin gone
  BY <1>1, <1>2
<1>8. Rank(P, p) = p - Cardinality(before)
  <2> DEFINE A == {j \in P : j <= p}
             B == 1..p
  <2>1. A = B \ before /\ B \cap before = before
    BY <1>1
  <2>2. IsFiniteSet(B) /\ Cardinality(B) = p
    <3> HIDE DEF p, n
    <3>1. p \in Int /\ 1 \in Int /\ p >= 1
      BY <1>1
    <3> QED
      BY <3>1, FS_Interval
  <2> HIDE DEF A, B, before
  <2>3. Cardinality(A) = Cardinality(B) - Cardinality(B \cap before)
    BY <2>1, <2>2, FS_Difference, Zenon
  <2> QED
    BY <2>1, <2>2, <2>3 DEF Rank, A
<1>9. CASE gone # {}
  <2>1. r = rebuild_as_paths(q, gone)
    BY <1>6, <1>9
  <2> HIDE DEF gone, P, r
  <2>2. Rebuilt(q, r, gone)
    BY <1>7, <2>1, RebuiltIs, Zenon DEF o, p
  <2> HIDE DEF v, p, before
  <2>3. Fit(r) /\ View(r) = At(v, P) /\ r.pos = Rank(P, p) /\ Count(r) # 0 /\ Current(r) = Current(q) /\ r.ordered = q.ordered
    BY <1>3, <2>2, Zenon DEF Rebuilt, v, p
  <2>4. r.rows = <<>> /\ r.custom /\ ~r.stale /\ r.revised
    BY <2>2, Zenon DEF Rebuilt
  <2>5. View(r) = Without(v, slots \ {p}) /\ r.pos = p - Cardinality(before)
    BY <1>5, <1>8, <2>3
  <2> QED
    BY <2>3, <2>4, <2>5, Zenon DEF r, v, p, before, n
<1>10. CASE gone = {}
  <2>1. r = q /\ out = {}
    BY <1>6, <1>10
  <2>2. before = {} /\ P = 1..n
    BY <1>1, <2>1
  <2>3. Cardinality(before) = 0
    BY <2>2, FS_EmptySet
  <2>4. Rebuilt(q, rebuild_as_paths(q, {}), {}) /\ View(rebuild_as_paths(q, {})) = v
    BY RebuiltIs, NothingGone, Zenon
  <2>5. KeptPlaces(q, {}) = P
    BY <1>2, <2>2 DEF KeptPlaces, Kept
  <2> HIDE DEF P, r, v, before, p
  <2>6. At(v, P) = v
    BY <2>4, <2>5, Zenon DEF Rebuilt, v
  <2>7. View(q) = Without(v, slots \ {p}) /\ p = p - Cardinality(before)
    BY <1>1, <1>5, <2>3, <2>6 DEF v
  <2> QED
    BY <2>1, <2>7, Zenon DEF r, v, p, before, n
<1> QED
  BY <1>9, <1>10

\* A move of one member of a sequence, as the moves of all of them.
IsDragged(m, T, s, from, to) ==
  m \in Seq(T) /\ Len(m) = Len(s) /\ \A k \in 1..Len(s) : m[MovedTo(k, from, to)] = s[k]

LEMMA Dragging ==
  ASSUME NEW T, NEW s \in Seq(T), NEW from \in 1..Len(s), NEW to \in 1..Len(s)
  PROVE  IsDragged(InsertAt(RemoveAt(s, from), to, s[from]), T, s, from, to)
BY DraggedIs, Zenon DEF IsDragged

\* What a move makes of a queue.
Rearranged(q, r, from, to) ==
  /\ Fit(r) /\ View(r) = InsertAt(RemoveAt(View(q), from), to, View(q)[from])
  /\ r.pos = IndexIn(InsertAt(RemoveAt([i \in 1..Count(q) |-> i], from), to, from), q.pos)
  /\ r.rows = <<>> /\ r.custom /\ ~r.stale /\ r.ordered = q.ordered /\ r.revised
  /\ Count(r) = Count(q) /\ Current(r) = Current(q)

LEMMA MovedIs ==
  ASSUME NEW q, Fit(q), q.rows = <<>>, ~q.stale, NEW from \in 1..Count(q), NEW to \in 1..Count(q)
  PROVE  Rearranged(q, Moved(q, from, to), from, to)
<1> DEFINE n == Count(q)
           o == q.order
           v == View(q)
           p == q.pos
           Places == [i \in 1..n |-> i]
           order == InsertAt(RemoveAt(o, from), to, o[from])
           view == InsertAt(RemoveAt(v, from), to, v[from])
           places == InsertAt(RemoveAt(Places, from), to, from)
           pos == MovedTo(p, from, to)
           r == Moved(q, from, to)
<1>1. q \in QueueRecord /\ Shape(q) /\ n \in Nat /\ p \in 1..n
  <2>1. n \in Nat
    BY ShapeIs DEF Fit
  <2>2. from \in 1..n
    OBVIOUS
  <2>3. n # 0
    <3> HIDE DEF n
    <3> QED
      BY <2>1, <2>2
  <2> QED
    BY <2>1, <2>3, FitPlace DEF Fit, Shape
<1>0. from \in 1..n /\ to \in 1..n
  OBVIOUS
<1>2. /\ o \in Seq(1..n) /\ Len(o) = n
      /\ \A e \in 1..n : \E i \in 1..n : o[i] = e
      /\ v \in Seq(Tracks) /\ Len(v) = n
      /\ \A i \in 1..n : v[i] = Paths(q)[o[i]]
  BY FitIs
<1>3. Places \in Seq(1..n) /\ Len(Places) = n /\ Places[from] = from /\ \A i \in 1..n : Places[i] = i
  BY <1>1
<1>4. IsDragged(order, 1..n, o, from, to) /\ IsDragged(view, Tracks, v, from, to)
  BY <1>2, Dragging, Zenon
<1>5. IsDragged(places, 1..n, Places, from, to)
  BY <1>3, Dragging, Zenon
<1>6. /\ \A k \in 1..n : MovedTo(k, from, to) \in 1..n
      /\ \A k \in 1..n : \E j \in 1..n : MovedTo(j, from, to) = k
      /\ \A j, k \in 1..n : MovedTo(j, from, to) = MovedTo(k, from, to) => j = k
  <2> HIDE DEF n
  <2>1. n \in Nat
    BY <1>1
  <2>2. MovesPlaces(n, from, to)
    BY <1>0, <2>1, MovedToIs
  <2> QED
    BY <2>2 DEF MovesPlaces
<1>7. r = [q EXCEPT !.order = order, !.pos = pos, !.chain = NoChain, !.custom = TRUE, !.revised = TRUE]
  BY <1>1 DEF Moved, QueueRecord
<1> HIDE DEF order, view, places, o, v, p, n, Places
<1>8. /\ order \in Seq(1..n) /\ Len(order) = n /\ \A k \in 1..n : order[MovedTo(k, from, to)] = o[k]
      /\ view \in Seq(Tracks) /\ Len(view) = n /\ \A k \in 1..n : view[MovedTo(k, from, to)] = v[k]
      /\ places \in Seq(1..n) /\ Len(places) = n /\ \A k \in 1..n : places[MovedTo(k, from, to)] = k
  BY <1>2, <1>3, <1>4, <1>5 DEF IsDragged
<1>9. order \in Orders(n)
  <2>1. order \in [1..n -> 1..n]
    BY <1>8
  <2>2. ASSUME NEW e \in 1..n PROVE \E i \in 1..n : order[i] = e
    <3>1. PICK k \in 1..n : o[k] = e
      BY <1>2
    <3> QED
      BY <1>6, <1>8, <3>1
  <2> QED
    BY <2>1, <2>2 DEF Orders
<1>10. pos \in 1..n
  BY <1>1, <1>6
<1>11. pos = IndexIn(places, p)
  <2>1. places[pos] = p
    BY <1>1, <1>8
  <2>2. p \in ToSet(places)
    BY <1>8, <1>10, <2>1 DEF ToSet
  <2> DEFINE j == IndexIn(places, p)
  <2>3. j \in 1..n /\ places[j] = p
    BY <1>8, <2>2, IndexInIs
  <2> HIDE DEF j, pos
  <2>4. PICK k \in 1..n : MovedTo(k, from, to) = j
    BY <1>6, <2>3
  <2>5. k = p
    BY <1>8, <2>3, <2>4
  <2> QED
    BY <2>4, <2>5 DEF j, pos
<1> HIDE DEF pos
<1>12. order \in Seq(Nat) /\ pos \in Nat /\ NoChain \in [from : Nat, slot : Nat]
  <2>1. 1..n \subseteq Nat
    BY <1>1
  <2>2. order \in Seq(Nat)
    BY <1>8, <2>1, SeqMonotonic, Zenon
  <2>3. NoChain \in [from : Nat, slot : Nat]
    BY DEF NoChain
  <2> QED
    BY <1>1, <1>10, <2>2, <2>3
<1> HIDE DEF r
<1>13. r \in QueueRecord
  BY <1>1, <1>7, <1>12 DEF QueueRecord
<1>14. r.rows = q.rows /\ r.added = q.added
  BY <1>1, <1>7 DEF QueueRecord
<1>15. r.order = order
  BY <1>1, <1>7 DEF QueueRecord
<1>16. r.pos = pos
  BY <1>1, <1>7 DEF QueueRecord
<1>17. r.custom
  BY <1>1, <1>7 DEF QueueRecord
<1>18. r.stale = q.stale
  BY <1>1, <1>7 DEF QueueRecord
<1>19. r.ordered = q.ordered
  BY <1>1, <1>7 DEF QueueRecord
<1>20. r.revised
  BY <1>1, <1>7 DEF QueueRecord
<1>21. Shape(r)
  BY <1>1, <1>13, <1>14, <1>17, <1>18, Zenon DEF Shape
<1>22. Count(r) = n /\ Paths(r) = Paths(q)
  BY <1>14 DEF Count, Paths, n
<1>23. Fit(r)
  BY <1>9, <1>10, <1>15, <1>16, <1>21, <1>22 DEF Fit
<1>24. /\ View(r) \in Seq(Tracks) /\ Len(View(r)) = n /\ \A i \in 1..n : View(r)[i] = Paths(q)[order[i]]
  BY <1>15, <1>22, <1>23, FitIs
<1> DEFINE w == View(r)
<1> HIDE DEF w
<1>25. ASSUME NEW i \in 1..n PROVE w[i] = view[i]
  <2>1. PICK k \in 1..n : MovedTo(k, from, to) = i
    BY <1>6
  <2>2. order[i] = o[k] /\ view[i] = v[k]
    BY <1>8, <2>1
  <2> QED
    <3>1. w[i] = Paths(q)[order[i]]
      BY <1>24 DEF w
    <3>2. v[k] = Paths(q)[o[k]]
      BY <1>2
    <3> QED
      BY <2>2, <3>1, <3>2
<1>26. w \in Seq(Tracks) /\ Len(w) = n
  BY <1>24 DEF w
<1>27. w = view
  BY <1>8, <1>25, <1>26, SeqEqual
<1>28. Current(r) = Current(q)
  <2>1. Current(r) = Paths(q)[order[pos]]
    BY <1>15, <1>16, <1>22 DEF Current
  <2>2. order[pos] = o[p]
    BY <1>1, <1>8 DEF pos
  <2> QED
    BY <2>1, <2>2 DEF Current, o, p
<1>29. r.rows = <<>> /\ r.custom /\ ~r.stale /\ r.ordered = q.ordered /\ r.revised
  BY <1>14, <1>17, <1>18, <1>19, <1>20, Zenon
<1>30. View(r) = view /\ r.pos = IndexIn(places, p)
  BY <1>11, <1>16, <1>27 DEF w
<1>31. Rearranged(q, r, from, to)
  BY <1>22, <1>23, <1>28, <1>29, <1>30, Zenon DEF Rearranged, view, places, Places, v, p, n
<1> QED
  BY <1>31 DEF r

\* In whatever form the queue is.
LEMMA MovedEntryIs ==
  ASSUME NEW q, Fit(q), ~q.stale, NEW from \in 1..Count(q), NEW to \in 1..Count(q)
  PROVE  Rearranged(q, MovedEntry(q, from, to), from, to)
<1>1. CASE q.rows = <<>>
  <2>1. MovedEntry(q, from, to) = Moved(q, from, to)
    BY <1>1 DEF MovedEntry
  <2> QED
    BY <1>1, <2>1, MovedIs, Zenon
<1>2. CASE q.rows # <<>>
  <2> DEFINE m == rebuild_as_paths(q, {})
  <2>1. MovedEntry(q, from, to) = Moved(m, from, to)
    BY <1>2 DEF MovedEntry
  <2>2. Count(q) # 0
    BY <1>2, RowsAreCustom
  <2>3. Fit(m) /\ View(m) = View(q) /\ m.pos = q.pos /\ Count(m) = Count(q) /\ m.rows = <<>> /\ ~m.stale /\ m.ordered = q.ordered
    BY <2>2, NothingGone, Zenon
  <2>4. Rebuilt(q, m, {})
    BY <2>2, RebuiltIs, Zenon
  <2> HIDE DEF m
  <2>5. Current(m) = Current(q)
    BY <2>4, Zenon DEF Rebuilt
  <2>6. from \in 1..Count(m) /\ to \in 1..Count(m)
    BY <2>3
  <2> QED
    <3>1. Rearranged(m, Moved(m, from, to), from, to)
      BY <2>3, <2>6, MovedIs, Zenon
    <3> QED
      BY <2>1, <2>3, <2>5, <3>1, Zenon DEF Rearranged
<1> QED
  BY <1>1, <1>2

-----------------------------------------------------------------------------
(* What goes back behind a library list, one after the other.  Induction is *)
(* over a set of naturals: the least one outside it would have a            *)
(* predecessor inside.                                                      *)

LEMMA Smallest == ASSUME NEW S \in SUBSET Nat, S /= {} PROVE \E n \in S : \A k \in S : n <= k
  <1> DEFINE Below == {ss \in Nat \X Nat : ss[1] < ss[2]}
  <1>1. IsWellFoundedOn(Below, Nat)
    BY NatLessThanWellFounded, Zenon DEF OpToRel
  <1>2. \A k, n \in Nat : k < n => <<k, n>> \in Below
    OBVIOUS
  <1> HIDE DEF Below
  <1>3. PICK n \in S : \A k \in S : <<k, n>> \notin Below
    BY <1>1, WFMin, Zenon
  <1>4. \A k \in S : ~(k < n)
    BY <1>2, <1>3, Zenon
  <1> QED
    BY <1>4

\* A set with zero in it, and with each number the next, has every natural in it.
LEMMA Induction == ASSUME NEW S, 0 \in S, \A n \in Nat : n \in S => n + 1 \in S PROVE Nat \subseteq S
  <1> SUFFICES ASSUME Nat \ S /= {} PROVE FALSE
    OBVIOUS
  <1>1. PICK n \in Nat \ S : \A k \in Nat \ S : n <= k
    BY Smallest
  <1>2. n - 1 \in Nat /\ n - 1 \notin S
    BY <1>1
  <1> QED
    BY <1>1, <1>2

\* The function that WithExtra is the end of exists.
LEMMA WithExtraIsDefined ==
  ASSUME NEW q, NEW extra, Len(extra) \in Nat
  PROVE  \E with : /\ with = [n \in 0..Len(extra) |->
                                IF n = 0 THEN q ELSE InsertedAt(with[n - 1], extra[n].path, extra[n].slot)]
                   /\ WithExtra(q, extra) = with[Len(extra)]
<1> DEFINE Step(n, before) == InsertedAt(before, extra[n].path, extra[n].slot)
           Upto(m, with) == with = [n \in 0..m |-> IF n = 0 THEN q ELSE Step(n, with[n - 1])]
           Good == {m \in Nat : \E with : Upto(m, with)}
           with[n \in 0..Len(extra)] ==
             IF n = 0 THEN q ELSE InsertedAt(with[n - 1], extra[n].path, extra[n].slot)
<1>1. 0 \in Good
  <2>1. Upto(0, [n \in 0..0 |-> q])
    OBVIOUS
  <2> QED
    BY <2>1
<1>2. ASSUME NEW m \in Nat, m \in Good PROVE m + 1 \in Good
  <2>1. PICK f : Upto(m, f)
    BY <1>2
  <2> HIDE DEF Step
  <2> DEFINE g == [n \in 0..(m + 1) |-> IF n = m + 1 THEN Step(n, f[m]) ELSE f[n]]
  <2>2. \A n \in 0..m : f[n] = IF n = 0 THEN q ELSE Step(n, f[n - 1])
    BY <2>1
  <2>3. \A n \in 0..(m + 1) : g[n] = IF n = 0 THEN q ELSE Step(n, g[n - 1])
    BY <2>2
  <2>4. \E h : Upto(m + 1, h)
    BY <2>3
  <2> HIDE DEF Upto
  <2> QED
    BY <2>4
<1>3. \E f : Upto(Len(extra), f)
  BY <1>1, <1>2, Induction
<1>4. Upto(Len(extra), with)
  BY <1>3
<1>5. WithExtra(q, extra) = with[Len(extra)]
  BY DEF WithExtra
<1> HIDE DEF with
<1> QED
  BY <1>4, <1>5

\* Each addition is one: whatever holds of the queue before, and stays with
\* each addition, holds after all of them.
LEMMA WithExtraSteps ==
  ASSUME NEW q, NEW extra \in Seq(Extra)
  PROVE  \E with : /\ with[0] = q /\ WithExtra(q, extra) = with[Len(extra)]
                   /\ \A n \in 1..Len(extra) : with[n] = InsertedAt(with[n - 1], extra[n].path, extra[n].slot)
<1>1. Len(extra) \in Nat
  OBVIOUS
<1>2. PICK with : /\ with = [n \in 0..Len(extra) |->
                               IF n = 0 THEN q ELSE InsertedAt(with[n - 1], extra[n].path, extra[n].slot)]
                  /\ WithExtra(q, extra) = with[Len(extra)]
  BY <1>1, WithExtraIsDefined
<1>3. \A n \in 0..Len(extra) : with[n] = IF n = 0 THEN q ELSE InsertedAt(with[n - 1], extra[n].path, extra[n].slot)
  BY <1>2, Zenon
<1> QED
  BY <1>1, <1>2, <1>3

LEMMA WithExtraFits ==
  ASSUME NEW q, Fit(q), Count(q) # 0, NEW extra \in Seq(Extra)
  PROVE  Fit(WithExtra(q, extra)) /\ Count(WithExtra(q, extra)) # 0
<1>1. PICK with : /\ with[0] = q /\ WithExtra(q, extra) = with[Len(extra)]
                  /\ \A n \in 1..Len(extra) : with[n] = InsertedAt(with[n - 1], extra[n].path, extra[n].slot)
  BY WithExtraSteps
<1> DEFINE Fine(r) == Fit(r) /\ Count(r) # 0
           Good == {n \in Nat : n <= Len(extra) => Fine(with[n])}
<1>2. \A r : \A e \in Extra : Fine(r) => Fine(InsertedAt(r, e.path, e.slot))
  <2> TAKE r
  <2> TAKE e \in Extra
  <2> HAVE Fine(r)
  <2> DEFINE t == e.path
             slot == e.slot
             s == InsertedAt(r, t, slot)
  <2>1. t \in Tracks /\ slot \in Nat \ {0}
    BY DEF Extra
  <2> HIDE DEF t, slot, s
  <2>2. Added(r, s, t, Least(slot, Count(r) + 1))
    BY <2>1, InsertedAtIs, Zenon DEF s
  <2>3. Fit(s) /\ Count(s) = Count(r) + 1 /\ Count(r) \in Nat
    BY <2>2, ShapeIs DEF Added, Fit
  <2>4. Fine(s)
    BY <2>3
  <2> QED
    BY <2>4 DEF s, t, slot
<1>3. Len(extra) \in Nat /\ \A n \in 1..Len(extra) : extra[n] \in Extra
  OBVIOUS
<1>4. Fine(with[0])
  BY <1>1
<1> HIDE DEF Fine
<1>5. 0 \in Good
  BY <1>4
<1>6. ASSUME NEW n \in Nat, n \in Good PROVE n + 1 \in Good
  <2>1. CASE n + 1 <= Len(extra)
    <3>1. n + 1 \in 1..Len(extra) /\ (n + 1) - 1 = n /\ n <= Len(extra)
      BY <1>3, <2>1
    <3>2. with[n + 1] = InsertedAt(with[n], extra[n + 1].path, extra[n + 1].slot)
      BY <1>1, <3>1
    <3>3. Fine(with[n]) /\ extra[n + 1] \in Extra
      BY <1>3, <1>6, <3>1
    <3>4. Fine(with[n + 1])
      BY <1>2, <3>2, <3>3, Zenon
    <3> QED
      BY <3>4
  <2>2. CASE ~(n + 1 <= Len(extra))
    BY <2>2
  <2> QED
    BY <2>1, <2>2
<1>7. Len(extra) \in Good
  BY <1>3, <1>5, <1>6, Induction
<1> QED
  BY <1>1, <1>3, <1>7 DEF Fine

-----------------------------------------------------------------------------
(* Walking.                                                                 *)

LEMMA ForwardIs ==
  ASSUME NEW q, Fit(q), Count(q) # 0
  PROVE  /\ Fit(Forward(q)) /\ View(Forward(q)) = View(q) /\ Same(q, Forward(q)) /\ Count(Forward(q)) = Count(q)
         /\ Forward(q).pos = IF AtEnd(q) THEN 1 ELSE q.pos + 1
<1> DEFINE n == Count(q)
           p == q.pos
           i == (p % n) + 1
           r == Forward(q)
<1>1. n \in Nat /\ p \in 1..n
  BY FitPlace, ShapeIs DEF Fit
<1>2. r = Placed(q, i)
  BY DEF Forward, Placed
<1>3. i = IF p >= n THEN 1 ELSE p + 1
  <2> HIDE DEF n, p
  <2>1. n \in Nat \ {0}
    BY <1>1
  <2>2. p >= n => p = n
    BY <1>1
  <2>3. n % n = 0
    BY <2>1
  <2>4. p < n => p % n = p
    BY <1>1, <2>1
  <2> QED
    BY <1>1, <2>2, <2>3, <2>4
<1> HIDE DEF n, p, i
<1>4. i \in 1..n
  BY <1>1, <1>3
<1> HIDE DEF r
<1>5. Fit(r) /\ View(r) = View(q) /\ Same(q, r) /\ r.pos = i
  BY <1>2, <1>4, PlacedFits DEF n
<1>6. Count(r) = Count(q)
  BY <1>5, SameIs
<1> QED
  BY <1>3, <1>5, <1>6 DEF r, n, p, AtEnd

LEMMA BackFits ==
  ASSUME NEW q, Fit(q), Count(q) # 0
  PROVE  Fit(Back(q))
<1> DEFINE n == Count(q)
           p == q.pos
           i == IF p = 1 THEN n ELSE p - 1
<1>1. n \in Nat /\ p \in 1..n
  BY FitPlace, ShapeIs DEF Fit
<1>2. Back(q) = Placed(q, i)
  BY DEF Back, Placed
<1> HIDE DEF n, p
<1>3. i \in 1..n
  BY <1>1
<1> HIDE DEF i
<1> QED
  BY <1>2, <1>3, PlacedFits DEF n

\* The folder beside the one played from is a folder, if there is one.
LEMMA BesideIs ==
  ASSUME NEW q, NEW folder \in [Folders -> Folders \cup {<<>>}], loaded \in Tracks \cup {NoTrack}
  PROVE  Beside(q, folder) # <<>> =>
           Beside(q, folder) \in Folders /\ Beside(q, folder) \in Seq(Tracks) \ {<<>>} /\ ~q.custom
<1> SUFFICES ASSUME Beside(q, folder) # <<>>
             PROVE  Beside(q, folder) \in Folders /\ Beside(q, folder) \in Seq(Tracks) \ {<<>>} /\ ~q.custom
  OBVIOUS
<1>1. ~q.custom /\ loaded # NoTrack
  BY Zenon DEF Beside
<1>2. Beside(q, folder) = folder[FolderOf(loaded)]
  BY <1>1, Zenon DEF Beside
<1>3. loaded \in Tracks
  BY <1>1
<1>4. FolderOf(loaded) \in Folders
  BY <1>3, FolderOfIs
<1>5. Beside(q, folder) \in Folders
  BY <1>2, <1>4
<1> QED
  BY <1>1, <1>5, FoldersAssumption

\* A folder from its beginning, or from its end.
LEMMA FolderBesideFits ==
  ASSUME NEW folder \in Folders
  PROVE  /\ \A r \in FolderBeside(folder) : Fit(r) /\ Count(r) # 0 /\ Loaded(r, folder, 1)
         /\ \A r \in OnLast(FolderBeside(folder)) : Fit(r)
<1>1. folder \in Seq(Tracks) /\ Len(folder) # 0
  BY FoldersAssumption
<1>2. ASSUME NEW r \in FolderBeside(folder) PROVE Fit(r) /\ Count(r) # 0 /\ Loaded(r, folder, 1)
  <2>1. r \in playlist_load_folder(folder, 1) /\ 1 \in Nat \ {0}
    BY DEF FolderBeside
  <2>2. Loaded(r, folder, 1)
    BY <1>1, <2>1, LoadFolder, Zenon
  <2> QED
    BY <1>1, <2>2 DEF Loaded
<1>3. ASSUME NEW r \in OnLast(FolderBeside(folder)) PROVE Fit(r)
  <2>1. PICK q \in FolderBeside(folder) : r = [q EXCEPT !.pos = Count(q)]
    BY DEF OnLast
  <2>2. Fit(q) /\ Count(q) # 0
    BY <1>2
  <2>3. r = Placed(q, Count(q))
    BY <2>1 DEF Placed
  <2>4. Count(q) \in 1..Count(q)
    <3> DEFINE n == Count(q)
    <3>1. n \in Nat /\ n # 0
      BY <2>2, ShapeIs DEF Fit
    <3> HIDE DEF n
    <3>2. n \in 1..n
      BY <3>1
    <3> QED
      BY <3>2 DEF n
  <2> QED
    BY <2>2, <2>3, <2>4, PlacedFits
<1> QED
  BY <1>2, <1>3

LEMMA WalksFit ==
  ASSUME NEW q, Fit(q), loaded \in Tracks \cup {NoTrack}
  PROVE  /\ \A r \in AdvancedNext(q) \cup AdvancedAuto(q) : Fit(r)
         /\ \A r \in Onward(q) : Fit(r)
         /\ \A r \in Backward(q) : Fit(r)
         /\ \A r \in AfterTheEnd(q) : Fit(r)
<1>1. ASSUME NEW r \in AdvancedNext(q) \cup AdvancedAuto(q) PROVE Fit(r)
  <2>1. Count(q) # 0
    BY DEF AdvancedNext, AdvancedAuto
  <2>2. r \in order_shuffle_round(q) \/ r = Forward(q) \/ r = q
    BY DEF AdvancedNext, AdvancedAuto
  <2>3. Shape(q)
    BY DEF Fit
  <2>4. ASSUME r \in order_shuffle_round(q) PROVE Fit(r)
    BY <2>3, <2>4, ShuffledFits
  <2> QED
    BY <2>1, <2>2, <2>4, ForwardIs
<1>2. ASSUME NEW folder \in {NextFolder, PrevFolder}, Beside(q, folder) # <<>>
      PROVE  Beside(q, folder) \in Folders
  BY <1>2, BesideIs, FoldersAssumption
<1>3. ASSUME NEW r \in Onward(q) PROVE Fit(r)
  BY <1>1, <1>2, FolderBesideFits DEF Onward
<1>4. ASSUME NEW r \in Backward(q) PROVE Fit(r)
  <2>1. CASE Beside(q, PrevFolder) # <<>> /\ r \in OnLast(FolderBeside(Beside(q, PrevFolder)))
    BY <1>2, <2>1, FolderBesideFits
  <2>2. CASE Count(q) # 0 /\ r = Back(q)
    BY <2>2, BackFits
  <2> QED
    BY <2>1, <2>2 DEF Backward
<1>5. ASSUME NEW r \in AfterTheEnd(q) PROVE Fit(r)
  BY <1>1, <1>2, FolderBesideFits DEF AfterTheEnd
<1> QED
  BY <1>1, <1>3, <1>4, <1>5

\* Put back on the track that is loaded.
LEMMA ResyncedFits ==
  ASSUME NEW p, Fit(p), loaded \in Tracks, NEW q \in Resynced(p)
  PROVE  Fit(q)
<1>1. q = p \/ q = playlist_locate(p, loaded) \/ q \in FolderQueue(loaded)
  BY DEF Resynced
<1>2. ASSUME q = playlist_locate(p, loaded) PROVE Fit(q)
  BY <1>2, LocateFits
<1>3. ASSUME q \in FolderQueue(loaded) PROVE Fit(q)
  BY <1>3, FolderQueueIs
<1> QED
  BY <1>1, <1>2, <1>3

LEMMA ResyncFits ==
  ASSUME Fit(queue), library \in Seq(Tracks), loaded \in Tracks \cup {NoTrack},
         NEW q \in playlist_resync_to_current(queue)
  PROVE  Fit(q)
<1>1. CASE loaded = NoTrack
  BY <1>1 DEF playlist_resync_to_current
<1>2. CASE loaded # NoTrack
  <2>1. PICK p \in refresh_stale_source(queue) : q \in Resynced(p)
    BY <1>2 DEF playlist_resync_to_current
  <2>2. Fit(p)
    BY RefreshIs
  <2> QED
    BY <1>2, <2>1, <2>2, ResyncedFits
<1> QED
  BY <1>1, <1>2

-----------------------------------------------------------------------------
(* The queue is well-formed, and what is on the card can be read.           *)

QueueInv ==
  /\ Fit(queue) /\ saved \in SavedTypes
  /\ mode \in Modes /\ library \in Lists
  /\ loaded \in Tracks \cup {NoTrack} /\ recalled \in Tracks \cup {NoTrack}

LEMMA LibraryIs ==
  ASSUME QueueInv
  PROVE  library \in Seq(Tracks) /\ \A i, j \in 1..Len(library) : library[i] = library[j] => i = j
<1>1. library \in Seq(Tracks) /\ Distinct(library)
  BY ListsAssumption DEF QueueInv
<1>2. DOMAIN library = 1..Len(library)
  BY <1>1
<1> QED
  BY <1>1, <1>2 DEF Distinct

\* However the queue was written down.
LEMMA PersistKeeps ==
  ASSUME QueueInv, NEW q, Fit(q), queue_persist(q), UNCHANGED <<mode, library, loaded, recalled>>
  PROVE  QueueInv'
<1>1. Fit(queue') /\ saved' \in SavedTypes
  BY PersistIs DEF QueueInv
<1> QED
  BY <1>1 DEF QueueInv

LEMMA PlaysOn ==
  ASSUME QueueInv, NEW qs, \A q \in qs : Fit(q), LoadAndPlay(qs)
  PROVE  QueueInv'
<1>1. PICK q \in qs : \E r \in refresh_stale_source(q) :
         /\ queue_persist(r)
         /\ IF Count(r) > 0 THEN loaded' = Current(r) ELSE UNCHANGED loaded
  BY DEF LoadAndPlay
<1>2. PICK r \in refresh_stale_source(q) :
         /\ queue_persist(r)
         /\ IF Count(r) > 0 THEN loaded' = Current(r) ELSE UNCHANGED loaded
  BY <1>1
<1>3. Fit(r)
  BY LibraryIs, RefreshIs
<1>4. Fit(queue') /\ saved' \in SavedTypes
  BY <1>2, <1>3, PersistIs DEF QueueInv
<1>5. ASSUME Count(r) > 0 PROVE Current(r) \in Tracks
  <2>1. Count(r) # 0
    BY <1>5
  <2> QED
    BY <1>3, <2>1, FitPlace
<1>6. loaded' \in Tracks \cup {NoTrack}
  BY <1>2, <1>5 DEF QueueInv
<1>7. UNCHANGED <<mode, library, recalled>>
  BY DEF LoadAndPlay
<1> QED
  BY <1>4, <1>6, <1>7 DEF QueueInv

LEMMA GoesKeeps ==
  ASSUME QueueInv, NEW q, Fit(q), NEW qs, \A r \in qs : Fit(r), Goes(q, qs)
  PROVE  QueueInv'
<1>1. CASE LoadAndPlay(qs)
  BY <1>1, PlaysOn
<1>2. CASE Stops(q)
  BY <1>2 DEF Stops, QueueInv
<1> QED
  BY <1>1, <1>2 DEF Goes

LEMMA EditsKeep == ASSUME QueueInv, Edit PROVE QueueInv'
<1>1. Fit(queue) /\ library \in Seq(Tracks)
  BY LibraryIs DEF QueueInv
<1>2. ASSUME NEW t \in Addable, playlist_insert_next(t) PROVE QueueInv'
  <2>1. t \in Tracks /\ 1 \in Nat \ {0}
    BY ListsAssumption
  <2>2. Fit(InsertedNext(queue, t))
    BY <1>1, <2>1, InsertionsFit
  <2> QED
    BY <1>2, <2>2, PersistKeeps DEF playlist_insert_next
<1>3. ASSUME NEW t \in Addable, NEW i \in 1..(Count(queue) + 1), playlist_insert_at(t, i) PROVE QueueInv'
  <2>1. t \in Tracks /\ i \in Nat \ {0}
    <3>1. Count(queue) \in Nat
      BY <1>1, ShapeIs DEF Fit
    <3> QED
      BY <3>1, ListsAssumption
  <2>2. Fit(InsertedAt(queue, t, i))
    BY <1>1, <2>1, InsertionsFit
  <2> QED
    BY <1>3, <2>2, PersistKeeps DEF playlist_insert_at
<1>4. ASSUME NEW slots, playlist_remove(slots) PROVE QueueInv'
  <2>1. PICK q \in refresh_stale_source(queue) :
           LET r == Removed(q, slots)
           IN  IF r = q THEN queue' = q /\ UNCHANGED saved ELSE queue_persist(r)
    BY <1>4 DEF playlist_remove
  <2> DEFINE r == Removed(q, slots)
  <2>2. Fit(q)
    BY <1>1, RefreshIs
  <2>3. Fit(r)
    <3>1. CASE Count(q) # 0
      BY <2>2, <3>1, RemovedIs, Zenon
    <3>2. CASE Count(q) = 0
      <4>1. slots \cap 1..Count(q) = {}
        BY <3>2
      <4>2. r = q
        BY <4>1 DEF Removed
      <4> QED
        BY <2>2, <4>2
    <3> QED
      BY <3>1, <3>2
  <2>4. UNCHANGED <<mode, library, loaded, recalled>>
    BY <1>4 DEF playlist_remove
  <2>5. CASE r = q
    BY <2>1, <2>2, <2>4, <2>5 DEF QueueInv
  <2>6. CASE queue_persist(r)
    <3> HIDE DEF r
    <3> QED
      BY <2>3, <2>4, <2>6, PersistKeeps
  <2> QED
    BY <2>1, <2>5, <2>6
<1>5. ASSUME NEW i \in 1..Count(queue), NEW j \in 1..Count(queue), playlist_move(i, j) PROVE QueueInv'
  <2>1. UNCHANGED <<mode, library, loaded, recalled>>
    BY <1>5 DEF playlist_move
  <2>2. ASSUME NEW q \in refresh_stale_source(queue), queue_persist(q) PROVE QueueInv'
    <3>1. Fit(q)
      BY <1>1, RefreshIs
    <3> QED
      BY <2>1, <2>2, <3>1, PersistKeeps
  <2>3. ASSUME ~queue.stale, queue_persist(MovedEntry(queue, i, j)) PROVE QueueInv'
    <3>1. Rearranged(queue, MovedEntry(queue, i, j), i, j)
      BY <1>1, <2>3, MovedEntryIs, Zenon
    <3>2. Fit(MovedEntry(queue, i, j))
      BY <3>1, Zenon DEF Rearranged
    <3> QED
      BY <2>1, <2>3, <3>2, PersistKeeps
  <2> QED
    BY <1>5, <2>2, <2>3 DEF playlist_move
<1>6. ASSUME NEW m \in Modes, playlist_set_mode(m) PROVE QueueInv'
  <2>1. queue' \in apply_mode_change(mode, m) /\ mode' = m /\ UNCHANGED <<library, loaded, saved, recalled>>
    BY <1>6 DEF playlist_set_mode
  <2>2. \/ queue' = queue
        \/ queue' \in order_shuffle_upcoming(queue)
        \/ Count(queue) # 0 /\ queue' = order_identity(queue, queue.order[queue.pos])
    BY <2>1 DEF apply_mode_change
  <2>3. ASSUME queue' \in order_shuffle_upcoming(queue) PROVE Fit(queue')
    BY <1>1, <2>3, UpcomingFits
  <2>4. ASSUME Count(queue) # 0, queue' = order_identity(queue, queue.order[queue.pos]) PROVE Fit(queue')
    <3> DEFINE e == queue.order[queue.pos]
    <3>1. queue.pos \in 1..Count(queue) /\ Count(queue) \in Nat /\ Shape(queue)
      BY <1>1, <2>4, FitPlace, ShapeIs DEF Fit
    <3>2. e \in 1..Count(queue)
      BY <1>1, <3>1, FitIs
    <3> HIDE DEF e
    <3>3. e \in Nat \ {0}
      BY <3>1, <3>2
    <3>4. Fit(order_identity(queue, e))
      BY <3>1, <3>3, IdentityIs, Zenon
    <3> QED
      BY <2>4, <3>4 DEF e
  <2>5. Fit(queue')
    BY <1>1, <2>2, <2>3, <2>4
  <2> QED
    BY <2>1, <2>5 DEF QueueInv
<1> QED
  BY <1>2, <1>3, <1>4, <1>5, <1>6 DEF Edit

LEMMA WalksKeep == ASSUME QueueInv, Walk PROVE QueueInv'
<1>1. Fit(queue) /\ library \in Seq(Tracks) /\ loaded \in Tracks \cup {NoTrack}
  BY LibraryIs DEF QueueInv
<1>2. ASSUME NEW q \in playlist_resync_to_current(queue), NEW qs \in {Onward(q), Backward(q), AfterTheEnd(q)},
             Goes(q, qs)
      PROVE  QueueInv'
  <2>1. Fit(q)
    BY <1>1, ResyncFits
  <2>2. \A r \in qs : Fit(r)
    BY <1>1, <2>1, WalksFit
  <2> QED
    BY <1>2, <2>1, <2>2, GoesKeeps
<1>3. ASSUME NEW i \in 1..Count(queue), device_state_play_queue_index(i) PROVE QueueInv'
  <2>1. LoadAndPlay({Placed(queue, i)})
    BY <1>3 DEF device_state_play_queue_index, Placed
  <2>2. Fit(Placed(queue, i))
    BY <1>1, PlacedFits
  <2> DEFINE qs == {Placed(queue, i)}
  <2>3. \A q \in qs : Fit(q)
    BY <2>2
  <2> HIDE DEF qs
  <2> QED
    BY <2>1, <2>3, PlaysOn DEF qs
<1> QED
  BY <1>2, <1>3 DEF Walk, device_state_next, device_state_prev, device_state_advance_auto

LEMMA LoadsKeep == ASSUME QueueInv, Load PROVE QueueInv'
<1>1. library \in Seq(Tracks)
  BY LibraryIs
<1>2. ASSUME NEW t \in Tracks, device_state_play_file(t) PROVE QueueInv'
  <2>1. \A q \in FolderQueue(t) : Fit(q)
    BY FolderQueueIs
  <2> QED
    BY <1>2, <2>1, PlaysOn DEF device_state_play_file
<1>3. ASSUME NEW l \in Given, NEW i \in DOMAIN l,
             device_state_play_list(l, i) \/ device_state_play_list_ordered(l, i)
      PROVE  QueueInv'
  <2>1. l \in Seq(Tracks) /\ i \in Nat \ {0}
    BY ListsAssumption
  <2>2. \A q \in playlist_load_paths(l, i) : Fit(q)
    BY <2>1, LoadPaths DEF Loaded
  <2>3. Fit(playlist_load_paths_ordered(l, i))
    BY <2>1, LoadPathsOrdered, Zenon DEF Loaded
  <2> DEFINE qs == {playlist_load_paths_ordered(l, i)}
  <2>4. \A q \in qs : Fit(q)
    BY <2>3
  <2>5. LoadAndPlay(playlist_load_paths(l, i)) \/ LoadAndPlay(qs)
    BY <1>3 DEF device_state_play_list, device_state_play_list_ordered
  <2> HIDE DEF qs
  <2> QED
    BY <2>2, <2>4, <2>5, PlaysOn
<1>4. ASSUME NEW i \in DOMAIN library, device_state_play_index(i) PROVE QueueInv'
  <2>1. i \in Nat \ {0}
    BY <1>1
  <2>2. \A q \in playlist_load_index(library, i) : Fit(q)
    BY <1>1, <2>1, LoadIndex DEF Loaded
  <2> QED
    BY <1>4, <2>2, PlaysOn DEF device_state_play_index
<1> QED
  BY <1>2, <1>3, <1>4 DEF Load

\* A queue of paths under another name: a folder, or a list somebody made.
Named(q, custom) == [q EXCEPT !.custom = custom]

LEMMA NamedIs ==
  ASSUME NEW q, Fit(q), q.rows = <<>>, ~q.ordered, NEW custom \in BOOLEAN
  PROVE  LET r == Named(q, custom)
         IN  /\ Fit(r) /\ View(r) = View(q) /\ Count(r) = Count(q) /\ r.custom = custom /\ r.pos = q.pos
             /\ r.rows = <<>> /\ ~r.ordered
<1> DEFINE r == Named(q, custom)
<1>1. q \in QueueRecord /\ Shape(q)
  BY DEF Fit, Shape
<1>2. r \in QueueRecord
  BY <1>1 DEF QueueRecord, Named
<1>3. r.rows = q.rows /\ r.added = q.added
  BY <1>1 DEF QueueRecord, Named
<1>4. r.order = q.order /\ r.pos = q.pos
  BY <1>1 DEF QueueRecord, Named
<1>5. r.stale = q.stale
  BY <1>1 DEF QueueRecord, Named
<1>6. r.ordered = q.ordered
  BY <1>1 DEF QueueRecord, Named
<1>7. r.custom = custom
  BY <1>1 DEF QueueRecord, Named
<1> HIDE DEF r
<1>8. Shape(r) /\ Count(r) = Count(q) /\ Paths(r) = Paths(q)
  BY <1>1, <1>2, <1>3, <1>5, <1>6, Zenon DEF Shape, Count, Paths
<1>9. Fit(r) /\ View(r) = View(q)
  BY <1>4, <1>8 DEF Fit, View
<1> QED
  BY <1>3, <1>4, <1>6, <1>7, <1>8, <1>9, Zenon DEF r

\* What is on the card can be put back, in any of the three ways.
LEMMA RestoredFits ==
  ASSUME QueueInv, NEW t \in Tracks, NEW q \in Restored(t)
  PROVE  Fit(q) /\ Count(q) # 0
<1>1. library \in Seq(Tracks) /\ saved \in SavedTypes
  BY LibraryIs DEF QueueInv
<1>2. ASSUME saved.form = "list", NEW r \in device_state_restore_list(t), q = Saved(r)
      PROVE  Fit(q) /\ Count(q) # 0
  <2>1. saved.paths \in Seq(Tracks) /\ saved.paths # <<>> /\ saved.pos \in Nat \ {0} /\ saved.custom \in BOOLEAN
    BY <1>1, <1>2, SavedIs
  <2>2. PICK p \in playlist_load_paths(saved.paths, saved.pos) : r = playlist_locate(Named(p, saved.custom), t)
    BY <1>2 DEF device_state_restore_list, Named
  <2>3. Loaded(p, saved.paths, saved.pos) /\ p.rows = <<>> /\ ~p.ordered
    BY <2>1, LoadPaths, Zenon
  <2>4. Fit(p) /\ Count(p) # 0
    BY <2>1, <2>3 DEF Loaded
  <2> DEFINE m == Named(p, saved.custom)
  <2>5. Fit(m) /\ Count(m) # 0
    BY <2>1, <2>3, <2>4, NamedIs, Zenon
  <2> HIDE DEF m
  <2>6. Fit(r) /\ Same(m, r)
    BY <2>2, <2>5, LocateFits DEF m
  <2>7. Fit(q) /\ Same(r, q)
    BY <1>2, <2>6, SavedFits
  <2> QED
    BY <2>5, <2>6, <2>7, SameIs
<1>3. ASSUME saved.form = "query", library # <<>>, NEW r \in device_state_restore_index(t), q = Saved(r)
      PROVE  Fit(q) /\ Count(q) # 0
  <2>1. saved.entry \in Nat \ {0} /\ saved.extra \in Seq(Extra)
    BY <1>1, <1>3, SavedIs
  <2>2. PICK p \in playlist_load_index(library, saved.entry) : r = playlist_locate(WithExtra(p, saved.extra), t)
    BY <1>3 DEF device_state_restore_index
  <2>3. Loaded(p, library, saved.entry)
    BY <1>1, <2>1, LoadIndex, Zenon
  <2>4. Fit(p) /\ Count(p) # 0
    BY <1>1, <1>3, <2>3 DEF Loaded
  <2> DEFINE m == WithExtra(p, saved.extra)
  <2>5. Fit(m) /\ Count(m) # 0
    BY <2>1, <2>4, WithExtraFits
  <2> HIDE DEF m
  <2>6. Fit(r) /\ Same(m, r)
    BY <2>2, <2>5, LocateFits DEF m
  <2>7. Fit(q) /\ Same(r, q)
    BY <1>3, <2>6, SavedFits
  <2> QED
    BY <2>5, <2>6, <2>7, SameIs
<1>4. ASSUME q \in FolderQueue(t) PROVE Fit(q) /\ Count(q) # 0
  BY <1>4, FolderQueueIs
<1> QED
  BY <1>2, <1>3, <1>4 DEF Restored, device_state_restore_file

LEMMA RebootKeeps == ASSUME QueueInv, Reboot PROVE QueueInv'
<1>1. UNCHANGED <<mode, library, recalled>>
  BY DEF Reboot
<1>2. CASE recalled = NoTrack
  <2>1. queue' = playlist_clear /\ loaded' = NoTrack /\ UNCHANGED saved
    BY <1>2 DEF Reboot
  <2> QED
    BY <1>1, <2>1, ClearIs DEF QueueInv
<1>3. CASE recalled # NoTrack
  <2>1. recalled \in Tracks
    BY <1>3 DEF QueueInv
  <2>2. PICK q \in Restored(recalled) :
           /\ IF q.revised THEN queue_persist(q) ELSE queue' = q /\ UNCHANGED saved
           /\ loaded' = Current(q)
    BY <1>3 DEF Reboot
  <2>3. Fit(q) /\ Count(q) # 0
    BY <2>1, RestoredFits
  <2>4. loaded' \in Tracks
    BY <2>2, <2>3, FitPlace
  <2>5. Fit(queue') /\ saved' \in SavedTypes
    <3>1. CASE queue_persist(q)
      BY <2>3, <3>1, PersistIs DEF QueueInv
    <3>2. CASE queue' = q /\ UNCHANGED saved
      BY <2>3, <3>2 DEF QueueInv
    <3> QED
      BY <2>2, <3>1, <3>2
  <2> QED
    BY <1>1, <2>4, <2>5 DEF QueueInv
<1> QED
  BY <1>2, <1>3

\* The list under the queue is another.
Outdated(q) == [q EXCEPT !.stale = q.rows # <<>>]

LEMMA OutdatedFits ==
  ASSUME NEW q, Fit(q)
  PROVE  Fit(Outdated(q))
<1> DEFINE r == Outdated(q)
           b == (q.rows # <<>>)
<1>1. q \in QueueRecord /\ Shape(q)
  BY DEF Fit, Shape
<1>2. r = [q EXCEPT !.stale = b] /\ b \in BOOLEAN
  BY DEF Outdated
<1> HIDE DEF r, b
<1>3. r \in QueueRecord
  BY <1>1, <1>2 DEF QueueRecord
<1>4. r.rows = q.rows /\ r.added = q.added
  BY <1>1, <1>2 DEF QueueRecord
<1>5. r.order = q.order /\ r.pos = q.pos
  BY <1>1, <1>2 DEF QueueRecord
<1>6. r.custom = q.custom
  BY <1>1, <1>2 DEF QueueRecord
<1>7. r.ordered = q.ordered
  BY <1>1, <1>2 DEF QueueRecord
<1>8. r.stale = b
  BY <1>1, <1>2 DEF QueueRecord
<1>9. r.stale => r.rows # <<>>
  BY <1>4, <1>8, Zenon DEF b
<1>10. Shape(r) /\ Count(r) = Count(q)
  BY <1>1, <1>3, <1>4, <1>6, <1>7, <1>9, Zenon DEF Shape, Count
<1>11. Fit(r)
  BY <1>5, <1>10 DEF Fit
<1> QED
  BY <1>11 DEF r

LEMMA NextKeeps == ASSUME QueueInv, [Next]_vars PROVE QueueInv'
<1>1. CASE Edit
  BY <1>1, EditsKeep
<1>2. CASE Walk
  BY <1>2, WalksKeep
<1>3. CASE Load
  BY <1>3, LoadsKeep
<1>4. CASE playlist_path_at
  <2>1. Fit(queue) /\ library \in Seq(Tracks)
    BY LibraryIs DEF QueueInv
  <2>2. queue' \in refresh_stale_source(queue) /\ UNCHANGED <<mode, library, loaded, saved, recalled>>
    BY <1>4 DEF playlist_path_at
  <2>3. Fit(queue')
    BY <2>1, <2>2, RefreshIs
  <2> QED
    BY <2>2, <2>3 DEF QueueInv
<1>5. CASE \E l \in Lists : Rescan(l)
  <2>1. PICK l \in Lists : Rescan(l)
    BY <1>5
  <2>2. queue' = Outdated(queue) /\ library' = l /\ UNCHANGED <<mode, loaded, saved, recalled>>
    BY <2>1 DEF Rescan, Outdated
  <2>3. Fit(queue')
    BY <2>2, OutdatedFits DEF QueueInv
  <2> QED
    BY <2>2, <2>3 DEF QueueInv
<1>6. CASE device_state_remember_note
  BY <1>6 DEF device_state_remember_note, QueueInv
<1>7. CASE Reboot
  BY <1>7, RebootKeeps
<1>8. CASE UNCHANGED vars
  BY <1>8 DEF vars, QueueInv
<1> QED
  BY <1>1, <1>2, <1>3, <1>4, <1>5, <1>6, <1>7, <1>8 DEF Next

\* The queue is well-formed, and so is what is on the card (playlist.c, all of it).
THEOREM QueueInvariant == Spec => []QueueInv
<1>1. Init => QueueInv
  BY ClearIs DEF Init, QueueInv, SavedTypes
<1>2. QueueInv /\ [Next]_vars => QueueInv'
  BY NextKeeps
<1> QED
  BY <1>1, <1>2, PTL DEF Spec

LEMMA TypesFollow == ASSUME QueueInv PROVE TypeOK
<1>1. Fit(queue) /\ Shape(queue)
  BY DEF QueueInv, Fit
<1>2. queue.rows \in Seq(Tracks) /\ queue.added \in Seq(Tracks)
  BY <1>1, RecordIs DEF Shape
<1>3. queue.order \in Orders(Count(queue)) /\ (queue.pos \in 1..Count(queue) \/ (Count(queue) = 0 /\ queue.pos = 1))
  BY <1>1, Zenon DEF Fit
<1>4. (queue.ordered \/ queue.rows # <<>> => queue.custom) /\ (queue.stale => queue.rows # <<>>)
  BY <1>1, Zenon DEF Shape
<1> QED
  BY <1>2, <1>3, <1>4, Zenon DEF TypeOK, QueueInv

\* The playing order has every entry once, and playback is on one of them: no
\* sequence of edits, deals, loads, reads again and restarts breaks it.
THEOREM TypeCorrect == Spec => []TypeOK
<1>1. QueueInv => TypeOK
  BY TypesFollow
<1> QED
  BY <1>1, QueueInvariant, PTL

-----------------------------------------------------------------------------
(* What an edit does to the list that the page shows.                       *)

LEMMA AdditionsAreExact ==
  ASSUME NEW q, Fit(q), Count(q) # 0, NEW t \in Tracks
  PROVE  /\ \E i \in (q.pos + 1)..(Count(q) + 1) :
              View(InsertedNext(q, t)) = InsertAt(View(q), i, t) /\ InsertedNext(q, t).pos = q.pos
         /\ \A i \in 1..(Count(q) + 1) :
              /\ View(InsertedAt(q, t, i)) = InsertAt(View(q), i, t)
              /\ InsertedAt(q, t, i).pos = q.pos + (IF i <= q.pos THEN 1 ELSE 0)
<1>1. Count(q) \in Nat /\ q.pos \in 1..Count(q)
  BY FitPlace, ShapeIs DEF Fit
<1>2. \E i \in (q.pos + 1)..(Count(q) + 1) :
         View(InsertedNext(q, t)) = InsertAt(View(q), i, t) /\ InsertedNext(q, t).pos = q.pos
  <2> DEFINE slot == Least(ChainSlot(q), Count(q) + 1)
             r == InsertedNext(q, t)
  <2>1. Added(q, r, t, slot) /\ r.pos = q.pos /\ slot \in (q.pos + 1)..(Count(q) + 1)
    BY InsertedNextIs, Zenon
  <2> HIDE DEF slot, r
  <2>2. View(r) = InsertAt(View(q), slot, t)
    BY <2>1, Zenon DEF Added
  <2> QED
    BY <2>1, <2>2, Zenon DEF r
<1>3. ASSUME NEW i \in 1..(Count(q) + 1)
      PROVE  /\ View(InsertedAt(q, t, i)) = InsertAt(View(q), i, t)
             /\ InsertedAt(q, t, i).pos = q.pos + (IF i <= q.pos THEN 1 ELSE 0)
  <2> DEFINE slot == Least(i, Count(q) + 1)
             r == InsertedAt(q, t, i)
  <2>1. i \in Nat \ {0} /\ slot = i
    BY <1>1 DEF Least
  <2>2. Added(q, r, t, slot) /\ r.pos = IF slot <= q.pos THEN q.pos + 1 ELSE q.pos
    BY <2>1, InsertedAtIs, Zenon
  <2> HIDE DEF slot, r
  <2>3. View(r) = InsertAt(View(q), i, t)
    BY <2>1, <2>2, Zenon DEF Added
  <2>4. r.pos = q.pos + (IF i <= q.pos THEN 1 ELSE 0)
    BY <1>1, <2>1, <2>2
  <2> QED
    BY <2>3, <2>4 DEF r
<1> QED
  BY <1>2, <1>3

LEMMA ExactEdits == ASSUME QueueInv PROVE EditsAreExact
<1> SUFFICES ASSUME Count(queue) > 0, ~queue.stale
             PROVE  LET view == View(queue)
                        Slots == 1..Count(queue)
                        Places == [i \in Slots |-> i]
                    IN  /\ \A t \in Addable :
                             LET q == InsertedNext(queue, t)
                             IN  \E i \in (queue.pos + 1)..(Count(queue) + 1) :
                                   View(q) = InsertAt(view, i, t) /\ q.pos = queue.pos
                        /\ \A t \in Addable : \A i \in 1..(Count(queue) + 1) :
                             LET q == InsertedAt(queue, t, i)
                             IN  View(q) = InsertAt(view, i, t) /\ q.pos = queue.pos + (IF i <= queue.pos THEN 1 ELSE 0)
                        /\ \A slots \in SUBSET Slots :
                             LET q == Removed(queue, slots)
                             IN  /\ View(q) = Without(view, slots \ {queue.pos})
                                 /\ q.pos = queue.pos - Cardinality({i \in slots : i < queue.pos})
                        /\ \A i, j \in Slots : i # j =>
                             LET q == MovedEntry(queue, i, j)
                             IN  /\ View(q) = InsertAt(RemoveAt(view, i), j, view[i])
                                 /\ q.pos = IndexIn(InsertAt(RemoveAt(Places, i), j, i), queue.pos)
  BY Zenon DEF EditsAreExact
<1>1. Fit(queue) /\ Count(queue) # 0
  BY DEF QueueInv
<1>2. \A t \in Addable :
        /\ \E i \in (queue.pos + 1)..(Count(queue) + 1) :
             View(InsertedNext(queue, t)) = InsertAt(View(queue), i, t) /\ InsertedNext(queue, t).pos = queue.pos
        /\ \A i \in 1..(Count(queue) + 1) :
             /\ View(InsertedAt(queue, t, i)) = InsertAt(View(queue), i, t)
             /\ InsertedAt(queue, t, i).pos = queue.pos + (IF i <= queue.pos THEN 1 ELSE 0)
  <2> TAKE t \in Addable
  <2>1. t \in Tracks
    BY ListsAssumption
  <2> QED
    BY <1>1, <2>1, AdditionsAreExact, Zenon
<1>3. ASSUME NEW slots \in SUBSET (1..Count(queue))
      PROVE  /\ View(Removed(queue, slots)) = Without(View(queue), slots \ {queue.pos})
             /\ Removed(queue, slots).pos = queue.pos - Cardinality({i \in slots : i < queue.pos})
  <2>1. slots \cap 1..Count(queue) = slots
    OBVIOUS
  <2>2. /\ View(Removed(queue, slots)) = Without(View(queue), slots \ {queue.pos})
        /\ Removed(queue, slots).pos = queue.pos - Cardinality({i \in slots \cap 1..Count(queue) : i < queue.pos})
    BY <1>1, RemovedIs, Zenon
  <2> QED
    BY <2>1, <2>2, Zenon
<1>4. ASSUME NEW i \in 1..Count(queue), NEW j \in 1..Count(queue)
      PROVE  /\ View(MovedEntry(queue, i, j)) = InsertAt(RemoveAt(View(queue), i), j, View(queue)[i])
             /\ MovedEntry(queue, i, j).pos =
                  IndexIn(InsertAt(RemoveAt([k \in 1..Count(queue) |-> k], i), j, i), queue.pos)
  BY <1>1, MovedEntryIs, Zenon DEF Rearranged
<1> QED
  BY <1>2, <1>3, <1>4, Zenon

\* Whatever led to the queue, an edit of it is that edit of the list shown
\* (playlist_insert_next, playlist_insert_at, playlist_remove, playlist_move).
THEOREM EditsExact == Spec => []EditsAreExact
<1>1. QueueInv => EditsAreExact
  BY ExactEdits
<1> QED
  BY <1>1, QueueInvariant, PTL

-----------------------------------------------------------------------------
(* Where the queue goes on from.                                            *)

\* A folder, at a track of it, is on that track, dealt or not.
LEMMA FolderQueuePlays ==
  ASSUME NEW t \in Tracks, NEW r \in FolderQueue(t)
  PROVE  Fit(r) /\ Count(r) # 0 /\ Current(r) = t
<1> DEFINE f == FolderOf(t)
           i == IndexIn(f, t)
           q == Fresh(<<>>, f, FALSE, FALSE)
<1>1. f \in Seq(Tracks) /\ f # <<>> /\ t \in ToSet(f)
  BY FolderOfIs
<1>2. i \in 1..Len(f) /\ f[i] = t
  BY <1>1, IndexInIs
<1>3. Fit(r) /\ Count(r) # 0
  BY FolderQueueIs, Zenon
<1>4. r \in Started(q, i)
  BY DEF FolderQueue, playlist_load_folder
<1>5. Shape(q) /\ Paths(q) = f /\ Count(q) = Len(f)
  BY <1>1, FreshPaths, Zenon
<1> HIDE DEF q, f, i
<1>6. i \in Nat \ {0} /\ i \in 1..Count(q) /\ Paths(q)[i] = t
  BY <1>2, <1>5
<1>7. Same(q, r)
  BY <1>4, <1>5, <1>6, StartedFits
<1>8. Paths(r) = Paths(q) /\ Count(r) = Count(q)
  BY <1>7, SameIs
<1>9. r.order[r.pos] = i
  <2>1. CASE ~shuffling(q)
    <3>1. r = order_identity(q, i)
      BY <1>4, <1>5, <1>6, <2>1, StartedFits
    <3>2. (\A k \in 1..Count(q) : r.order[k] = k) /\ r.pos = IF i <= Count(q) THEN i ELSE 1
      BY <1>5, <1>6, <3>1, IdentityIs, Zenon
    <3> QED
      BY <1>6, <3>2
  <2>2. CASE shuffling(q)
    <3>1. PICK o \in {p \in Orders(Count(q)) : p # <<>> => p[1] = i} : r = Reordered(q, o, 1)
      BY <1>4, <2>2 DEF Started, order_shuffle_from
    <3>2. o \in Orders(Count(q)) /\ (o # <<>> => o[1] = i)
      BY <3>1
    <3>7. Count(q) \in Nat
      BY <1>5, ShapeIs
    <3>3. Count(q) \in Nat /\ 1 \in 1..Count(q)
      BY <1>6, <3>7
    <3>4. r.order = o /\ r.pos = 1
      BY <1>5, <3>1, <3>2, <3>3, DealtFits
    <3>5. Len(o) = Count(q)
      BY <3>2, <3>3, OrderIs
    <3>6. o # <<>>
      BY <3>3, <3>5
    <3> QED
      BY <3>2, <3>4, <3>6
  <2> QED
    BY <2>1, <2>2
<1> QED
  BY <1>3, <1>6, <1>8, <1>9 DEF Current

\* A queue that is not somebody's list is the folder of the track loaded, on
\* that track.
FolderPlays == ~queue.custom /\ Count(queue) # 0 => Current(queue) = loaded

LEMMA PersistStays ==
  ASSUME NEW q, Fit(q), saved \in SavedTypes, queue_persist(q)
  PROVE  /\ queue'.custom = q.custom /\ Count(queue)' = Count(q)
         /\ Count(q) # 0 => Current(queue)' = Current(q)
<1>1. CASE Count(q) = 0
  <2>1. queue' = q
    BY <1>1, PersistIs
  <2> QED
    BY <1>1, <2>1 DEF Count
<1>2. CASE Count(q) # 0
  <2>1. queue' = Saved(q)
    BY <1>2, PersistIs
  <2> DEFINE r == Saved(q)
  <2>2. Same(q, r) /\ r.order = q.order /\ r.pos = q.pos
    BY SavedFits
  <2> HIDE DEF r
  <2>3. r.custom = q.custom /\ Count(r) = Count(q) /\ Paths(r) = Paths(q)
    BY <2>2, SameIs
  <2>4. Current(r) = Current(q)
    BY <2>2, <2>3 DEF Current
  <2>5. queue' = r
    BY <2>1 DEF r
  <2>6. Count(queue)' = Count(r) /\ Current(queue)' = Current(r)
    BY <2>5 DEF Count, Current, Paths
  <2> QED
    BY <2>3, <2>4, <2>5, <2>6
<1> QED
  BY <1>1, <1>2

\* What is put back on the track that is loaded is on it, or somebody's list.
LEMMA ResyncedPlays ==
  ASSUME QueueInv, FolderPlays, loaded # NoTrack, NEW p \in refresh_stale_source(queue), NEW q \in Resynced(p)
  PROVE  /\ ~q.custom /\ Count(q) # 0 => Current(q) = loaded
         /\ ~p.custom /\ Count(p) # 0 => Current(p) = loaded
<1>1. Fit(queue) /\ library \in Seq(Tracks) /\ loaded \in Tracks
  BY LibraryIs DEF QueueInv
<1>2. Fit(p)
  BY <1>1, RefreshIs
<1>3. p.custom \/ Count(p) = 0 \/ p = queue
  BY <1>1, RefreshIs, ClearIs, Zenon
<1>4. ~p.custom /\ Count(p) # 0 => Current(p) = loaded
  BY <1>3 DEF FolderPlays
<1>5. CASE q = p
  BY <1>4, <1>5
<1>6. CASE p.custom /\ q = playlist_locate(p, loaded)
  <2>1. Same(p, q)
    BY <1>2, <1>6, LocateFits
  <2>2. q.custom
    BY <1>6, <2>1, SameIs
  <2> QED
    BY <1>4, <2>2
<1>7. CASE q \in FolderQueue(loaded)
  BY <1>1, <1>4, <1>7, FolderQueuePlays
<1> QED
  BY <1>5, <1>6, <1>7 DEF Resynced

LEMMA PlaysOnTheLoaded ==
  ASSUME QueueInv, NEW qs, \A q \in qs : Fit(q), LoadAndPlay(qs)
  PROVE  FolderPlays'
<1>1. PICK q \in qs : \E r \in refresh_stale_source(q) :
         /\ queue_persist(r)
         /\ IF Count(r) > 0 THEN loaded' = Current(r) ELSE UNCHANGED loaded
  BY DEF LoadAndPlay
<1>2. PICK r \in refresh_stale_source(q) :
         /\ queue_persist(r)
         /\ IF Count(r) > 0 THEN loaded' = Current(r) ELSE UNCHANGED loaded
  BY <1>1
<1>3. Fit(r) /\ saved \in SavedTypes
  BY LibraryIs, RefreshIs DEF QueueInv
<1>4. Count(queue)' = Count(r) /\ (Count(r) # 0 => Current(queue)' = Current(r))
  BY <1>2, <1>3, PersistStays
<1>5. Count(r) # 0 => loaded' = Current(r)
  <2>1. Count(r) \in Nat
    BY <1>3, ShapeIs DEF Fit
  <2> QED
    BY <1>2, <2>1
<1> QED
  BY <1>4, <1>5 DEF FolderPlays

LEMMA WalksPlay ==
  ASSUME QueueInv, FolderPlays, NEW q \in playlist_resync_to_current(queue),
         NEW qs \in {Onward(q), Backward(q), AfterTheEnd(q)}, Goes(q, qs)
  PROVE  FolderPlays'
<1>1. Fit(queue) /\ library \in Seq(Tracks) /\ loaded \in Tracks \cup {NoTrack}
  BY LibraryIs DEF QueueInv
<1>2. Fit(q)
  BY <1>1, ResyncFits
<1>3. \A r \in qs : Fit(r)
  BY <1>1, <1>2, WalksFit
<1>4. CASE LoadAndPlay(qs)
  BY <1>3, <1>4, PlaysOnTheLoaded
<1>5. CASE Stops(q)
  <2>1. queue' = q /\ UNCHANGED loaded
    BY <1>5 DEF Stops
  <2>2. ~q.custom /\ Count(q) # 0 => Current(q) = loaded
    <3>1. CASE loaded = NoTrack
      <4>1. q = queue
        BY <3>1 DEF playlist_resync_to_current
      <4> QED
        BY <4>1 DEF FolderPlays
    <3>2. CASE loaded # NoTrack
      <4>1. PICK p \in refresh_stale_source(queue) : q \in Resynced(p)
        BY <3>2 DEF playlist_resync_to_current
      <4> QED
        BY <3>2, <4>1, ResyncedPlays
    <3> QED
      BY <3>1, <3>2
  <2>3. Count(queue)' = Count(q) /\ Current(queue)' = Current(q)
    BY <2>1 DEF Count, Current, Paths
  <2> QED
    BY <2>1, <2>2, <2>3 DEF FolderPlays
<1> QED
  BY <1>4, <1>5 DEF Goes

\* An edit makes the queue somebody's list, or leaves what is played.
LEMMA EditsPlay == ASSUME QueueInv, FolderPlays, Edit PROVE FolderPlays'
<1>1. Fit(queue) /\ library \in Seq(Tracks) /\ saved \in SavedTypes
  BY LibraryIs DEF QueueInv
<1>2. ASSUME NEW q, Fit(q), queue_persist(q), q.custom \/ Count(q) = 0 PROVE FolderPlays'
  BY <1>1, <1>2, PersistStays DEF FolderPlays
<1>3. ASSUME NEW t \in Tracks, NEW i \in Nat \ {0}
      PROVE  InsertedNext(queue, t).custom /\ InsertedAt(queue, t, i).custom
  <2>1. CASE Count(queue) = 0
    <3>1. FirstEntry(queue, t).custom
      BY <1>1, <2>1, FirstEntryIs, Zenon
    <3> QED
      BY <2>1, <3>1 DEF InsertedNext, InsertedAt
  <2>2. CASE Count(queue) # 0
    BY <1>1, <2>2, InsertedNextIs, InsertedAtIs, Zenon DEF Added
  <2> QED
    BY <2>1, <2>2
<1>4. ASSUME NEW q \in refresh_stale_source(queue) PROVE Fit(q) /\ (q.custom \/ Count(q) = 0 \/ q = queue)
  BY <1>1, RefreshIs, ClearIs, Zenon
<1>5. ASSUME NEW t \in Addable, playlist_insert_next(t) PROVE FolderPlays'
  <2>1. t \in Tracks /\ 1 \in Nat \ {0}
    BY ListsAssumption
  <2>2. Fit(InsertedNext(queue, t))
    BY <1>1, <2>1, InsertionsFit
  <2> QED
    BY <1>2, <1>3, <1>5, <2>1, <2>2 DEF playlist_insert_next
<1>6. ASSUME NEW t \in Addable, NEW i \in 1..(Count(queue) + 1), playlist_insert_at(t, i) PROVE FolderPlays'
  <2>1. t \in Tracks /\ i \in Nat \ {0}
    <3>1. Count(queue) \in Nat
      BY <1>1, ShapeIs DEF Fit
    <3> QED
      BY <3>1, ListsAssumption
  <2>2. Fit(InsertedAt(queue, t, i))
    BY <1>1, <2>1, InsertionsFit
  <2> QED
    BY <1>2, <1>3, <1>6, <2>1, <2>2 DEF playlist_insert_at
<1>7. ASSUME NEW slots, playlist_remove(slots) PROVE FolderPlays'
  <2>1. PICK q \in refresh_stale_source(queue) :
           LET r == Removed(q, slots)
           IN  IF r = q THEN queue' = q /\ UNCHANGED saved ELSE queue_persist(r)
    BY <1>7 DEF playlist_remove
  <2>2. UNCHANGED loaded
    BY <1>7 DEF playlist_remove
  <2> DEFINE r == Removed(q, slots)
  <2>3. Fit(q) /\ (q.custom \/ Count(q) = 0 \/ q = queue)
    BY <1>4
  <2>4. CASE r = q
    <3>1. queue' = q
      BY <2>1, <2>4
    <3>2. Count(queue)' = Count(q) /\ Current(queue)' = Current(q)
      BY <3>1 DEF Count, Current, Paths
    <3> QED
      BY <2>2, <2>3, <3>1, <3>2 DEF FolderPlays
  <2>5. CASE r # q
    <3>1. queue_persist(r)
      BY <2>1, <2>5
    <3>2. Count(q) # 0
      <4>1. ASSUME Count(q) = 0 PROVE FALSE
        <5>1. slots \cap 1..Count(q) = {}
          BY <4>1
        <5>2. r = q
          BY <5>1 DEF Removed
        <5> QED
          BY <2>5, <5>2
      <4> QED
        BY <4>1
    <3>3. Fit(r) /\ r.custom
      BY <2>3, <2>5, <3>2, RemovedIs, Zenon
    <3> HIDE DEF r
    <3> QED
      BY <1>2, <3>1, <3>3
  <2> QED
    BY <2>4, <2>5
<1>8. ASSUME NEW i \in 1..Count(queue), NEW j \in 1..Count(queue), playlist_move(i, j) PROVE FolderPlays'
  <2>1. ASSUME queue.stale, NEW q \in refresh_stale_source(queue), queue_persist(q) PROVE FolderPlays'
    <3>1. q.custom \/ Count(q) = 0
      BY <1>1, <2>1, RefreshIs, ClearIs, Zenon
    <3> QED
      BY <1>2, <1>4, <2>1, <3>1
  <2>2. ASSUME ~queue.stale, queue_persist(MovedEntry(queue, i, j)) PROVE FolderPlays'
    <3>1. Rearranged(queue, MovedEntry(queue, i, j), i, j)
      BY <1>1, <2>2, MovedEntryIs, Zenon
    <3>2. Fit(MovedEntry(queue, i, j)) /\ MovedEntry(queue, i, j).custom
      BY <3>1, Zenon DEF Rearranged
    <3> QED
      BY <1>2, <2>2, <3>2
  <2> QED
    BY <1>8, <2>1, <2>2 DEF playlist_move
<1>9. ASSUME NEW m \in Modes, playlist_set_mode(m) PROVE FolderPlays'
  <2>1. queue' \in apply_mode_change(mode, m) /\ UNCHANGED loaded
    BY <1>9 DEF playlist_set_mode
  <2>2. \/ queue' = queue
        \/ queue' \in order_shuffle_upcoming(queue)
        \/ Count(queue) # 0 /\ queue' = order_identity(queue, queue.order[queue.pos])
    BY <2>1 DEF apply_mode_change
  <2>3. Same(queue, queue') /\ (Count(queue) # 0 => Current(queue)' = Current(queue))
    <3>1. CASE queue' = queue
      BY <3>1 DEF Same, Current, Paths
    <3>2. CASE queue' \in order_shuffle_upcoming(queue)
      <4>1. Same(queue, queue') /\ (Count(queue) # 0 => Current(queue') = Current(queue))
        BY <1>1, <3>2, UpcomingFits
      <4> QED
        BY <4>1 DEF Current, Paths
    <3>3. CASE Count(queue) # 0 /\ queue' = order_identity(queue, queue.order[queue.pos])
      <4> DEFINE e == queue.order[queue.pos]
      <4>1. queue.pos \in 1..Count(queue) /\ Count(queue) \in Nat /\ Shape(queue)
        BY <1>1, <3>3, FitPlace, ShapeIs DEF Fit
      <4>2. e \in 1..Count(queue)
        BY <1>1, <4>1, FitIs
      <4>3. e \in Nat \ {0} /\ e <= Count(queue)
        <5> HIDE DEF e
        <5> QED
          BY <4>1, <4>2
      <4>4. /\ Same(queue, queue')
            /\ (\A k \in 1..Count(queue) : queue'.order[k] = k) /\ queue'.pos = IF e <= Count(queue) THEN e ELSE 1
        BY <3>3, <4>1, <4>3, IdentityIs, Zenon
      <4> HIDE DEF e
      <4>5. queue'.order[queue'.pos] = e /\ Paths(queue') = Paths(queue)
        BY <4>2, <4>3, <4>4, SameIs
      <4> QED
        BY <4>4, <4>5 DEF Current, Paths, e
    <3> QED
      BY <2>2, <3>1, <3>2, <3>3
  <2>4. queue'.custom = queue.custom /\ Count(queue)' = Count(queue)
    BY <2>3 DEF Same, Count
  <2> QED
    BY <2>1, <2>3, <2>4 DEF FolderPlays
<1> QED
  BY <1>5, <1>6, <1>7, <1>8, <1>9 DEF Edit

LEMMA FolderPlaysKept == ASSUME QueueInv, FolderPlays, [Next]_vars PROVE FolderPlays'
<1>1. Fit(queue) /\ library \in Seq(Tracks) /\ saved \in SavedTypes
  BY LibraryIs DEF QueueInv
<1>2. ASSUME UNCHANGED <<queue, loaded>> PROVE FolderPlays'
  BY <1>2 DEF FolderPlays, Current, Count, Paths
<1>3. CASE Edit
  BY <1>3, EditsPlay
<1>4. CASE Walk
  <2>1. ASSUME NEW i \in 1..Count(queue), device_state_play_queue_index(i) PROVE FolderPlays'
    <3>1. LoadAndPlay({Placed(queue, i)})
      BY <2>1 DEF device_state_play_queue_index, Placed
    <3>2. Fit(Placed(queue, i))
      BY <1>1, PlacedFits
    <3> DEFINE qs == {Placed(queue, i)}
    <3>3. \A q \in qs : Fit(q)
      BY <3>2
    <3> HIDE DEF qs
    <3> QED
      BY <3>1, <3>3, PlaysOnTheLoaded DEF qs
  <2> QED
    BY <1>4, <2>1, WalksPlay DEF Walk, device_state_next, device_state_prev, device_state_advance_auto
<1>5. CASE Load
  <2>1. ASSUME NEW t \in Tracks, device_state_play_file(t) PROVE FolderPlays'
    <3>1. \A q \in FolderQueue(t) : Fit(q)
      BY FolderQueueIs
    <3> QED
      BY <2>1, <3>1, PlaysOnTheLoaded DEF device_state_play_file
  <2>2. ASSUME NEW l \in Given, NEW i \in DOMAIN l,
               device_state_play_list(l, i) \/ device_state_play_list_ordered(l, i)
        PROVE  FolderPlays'
    <3>1. l \in Seq(Tracks) /\ i \in Nat \ {0}
      BY ListsAssumption
    <3>2. \A q \in playlist_load_paths(l, i) : Fit(q)
      BY <3>1, LoadPaths DEF Loaded
    <3>3. Fit(playlist_load_paths_ordered(l, i))
      BY <3>1, LoadPathsOrdered, Zenon DEF Loaded
    <3> DEFINE qs == {playlist_load_paths_ordered(l, i)}
    <3>4. \A q \in qs : Fit(q)
      BY <3>3
    <3>5. LoadAndPlay(playlist_load_paths(l, i)) \/ LoadAndPlay(qs)
      BY <2>2 DEF device_state_play_list, device_state_play_list_ordered
    <3> HIDE DEF qs
    <3> QED
      BY <3>2, <3>4, <3>5, PlaysOnTheLoaded
  <2>3. ASSUME NEW i \in DOMAIN library, device_state_play_index(i) PROVE FolderPlays'
    <3>1. i \in Nat \ {0}
      BY <1>1
    <3>2. \A q \in playlist_load_index(library, i) : Fit(q)
      BY <1>1, <3>1, LoadIndex DEF Loaded
    <3> QED
      BY <2>3, <3>2, PlaysOnTheLoaded DEF device_state_play_index
  <2> QED
    BY <1>5, <2>1, <2>2, <2>3 DEF Load
<1>6. CASE playlist_path_at
  <2>1. queue' \in refresh_stale_source(queue) /\ queue.stale
    BY <1>6 DEF playlist_path_at
  <2>2. queue'.custom \/ Count(queue') = 0
    BY <1>1, <2>1, RefreshIs, ClearIs, Zenon
  <2>3. Count(queue)' = Count(queue')
    BY DEF Count
  <2> QED
    BY <2>2, <2>3 DEF FolderPlays
<1>7. CASE \E l \in Lists : Rescan(l)
  <2>1. queue' = Outdated(queue) /\ UNCHANGED loaded
    BY <1>7 DEF Rescan, Outdated
  <2> DEFINE r == Outdated(queue)
  <2>2. queue \in QueueRecord
    BY <1>1 DEF Fit, Shape
  <2>3. r.rows = queue.rows /\ r.added = queue.added
    BY <2>2 DEF QueueRecord, Outdated
  <2>4. r.order = queue.order /\ r.pos = queue.pos /\ r.custom = queue.custom
    BY <2>2 DEF QueueRecord, Outdated
  <2> HIDE DEF r
  <2>5. queue' = r
    BY <2>1 DEF r
  <2>6. Count(queue)' = Count(queue) /\ Current(queue)' = Current(queue)
    BY <2>3, <2>4, <2>5 DEF Count, Current, Paths
  <2> QED
    BY <2>1, <2>4, <2>5, <2>6 DEF FolderPlays
<1>8. CASE device_state_remember_note
  BY <1>2, <1>8 DEF device_state_remember_note
<1>9. CASE Reboot
  <2>1. CASE recalled = NoTrack
    <3>1. queue' = playlist_clear
      BY <1>9, <2>1 DEF Reboot
    <3>2. Count(queue)' = 0
      BY <3>1, ClearIs DEF Count
    <3> QED
      BY <3>2 DEF FolderPlays
  <2>2. CASE recalled # NoTrack
    <3>1. recalled \in Tracks
      BY <2>2 DEF QueueInv
    <3>2. PICK q \in Restored(recalled) :
             /\ IF q.revised THEN queue_persist(q) ELSE queue' = q /\ UNCHANGED saved
             /\ loaded' = Current(q)
      BY <1>9, <2>2 DEF Reboot
    <3>3. Fit(q)
      BY <3>1, RestoredFits
    <3>4. CASE queue_persist(q)
      BY <1>1, <3>2, <3>3, <3>4, PersistStays DEF FolderPlays
    <3>5. CASE queue' = q
      <4>1. Current(queue)' = Current(q)
        BY <3>5 DEF Current, Paths
      <4> QED
        BY <3>2, <4>1 DEF FolderPlays
    <3> QED
      BY <3>2, <3>4, <3>5
  <2> QED
    BY <2>1, <2>2
<1>10. CASE UNCHANGED vars
  BY <1>2, <1>10 DEF vars
<1> QED
  BY <1>3, <1>4, <1>5, <1>6, <1>7, <1>8, <1>9, <1>10 DEF Next

\* A folder that plays is on the track loaded (device_state.c, load_and_play).
THEOREM FolderQueuesPlay == Spec => []FolderPlays
<1>1. Init => FolderPlays
  BY ClearIs DEF Init, FolderPlays
<1>2. QueueInv /\ FolderPlays /\ [Next]_vars => FolderPlays'
  BY FolderPlaysKept
<1> QED
  BY <1>1, <1>2, QueueInvariant, PTL DEF Spec

\* What is read ahead is what plays.
LEMMA PeekHolds == ASSUME QueueInv PROVE PeekIsTrue
<1> SUFFICES ASSUME ~queue.stale, Count(queue) > 0, Current(queue) = loaded, ~AtEnd(queue) \/ mode = "REPEAT_ONE",
                    NEW q \in playlist_resync_to_current(queue), NEW r \in AfterTheEnd(q)
             PROVE  playlist_peek_auto(queue) \in {NoTrack, Current(r)}
  BY DEF PeekIsTrue
<1>1. Fit(queue) /\ Count(queue) # 0
  BY ShapeIs DEF QueueInv, Fit
<1>2. loaded # NoTrack
  BY <1>1, FitPlace, TracksAssumption
<1>3. q = queue
  BY <1>2 DEF playlist_resync_to_current, refresh_stale_source, Resynced
<1>4. r \in AdvancedAuto(queue)
  BY <1>3 DEF AfterTheEnd
<1>5. CASE queue.ordered
  <2>1. ~AtEnd(queue) /\ r = Forward(queue)
    BY <1>1, <1>4, <1>5 DEF AdvancedAuto
  <2> QED
    BY <1>1, <1>5, <2>1 DEF playlist_peek_auto
<1>6. CASE ~queue.ordered /\ mode = "REPEAT_ONE"
  <2>1. r = queue
    BY <1>1, <1>4, <1>6 DEF AdvancedAuto
  <2> QED
    BY <1>1, <1>6, <2>1 DEF playlist_peek_auto
<1>7. CASE ~queue.ordered /\ mode # "REPEAT_ONE"
  <2>1. ~AtEnd(queue) /\ r = Forward(queue)
    BY <1>1, <1>4, <1>7 DEF AdvancedAuto
  <2> QED
    BY <1>1, <1>7, <2>1 DEF playlist_peek_auto
<1> QED
  BY <1>5, <1>6, <1>7

\* The track that is loaded is found if it can be, however the queue is searched.
LEMMA LocateReaches ==
  ASSUME NEW p, Fit(p), Reach(p) # {}
  PROVE  \E i \in Reach(p) : i \in 1..Count(p) /\ View(p)[i] = loaded /\ playlist_locate(p, loaded) = Placed(p, i)
<1> DEFINE at == {i \in 1..Count(p) : View(p)[i] = loaded}
           Off(i) == IF i >= p.pos THEN i - p.pos ELSE p.pos - i
           near == {i \in at : Off(i) <= LOCATE_RADIUS}
           nearest == {i \in near : \A j \in near : Off(i) < Off(j) \/ (Off(i) = Off(j) /\ i >= j)}
           first == {i \in at : \A j \in at : i <= j}
           found == IF p.rows = <<>> THEN first ELSE nearest
           k == CHOOSE i \in found : TRUE
<1>1. playlist_locate(p, loaded) = IF found = {} THEN p ELSE Placed(p, k)
  BY DEF playlist_locate, Placed
<1>2. p.pos \in Nat /\ Count(p) \in Nat /\ LOCATE_RADIUS \in Nat
  BY ShapeIs, BoundsAssumption, RecordIs DEF Fit, Shape
<1>3. found # {} /\ found \subseteq Reach(p) /\ \A i \in found : i \in 1..Count(p) /\ View(p)[i] = loaded
  <2>1. CASE p.rows = <<>>
    <3>1. Reach(p) = at
      BY <2>1 DEF Reach
    <3>2. at # {} /\ at \in SUBSET Nat
      BY <3>1
    <3>3. PICK i \in at : \A j \in at : i <= j
      BY <3>2, Smallest
    <3>4. i \in first
      BY <3>3
    <3> QED
      BY <2>1, <3>1, <3>4
  <2>2. CASE p.rows # <<>>
    <3>1. ASSUME NEW i \in at PROVE Off(i) <= LOCATE_RADIUS <=> i - p.pos \in (-LOCATE_RADIUS)..LOCATE_RADIUS
      BY <1>2
    <3>2. Reach(p) = near
      BY <2>2, <3>1 DEF Reach
    <3> DEFINE Key(i) == 2 * Off(i) + (IF i < p.pos THEN 1 ELSE 0)
               keys == {Key(i) : i \in near}
    <3>3. \A i \in near : i \in Nat /\ Off(i) \in Nat /\ Key(i) \in Nat
      BY <1>2
    <3>4. near # {}
      BY <3>2
    <3>5. PICK i \in near : \A j \in near : Key(i) <= Key(j)
      <4> HIDE DEF Key, near
      <4>1. keys \in SUBSET Nat /\ keys # {}
        BY <3>3, <3>4
      <4>2. PICK n \in keys : \A m \in keys : n <= m
        BY <4>1, Smallest
      <4> QED
        BY <4>2
    <3>6. ASSUME NEW j \in near PROVE Off(i) < Off(j) \/ (Off(i) = Off(j) /\ i >= j)
      <4>1. Key(i) <= Key(j) /\ i \in Nat /\ j \in Nat
        BY <3>3, <3>5
      <4> HIDE DEF near
      <4> QED
        BY <1>2, <4>1
    <3>7. i \in nearest
      BY <3>6
    <3> QED
      BY <2>2, <3>2, <3>7
  <2> QED
    BY <2>1, <2>2
<1> HIDE DEF found
<1>4. k \in found
  BY <1>3
<1> HIDE DEF k
<1>5. playlist_locate(p, loaded) = Placed(p, k)
  BY <1>1, <1>3
<1> QED
  BY <1>3, <1>4, <1>5, Zenon

\* The queue on a place, and one further on.
LEMMA PlacedOnward ==
  ASSUME NEW p, Fit(p), NEW i \in 1..Count(p), ~shuffling(p), loaded \in Tracks,
         NEW q, q = p \/ q = Placed(p, i), q.pos = i, Beside(q, NextFolder) = Beside(p, NextFolder),
         NEW r \in Onward(q)
  PROVE  IF i < Count(p) THEN Current(r) = View(p)[i + 1]
         ELSE IF Beside(p, NextFolder) = <<>> THEN Current(r) = View(p)[1]
         ELSE View(r) = Beside(p, NextFolder) /\ r.pos = 1
<1>1. Count(p) \in Nat /\ Count(p) # 0
  <2>1. Count(p) \in Nat
    BY ShapeIs DEF Fit
  <2> QED
    BY <2>1
<1>2. Fit(q) /\ View(q) = View(p) /\ Same(p, q)
  <2>1. Same(p, p)
    BY DEF Same
  <2> QED
    BY <2>1, PlacedFits
<1>3. Count(q) = Count(p) /\ shuffling(q) = shuffling(p) /\ q.custom = p.custom /\ q.ordered = p.ordered
  BY <1>2, SameIs
<1>4. AtEnd(q) <=> ~(i < Count(p))
  BY <1>1, <1>3 DEF AtEnd
<1>5. ASSUME r \in AdvancedNext(q)
      PROVE  Current(r) = IF i < Count(p) THEN View(p)[i + 1] ELSE View(p)[1]
  <2>1. r = Forward(q)
    BY <1>3, <1>5 DEF AdvancedNext
  <2>2. Fit(r) /\ View(r) = View(p) /\ Count(r) # 0 /\ r.pos = IF AtEnd(q) THEN 1 ELSE i + 1
    BY <1>1, <1>2, <1>3, <2>1, ForwardIs
  <2>3. Current(r) = View(r)[r.pos]
    BY <2>2, FitPlace
  <2> QED
    BY <1>4, <2>2, <2>3
<1>6. CASE AtEnd(q) /\ Beside(p, NextFolder) # <<>>
  <2> DEFINE f == Beside(p, NextFolder)
  <2>1. r \in FolderBeside(f)
    BY <1>6 DEF Onward
  <2>2. NextFolder \in [Folders -> Folders \cup {<<>>}]
    BY FoldersAssumption
  <2>3. f \in Folders /\ f \in Seq(Tracks) \ {<<>>} /\ ~p.custom
    BY <1>6, <2>2, BesideIs, Zenon
  <2> HIDE DEF f
  <2>4. r \in playlist_load_folder(f, 1) /\ 1 \in Nat \ {0} /\ f \in Seq(Tracks)
    BY <2>1, <2>3 DEF FolderBeside
  <2>5. Loaded(r, f, 1)
    BY <2>4, LoadFolder, Zenon
  <2>6. p.ordered \in BOOLEAN /\ ~p.ordered
    <3>1. p.ordered \in BOOLEAN
      BY RecordIs DEF Fit, Shape
    <3>2. ~p.ordered
      BY <2>3, Zenon DEF Fit, Shape
    <3> QED
      BY <3>1, <3>2
  <2>7. ~Shuffled(mode)
    BY <2>6 DEF shuffling
  <2>8. View(r) = f /\ r.pos = 1
    BY <2>5, <2>7 DEF Loaded
  <2> QED
    BY <1>4, <1>6, <2>8 DEF f
<1>7. CASE ~(AtEnd(q) /\ Beside(p, NextFolder) # <<>>)
  <2>1. r \in AdvancedNext(q)
    BY <1>7 DEF Onward
  <2> QED
    BY <1>4, <1>5, <1>7, <2>1
<1> QED
  BY <1>6, <1>7

LEMMA NextFollows == ASSUME QueueInv, FolderPlays PROVE NextFollowsLoaded
<1> SUFFICES ASSUME loaded # NoTrack, ~shuffling(queue), NEW p \in refresh_stale_source(queue), Reach(p) # {},
                    NEW q \in Resynced(p), NEW r \in Onward(q)
             PROVE  \E i \in Reach(p) :
                      IF i < Count(p) THEN Current(r) = View(p)[i + 1]
                      ELSE IF Beside(p, NextFolder) = <<>> THEN Current(r) = View(p)[1]
                      ELSE View(r) = Beside(p, NextFolder) /\ r.pos = 1
  BY Zenon DEF NextFollowsLoaded
<1>1. Fit(queue) /\ library \in Seq(Tracks) /\ loaded \in Tracks
  BY LibraryIs DEF QueueInv
<1>2. Fit(p)
  BY <1>1, RefreshIs
<1>3. Count(p) \in Nat /\ Count(p) # 0
  <2>1. Count(p) \in Nat
    BY <1>2, ShapeIs DEF Fit
  <2>2. Reach(p) \subseteq 1..Count(p)
    BY DEF Reach
  <2> QED
    BY <2>1, <2>2
<1>4. ~shuffling(p)
  <2>1. p.ordered = queue.ordered
    BY <1>1, <1>3, RefreshIs, ClearIs, Zenon
  <2> QED
    BY <2>1 DEF shuffling
<1>5. CASE Current(p) = loaded
  <2>1. q = p
    BY <1>3, <1>5 DEF Resynced
  <2>2. p.pos \in 1..Count(p) /\ View(p)[p.pos] = loaded
    BY <1>2, <1>3, <1>5, FitPlace
  <2>3. p.pos \in Reach(p)
    <3>1. p.pos - p.pos \in (-LOCATE_RADIUS)..LOCATE_RADIUS
      BY <1>3, <2>2, BoundsAssumption
    <3> QED
      BY <2>2, <3>1 DEF Reach
  <2>4. IF p.pos < Count(p) THEN Current(r) = View(p)[p.pos + 1]
        ELSE IF Beside(p, NextFolder) = <<>> THEN Current(r) = View(p)[1]
        ELSE View(r) = Beside(p, NextFolder) /\ r.pos = 1
    BY <1>1, <1>2, <1>4, <2>1, <2>2, PlacedOnward, Zenon
  <2> QED
    BY <2>3, <2>4, Zenon
<1>6. CASE Current(p) # loaded
  <2>1. p.custom
    BY <1>3, <1>6, ResyncedPlays
  <2>2. q = playlist_locate(p, loaded)
    BY <1>6, <2>1 DEF Resynced
  <2>3. PICK i \in Reach(p) : i \in 1..Count(p) /\ q = Placed(p, i)
    BY <1>2, <2>2, LocateReaches
  <2>4. q.pos = i /\ Same(p, q)
    BY <1>2, <2>3, PlacedFits
  <2>5. q.custom
    BY <2>1, <2>4, SameIs
  <2>6. Beside(q, NextFolder) = Beside(p, NextFolder)
    BY <2>1, <2>5 DEF Beside
  <2>7. IF i < Count(p) THEN Current(r) = View(p)[i + 1]
        ELSE IF Beside(p, NextFolder) = <<>> THEN Current(r) = View(p)[1]
        ELSE View(r) = Beside(p, NextFolder) /\ r.pos = 1
    BY <1>1, <1>2, <1>4, <2>3, <2>4, <2>6, PlacedOnward, Zenon
  <2> QED
    BY <2>7, Zenon
<1> QED
  BY <1>5, <1>6

\* Wherever the track that plays is now in the queue, the next key goes on from
\* there, and what was read ahead at its end is what plays (device_state_next,
\* device_state_advance_auto, playlist_resync_to_current, playlist_peek_auto).
THEOREM GoesOn == Spec => []GoesOnRightly
<1>1. QueueInv /\ FolderPlays => GoesOnRightly
  BY PeekHolds, NextFollows DEF GoesOnRightly
<1> QED
  BY <1>1, QueueInvariant, FolderQueuesPlay, PTL

-----------------------------------------------------------------------------
(* The additions of a library list go back to their slots: put in one after *)
(* the other, the first slot first, they make the list the page showed.     *)

LEMMA AtAll ==
  ASSUME NEW T, NEW s \in Seq(T)
  PROVE  At(s, 1..Len(s)) = s
<1> DEFINE n == Len(s)
           P == 1..n
<1>6. n \in Nat
  OBVIOUS
<1>7. Cardinality(P) = n
  <2> HIDE DEF n
  <2>1. Cardinality(1..n) = n
    BY <1>6, FS_Interval
  <2> QED
    BY <2>1
<1>1. n \in Nat /\ PlacesIn(P, n) /\ Cardinality(P) = n
  BY <1>6, <1>7 DEF PlacesIn
<1>2. ASSUME NEW k \in 1..n PROVE Rank(P, k) = k
  <2>1. k \in Nat /\ 1..k \subseteq P
    BY <1>6
  <2> HIDE DEF P
  <2> QED
    BY <1>1, <2>1, RankOfAll
<1>3. \A k \in 1..n : k \in P
  OBVIOUS
<1> HIDE DEF P
<1>4. \A k \in 1..n : InOrder(P)[k] = k
  BY <1>1, <1>2, <1>3, InOrderIs
<1>5. /\ At(s, P) \in Seq(T) /\ Len(At(s, P)) = n
      /\ \A k \in 1..n : At(s, P)[k] = s[InOrder(P)[k]]
  BY <1>1, AtIs
<1>8. At(s, P) = s
  BY <1>4, <1>5
<1> QED
  BY <1>8 DEF P

\* The ranks, with one place more.
LEMMA RankAdded ==
  ASSUME NEW S, NEW n, PlacesIn(S, n), NEW a \in 1..n, a \notin S
  PROVE  /\ PlacesIn(S \cup {a}, n) /\ Cardinality(S \cup {a}) = Cardinality(S) + 1
         /\ \A i \in Int : Rank(S \cup {a}, i) = Rank(S, i) + (IF a <= i THEN 1 ELSE 0)
<1> DEFINE R == S \cup {a}
<1>4. n \in Nat /\ S \subseteq 1..n
  BY DEF PlacesIn
<1>5. R \subseteq 1..n /\ a \in Int
  BY <1>4
<1>6. IsFiniteSet(S)
  BY RankType
<1>1. PlacesIn(R, n) /\ IsFiniteSet(S) /\ a \in Int
  BY <1>4, <1>5, <1>6 DEF PlacesIn
<1>2. Cardinality(R) = Cardinality(S) + 1
  BY <1>1, FS_AddElement
<1>3. ASSUME NEW i \in Int PROVE Rank(R, i) = Rank(S, i) + (IF a <= i THEN 1 ELSE 0)
  <2> DEFINE B == {j \in S : j <= i}
  <2>1. B \subseteq S /\ a \notin B
    OBVIOUS
  <2>2. Rank(S, i) = Cardinality(B) /\ Rank(S, i) \in Nat
    BY RankType DEF Rank
  <2>3. Rank(R, i) = Cardinality({j \in R : j <= i})
    BY DEF Rank
  <2>4. a <= i => {j \in R : j <= i} = B \cup {a}
    OBVIOUS
  <2>5. ~(a <= i) => {j \in R : j <= i} = B
    OBVIOUS
  <2> HIDE DEF B, R
  <2>6. IsFiniteSet(B)
    BY <1>1, <2>1, FS_Subset, Zenon
  <2>7. Cardinality(B \cup {a}) = Cardinality(B) + 1
    BY <2>1, <2>6, FS_AddElement
  <2>8. CASE a <= i
    BY <2>2, <2>3, <2>4, <2>7, <2>8
  <2>9. CASE ~(a <= i)
    <3>1. Rank(R, i) = Rank(S, i)
      BY <2>2, <2>3, <2>5, <2>9
    <3> QED
      BY <2>2, <2>9, <3>1
  <2> QED
    BY <2>8, <2>9
<1> QED
  BY <1>1, <1>2, <1>3

\* One place more, behind an unbroken beginning, is an insertion there.
LEMMA PlaceAdded ==
  ASSUME NEW T, NEW s \in Seq(T), NEW S, PlacesIn(S, Len(s)),
         NEW a \in 1..Len(s), a \notin S, 1..(a - 1) \subseteq S
  PROVE  a \in 1..(Cardinality(S) + 1) /\ At(s, S \cup {a}) = InsertAt(At(s, S), a, s[a])
<1> DEFINE R == S \cup {a}
           n == Len(s)
           c == Cardinality(S)
           u == At(s, S)
           v == At(s, R)
           w == InsertAt(u, a, s[a])
<1>1. PlacesIn(R, n) /\ Cardinality(R) = c + 1 /\ \A i \in Int : Rank(R, i) = Rank(S, i) + (IF a <= i THEN 1 ELSE 0)
  BY RankAdded
<1>2. c \in Nat /\ n \in Nat /\ a \in Nat /\ a >= 1
  BY RankType
<1>3. \A i \in 0..(a - 1) : Rank(S, i) = i
  <2> TAKE i \in 0..(a - 1)
  <2>1. i \in Nat /\ 1..i \subseteq S
    BY <1>2
  <2> QED
    BY <2>1, RankOfAll
<1>4. a - 1 <= c
  BY <1>2, <1>3, RankType
<1>5. u \in Seq(T) /\ Len(u) = c /\ \A k \in 1..c : u[k] = s[InOrder(S)[k]]
  BY AtIs
<1>6. s[a] \in T
  OBVIOUS
<1> HIDE DEF u
<1>7. w \in Seq(T) /\ Len(w) = c + 1 /\ \A k \in 1..(c + 1) : w[k] = IF k < a THEN u[k] ELSE IF k = a THEN s[a] ELSE u[k - 1]
  <2>1. a \in 1..(Len(u) + 1)
    BY <1>2, <1>4, <1>5
  <2> QED
    <3> DEFINE x == s[a]
    <3>1. x \in T
      BY <1>6
    <3> HIDE DEF x
    <3>2. /\ InsertAt(u, a, x) \in Seq(T) /\ Len(InsertAt(u, a, x)) = Len(u) + 1
          /\ \A k \in 1..(Len(u) + 1) : InsertAt(u, a, x)[k] = IF k < a THEN u[k] ELSE IF k = a THEN x ELSE u[k - 1]
      <4>1. u \in Seq(T)
        BY <1>5
      <4>2. IsInserted(InsertAt(u, a, x), T, u, a, x)
        BY <2>1, <3>1, <4>1, Insertion, Zenon
      <4> QED
        BY <4>2, Zenon DEF IsInserted
    <3>3. w = InsertAt(u, a, x)
      BY DEF x
    <3> HIDE DEF w
    <3>4. /\ w \in Seq(T) /\ Len(w) = c + 1
          /\ \A k \in 1..(c + 1) : w[k] = IF k < a THEN u[k] ELSE IF k = a THEN x ELSE u[k - 1]
      BY <1>5, <3>2, <3>3
    <3> QED
      BY <3>4 DEF x
<1> HIDE DEF R
<1>8. v \in Seq(T) /\ Len(v) = c + 1 /\ \A k \in 1..(c + 1) : v[k] = s[InOrder(R)[k]]
  BY <1>1, AtIs
<1> HIDE DEF v, w
<1>9. ASSUME NEW k \in 1..(c + 1) PROVE v[k] = w[k]
  <2>1. PICK i \in R : Rank(R, i) = k
    BY <1>1, RankIsOnto
  <2>9. InOrder(R)[k] = i
    BY <1>1, <2>1, InOrderIs
  <2>10. i \in 1..n
    BY <1>1, <2>1 DEF PlacesIn
  <2>2. InOrder(R)[k] = i /\ i \in Int /\ i \in 1..n
    BY <2>9, <2>10
  <2>3. v[k] = s[i]
    BY <1>8, <2>2
  <2>4. i \in S \/ i = a
    BY <2>1 DEF R
  <2>5. ASSUME i \in S PROVE Rank(S, i) \in 1..c /\ u[Rank(S, i)] = s[i]
    BY <1>5, <2>5, RankIsOnto, InOrderIs
  <2>6. CASE i < a
    <3>1. i \in S /\ Rank(S, i) = i
      BY <1>2, <1>3, <2>2, <2>4, <2>6
    <3>2. k = i
      BY <1>1, <1>2, <2>1, <2>2, <2>6, <3>1
    <3> QED
      BY <1>7, <2>3, <2>5, <2>6, <3>1, <3>2
  <2>7. CASE i = a
    <3>1. Rank(S, a) = a - 1
      <4>1. {j \in S : j <= a} = {j \in S : j <= a - 1}
        <5>1. \A j \in S : j \in Int
          BY PlaceIs
        <5> QED
          BY <1>2, <5>1
      <4>2. Rank(S, a) = Rank(S, a - 1)
        BY <4>1 DEF Rank
      <4> QED
        BY <1>2, <1>3, <4>2
    <3>2. k = a
      BY <1>1, <1>2, <2>1, <2>7, <3>1
    <3> QED
      BY <1>7, <2>3, <2>7, <3>2
  <2>8. CASE i > a
    <3>1. i \in S
      BY <1>2, <2>2, <2>4, <2>8
    <3> DEFINE h == Rank(S, i)
    <3>5. h \in 1..c /\ u[h] = s[i]
      BY <2>5, <3>1
    <3>2. k = h + 1
      BY <1>1, <1>2, <2>1, <2>2, <2>8
    <3>3. h >= a
      <4>3. a - 1 \in Int /\ a - 1 < i
        BY <1>2, <2>2, <2>8
      <4>1. Rank(S, a - 1) < h
        BY <4>3, <3>1, RankGrows
      <4>2. Rank(S, a - 1) = a - 1
        BY <1>2, <1>3
      <4> HIDE DEF h
      <4> QED
        BY <1>2, <3>5, <4>1, <4>2
    <3> HIDE DEF h
    <3>4. ~(k < a) /\ k # a /\ k - 1 = h
      BY <1>2, <3>2, <3>3, <3>5
    <3> QED
      BY <1>7, <2>3, <3>4, <3>5
  <2> QED
    BY <1>2, <2>2, <2>6, <2>7, <2>8
<1>10. v = w
  BY <1>7, <1>8, <1>9
<1> QED
  BY <1>2, <1>4, <1>10 DEF R, u, v, w

\* The rows of the list keep the order of the list.
RowsInOrder(q) ==
  \A i, j \in 1..Count(q) : i < j /\ q.order[i] <= Len(q.rows) /\ q.order[j] <= Len(q.rows) => q.order[i] < q.order[j]

LEMMA RowsFirst ==
  ASSUME NEW q, Fit(q), RowsInOrder(q)
  PROVE  At(View(q), {i \in 1..Count(q) : q.order[i] <= Len(q.rows)}) = q.rows
<1> DEFINE n == Count(q)
           o == q.order
           m == Len(q.rows)
           P == {i \in 1..n : o[i] <= m}
           v == View(q)
           rows == q.rows
<1>1. n \in Nat /\ m \in Nat /\ m <= n /\ rows \in Seq(Tracks) /\ Shape(q)
  <2>1. Shape(q)
    BY DEF Fit
  <2>2. Count(q) \in Nat /\ Len(q.rows) \in Nat /\ Len(q.added) \in Nat /\ Count(q) = Len(q.rows) + Len(q.added)
    BY <2>1, ShapeIs
  <2>3. rows \in Seq(Tracks)
    BY <2>1, RecordIs DEF Shape
  <2> DEFINE k == Len(q.added)
  <2>4. n \in Nat /\ m \in Nat /\ k \in Nat /\ n = m + k
    BY <2>2
  <2> HIDE DEF n, m, k
  <2>5. m <= n
    BY <2>4
  <2> QED
    BY <2>1, <2>3, <2>4, <2>5, Zenon
<1>2. /\ \A i, j \in 1..n : o[i] = o[j] => i = j
      /\ \A e \in 1..n : \E i \in 1..n : o[i] = e
      /\ \A i \in 1..n : o[i] \in 1..n
      /\ v \in Seq(Tracks) /\ Len(v) = n
      /\ \A i \in 1..n : v[i] = Paths(q)[o[i]]
  BY FitIs
<1>3. \A e \in 1..n : e <= m => Paths(q)[e] = rows[e]
  BY <1>1, ShapeIs
<1>4. \A i, j \in 1..n : i < j /\ o[i] <= m /\ o[j] <= m => o[i] < o[j]
  BY DEF RowsInOrder
<1>5. rows \in Seq(Tracks) /\ Len(rows) = m
  BY <1>1
<1> HIDE DEF n, o, m, v, rows
<1>6. PlacesIn(P, n) /\ PlacesIn(P, Len(v))
  BY <1>1, <1>2 DEF PlacesIn
<1>7. ASSUME NEW i \in P PROVE Rank(P, i) = o[i]
  <2> DEFINE B == {j \in P : j <= i}
             k == o[i]
             f == [j \in B |-> o[j]]
  <2>1. k \in 1..n /\ k <= m /\ i \in 1..n
    BY <1>2
  <2>2. \A j \in B : j \in 1..n /\ o[j] \in 1..k
    <3> TAKE j \in B
    <3>1. j \in P /\ j \in 1..n /\ j <= i /\ o[j] <= m
      OBVIOUS
    <3>2. j = i \/ (j < i /\ o[j] < o[i])
      BY <1>1, <1>4, <2>1, <3>1
    <3>3. o[j] \in 1..n
      BY <1>2, <3>1
    <3> QED
      BY <2>1, <3>1, <3>2, <3>3
  <2>3. ASSUME NEW e \in 1..k PROVE \E j \in B : o[j] = e
    <3>1. e \in 1..n /\ e <= m
      BY <1>1, <2>1
    <3>2. PICK j \in 1..n : o[j] = e
      BY <1>2, <3>1
    <3>3. j <= i
      <4>1. ASSUME i < j PROVE FALSE
        <5>1. o[i] < o[j]
          BY <1>4, <2>1, <3>1, <3>2, <4>1
        <5> QED
          BY <2>1, <3>2, <5>1
      <4> QED
        BY <1>1, <2>1, <4>1
    <3>4. j \in B
      BY <3>1, <3>2, <3>3
    <3> QED
      BY <3>2, <3>4
  <2> HIDE DEF B, k
  <2>4. f \in Injection(B, 1..k) /\ f \in Surjection(B, 1..k)
    BY <1>2, <2>2, <2>3 DEF Injection, IsInjective, Surjection
  <2>5. k \in Nat
    BY <2>1
  <2>6. IsFiniteSet(1..k) /\ Cardinality(1..k) = k
    BY <2>5, FS_Interval
  <2>7. IsFiniteSet(B)
    <3>1. IsFiniteSet(P) /\ B \subseteq P
      BY <1>6, RankType DEF B
    <3> QED
      BY <3>1, FS_Subset, Zenon
  <2> HIDE DEF f
  <2>8. Cardinality(B) = Cardinality(1..k)
    BY <2>4, <2>6, <2>7, FS_Injection, Zenon
  <2> QED
    BY <2>6, <2>8 DEF Rank, B, k
<1>8. Cardinality(P) = m
  <2> DEFINE f == [j \in P |-> o[j]]
  <2>1. \A j \in P : j \in 1..n /\ o[j] \in 1..m
    BY <1>1, <1>2
  <2>2. ASSUME NEW e \in 1..m PROVE \E j \in P : o[j] = e
    <3>1. e \in 1..n /\ e <= m
      BY <1>1
    <3> QED
      BY <1>2, <3>1
  <2> HIDE DEF P
  <2>3. f \in Injection(P, 1..m) /\ f \in Surjection(P, 1..m)
    BY <1>2, <2>1, <2>2 DEF Injection, IsInjective, Surjection
  <2>4. IsFiniteSet(1..m) /\ Cardinality(1..m) = m
    BY <1>1, FS_Interval
  <2>5. IsFiniteSet(P)
    BY <1>6, RankType
  <2> HIDE DEF f
  <2>6. Cardinality(P) = Cardinality(1..m)
    BY <2>3, <2>4, <2>5, FS_Injection, Zenon
  <2> QED
    BY <2>4, <2>6
<1>9. \A i \in P : i \in 1..n /\ o[i] <= m
  OBVIOUS
<1> HIDE DEF P
<1>10. /\ At(v, P) \in Seq(Tracks) /\ Len(At(v, P)) = m
       /\ \A k \in 1..m : At(v, P)[k] = v[InOrder(P)[k]]
  BY <1>2, <1>6, <1>8, AtIs
<1>11. ASSUME NEW k \in 1..m PROVE At(v, P)[k] = rows[k]
  <2>1. InOrder(P)[k] \in P /\ Rank(P, InOrder(P)[k]) = k
    BY <1>6, <1>8, InOrderIs
  <2> DEFINE i == InOrder(P)[k]
  <2>2. i \in P /\ o[i] = k
    BY <1>7, <2>1
  <2> HIDE DEF i
  <2>3. v[i] = Paths(q)[k] /\ k \in 1..n
    BY <1>1, <1>2, <1>9, <2>2
  <2>4. v[i] = rows[k]
    BY <1>3, <2>3
  <2> QED
    BY <1>10, <2>4 DEF i
<1>12. At(v, P) = rows
  BY <1>5, <1>10, <1>11
<1> QED
  BY <1>12 DEF v, P, rows, n, o, m

\* A library list as it is read, before anything goes back behind it.
Listing(rows) == order_identity(Fresh(rows, <<>>, TRUE, FALSE), 1)

LEMMA ListingIs ==
  ASSUME NEW rows \in Seq(Tracks), rows # <<>>
  PROVE  Fit(Listing(rows)) /\ View(Listing(rows)) = rows /\ Count(Listing(rows)) # 0
<1> DEFINE q == Fresh(rows, <<>>, TRUE, FALSE)
           r == Listing(rows)
<1>1. Shape(q) /\ Count(q) = Len(rows) /\ Paths(q) = rows
  BY FreshRows, Zenon
<1>2. r = order_identity(q, 1) /\ 1 \in Nat \ {0}
  BY DEF Listing
<1> HIDE DEF q, r
<1>3. Fit(r) /\ Same(q, r) /\ View(r) = Paths(q)
  BY <1>1, <1>2, IdentityIs
<1>4. Count(r) = Len(rows)
  BY <1>1, <1>3, SameIs
<1>5. Len(rows) # 0
  OBVIOUS
<1> QED
  BY <1>1, <1>3, <1>4, <1>5 DEF r

\* Only what the page shows counts when the additions go back.
LEMMA WithExtraViews ==
  ASSUME NEW p, Fit(p), Count(p) # 0, NEW q, Fit(q), Count(q) # 0, View(p) = View(q), NEW extra \in Seq(Extra)
  PROVE  View(WithExtra(p, extra)) = View(WithExtra(q, extra))
<1>1. PICK f : /\ f[0] = p /\ WithExtra(p, extra) = f[Len(extra)]
               /\ \A n \in 1..Len(extra) : f[n] = InsertedAt(f[n - 1], extra[n].path, extra[n].slot)
  BY WithExtraSteps
<1>2. PICK g : /\ g[0] = q /\ WithExtra(q, extra) = g[Len(extra)]
               /\ \A n \in 1..Len(extra) : g[n] = InsertedAt(g[n - 1], extra[n].path, extra[n].slot)
  BY WithExtraSteps
<1> DEFINE Alike(r, s) == Fit(r) /\ Fit(s) /\ Count(r) # 0 /\ Count(s) # 0 /\ View(r) = View(s)
           Good == {n \in Nat : n <= Len(extra) => Alike(f[n], g[n])}
<1>3. ASSUME NEW r, NEW s, NEW e \in Extra, Alike(r, s)
      PROVE  Alike(InsertedAt(r, e.path, e.slot), InsertedAt(s, e.path, e.slot))
  <2> DEFINE t == e.path
             slot == e.slot
             a == InsertedAt(r, t, slot)
             b == InsertedAt(s, t, slot)
  <2>1. t \in Tracks /\ slot \in Nat \ {0}
    BY DEF Extra
  <2> HIDE DEF t, slot, a, b
  <2>2. Added(r, a, t, Least(slot, Count(r) + 1)) /\ Added(s, b, t, Least(slot, Count(s) + 1))
    BY <1>3, <2>1, InsertedAtIs, Zenon DEF a, b
  <2>3. Len(View(r)) = Count(r) /\ Len(View(s)) = Count(s)
    BY <1>3, FitIs, Zenon
  <2>4. Count(r) = Count(s)
    BY <1>3, <2>3
  <2>5. Fit(a) /\ Fit(b) /\ View(a) = View(b)
    BY <1>3, <2>2, <2>4, Zenon DEF Added
  <2>6. Count(a) = Count(r) + 1 /\ Count(b) = Count(s) + 1
    BY <2>2, Zenon DEF Added
  <2>7. Count(r) \in Nat
    BY <1>3, ShapeIs DEF Fit
  <2>8. Count(a) # 0 /\ Count(b) # 0
    BY <2>4, <2>6, <2>7
  <2> QED
    BY <2>5, <2>8 DEF a, b, t, slot
<1>4. Len(extra) \in Nat /\ \A n \in 1..Len(extra) : extra[n] \in Extra
  OBVIOUS
<1>5. Alike(f[0], g[0])
  BY <1>1, <1>2
<1> HIDE DEF Alike
<1>6. 0 \in Good
  BY <1>5
<1>7. ASSUME NEW n \in Nat, n \in Good PROVE n + 1 \in Good
  <2>1. CASE n + 1 <= Len(extra)
    <3>1. n + 1 \in 1..Len(extra) /\ (n + 1) - 1 = n /\ n <= Len(extra)
      BY <1>4, <2>1
    <3>2. /\ f[n + 1] = InsertedAt(f[n], extra[n + 1].path, extra[n + 1].slot)
          /\ g[n + 1] = InsertedAt(g[n], extra[n + 1].path, extra[n + 1].slot)
      BY <1>1, <1>2, <3>1
    <3>3. Alike(f[n], g[n]) /\ extra[n + 1] \in Extra
      BY <1>4, <1>7, <3>1
    <3>4. Alike(f[n + 1], g[n + 1])
      BY <1>3, <3>2, <3>3, Zenon
    <3> QED
      BY <3>4
  <2>2. CASE ~(n + 1 <= Len(extra))
    BY <2>2
  <2> QED
    BY <2>1, <2>2
<1>8. Len(extra) \in Good
  BY <1>4, <1>6, <1>7, Induction
<1> QED
  BY <1>1, <1>2, <1>4, <1>8 DEF Alike

LEMMA AdditionsGoBack ==
  ASSUME NEW q, Fit(q), q.rows # <<>>, RowsInOrder(q)
  PROVE  View(WithExtra(Listing(q.rows), Additions(q))) = View(q)
<1> DEFINE n == Count(q)
           o == q.order
           m == Len(q.rows)
           A == {i \in 1..n : o[i] > m}
           v == View(q)
           extra == Additions(q)
           c == Cardinality(A)
           P(k) == {i \in 1..n : i \in A => Rank(A, i) <= k}
           Z == {i \in 1..n : o[i] <= m}
           start == Listing(q.rows)
<1>1. n \in Nat /\ m \in Nat /\ q.rows \in Seq(Tracks)
  BY ShapeIs, RecordIs DEF Fit, Shape
<1>2. /\ v \in Seq(Tracks) /\ Len(v) = n /\ (\A i \in 1..n : o[i] \in 1..n) /\ (\A i \in 1..n : v[i] \in Tracks)
  BY FitIs
<1>3. /\ extra \in Seq(Extra) /\ PlacesIn(A, n) /\ Len(extra) = c
      /\ \A k \in 1..c : extra[k].slot = InOrder(A)[k] /\ extra[k].path = v[InOrder(A)[k]]
  BY AdditionsType, Zenon
<1>4. Fit(start) /\ View(start) = q.rows /\ Count(start) # 0
  BY <1>1, ListingIs
<1>5. At(v, Z) = q.rows
  BY RowsFirst, Zenon
<1>6. \A i \in 1..n : i \in Z <=> i \notin A
  BY <1>1, <1>2
<1>7. Z \subseteq 1..n /\ A \subseteq 1..n
  OBVIOUS
<1>8. c \in Nat /\ \A i \in A : Rank(A, i) \in 1..c
  BY <1>3, RankType, RankIsOnto
<1> HIDE DEF n, o, m, A, v, extra, c, Z, start
<1>9. PICK f : /\ f[0] = start /\ WithExtra(start, extra) = f[Len(extra)]
               /\ \A k \in 1..Len(extra) : f[k] = InsertedAt(f[k - 1], extra[k].path, extra[k].slot)
  BY <1>3, WithExtraSteps
<1>10. P(0) = Z
  <2>1. \A i \in A : ~(Rank(A, i) <= 0)
    BY <1>8
  <2> QED
    BY <1>6, <1>7, <2>1
<1>11. P(c) = 1..n
  BY <1>8
<1>12. \A k : PlacesIn(P(k), n)
  BY <1>1 DEF PlacesIn
<1> DEFINE Fine(r, k) == Fit(r) /\ Count(r) # 0 /\ View(r) = At(v, P(k))
           Good == {k \in Nat : k <= c => Fine(f[k], k)}
<1>13. 0 \in Good
  BY <1>4, <1>5, <1>9, <1>10
<1>14. ASSUME NEW k \in Nat, k \in Good PROVE k + 1 \in Good
  <2> SUFFICES ASSUME k + 1 <= c PROVE Fine(f[k + 1], k + 1)
    OBVIOUS
  <2> DEFINE a == InOrder(A)[k + 1]
             S == P(k)
             r == f[k]
             x == v[a]
             s == InsertedAt(r, x, a)
  <2>1. k + 1 \in 1..c /\ k <= c /\ (k + 1) - 1 = k
    BY <1>8
  <2>2. a \in A /\ Rank(A, a) = k + 1
    BY <1>3, <2>1, InOrderIs DEF c
  <2>3. Fit(r) /\ Count(r) # 0 /\ View(r) = At(v, S)
    BY <1>14, <2>1
  <2>4. f[k + 1] = s
    <3>1. f[k + 1] = InsertedAt(f[k], extra[k + 1].path, extra[k + 1].slot)
      BY <1>3, <1>9, <2>1
    <3>2. extra[k + 1].path = x /\ extra[k + 1].slot = a
      BY <1>3, <2>1
    <3> QED
      BY <3>1, <3>2
  <2> HIDE DEF a
  <2>5. a \in 1..n /\ a \notin S
    BY <1>7, <2>2
  <2>6. 1..(a - 1) \subseteq S
    <3> SUFFICES ASSUME NEW i \in 1..(a - 1) PROVE i \in S
      OBVIOUS
    <3>1. i \in 1..n /\ i < a /\ i \in Int
      BY <1>1, <2>5
    <3>2. ASSUME i \in A PROVE Rank(A, i) <= k
      <4>1. Rank(A, i) < Rank(A, a)
        BY <1>3, <2>2, <3>1, RankGrows
      <4>2. Rank(A, i) \in 1..c
        BY <1>8, <3>2
      <4> QED
        BY <2>2, <4>1, <4>2
    <3> QED
      BY <3>1, <3>2
  <2>7. P(k + 1) = S \cup {a}
    <3>1. ASSUME NEW i \in A, Rank(A, i) = k + 1 PROVE i = a
      BY <1>3, <2>2, <3>1, RankIsOnto
    <3>2. \A i \in A : Rank(A, i) <= k + 1 <=> Rank(A, i) <= k \/ i = a
      BY <1>8, <2>2, <3>1
    <3> QED
      BY <2>5, <3>2
  <2>8. PlacesIn(S, Len(v)) /\ a \in 1..Len(v)
    BY <1>2, <1>12, <2>5
  <2> HIDE DEF S, P
  <2>9. a \in 1..(Cardinality(S) + 1) /\ At(v, S \cup {a}) = InsertAt(At(v, S), a, v[a])
    BY <1>2, <2>5, <2>6, <2>8, PlaceAdded, Zenon
  <2>10. Count(r) = Cardinality(S)
    <3>1. Len(View(r)) = Count(r)
      BY <2>3, FitIs, Zenon
    <3>2. Len(At(v, S)) = Cardinality(S)
      BY <1>2, <2>8, AtIs, Zenon
    <3> QED
      BY <2>3, <3>1, <3>2
  <2>11. x \in Tracks /\ a \in Nat \ {0}
    BY <1>1, <1>2, <2>5
  <2>12. Least(a, Count(r) + 1) = a
    <3>1. Cardinality(S) \in Nat
      BY <2>8, RankType
    <3> QED
      BY <2>9, <2>10, <3>1 DEF Least
  <2> HIDE DEF x, r, s
  <2>13. Added(r, s, x, Least(a, Count(r) + 1))
    BY <2>3, <2>11, InsertedAtIs, Zenon DEF s
  <2>14. Fit(s) /\ View(s) = InsertAt(View(r), a, x) /\ Count(s) = Count(r) + 1
    BY <2>12, <2>13, Zenon DEF Added
  <2>15. Count(s) # 0
    <3>1. Count(r) \in Nat
      BY <2>3, ShapeIs DEF Fit
    <3> QED
      BY <2>14, <3>1
  <2>16. View(s) = At(v, P(k + 1))
    BY <2>3, <2>7, <2>9, <2>14 DEF x
  <2> QED
    BY <2>4, <2>14, <2>15, <2>16
<1> HIDE DEF Fine
<1>15. c \in Good
  BY <1>8, <1>13, <1>14, Induction
<1>16. Fine(f[c], c)
  BY <1>8, <1>15
<1>17. View(f[c]) = At(v, P(c))
  BY <1>16 DEF Fine
<1>18. At(v, 1..n) = v
  BY <1>2, AtAll
<1>19. View(WithExtra(start, extra)) = v
  BY <1>3, <1>9, <1>11, <1>17, <1>18
<1> QED
  BY <1>19 DEF start, extra, v

-----------------------------------------------------------------------------
(* What is on the card is the queue, as long as the revision says so.       *)

\* The entries and their order are what they should be: a list of the library
\* has the rows it has now, in their order unless they are dealt.
Settled(q, m, list) ==
  /\ Count(q) = 0 => q.revised
  /\ q.ordered => q.rows = <<>>
  /\ q.rows # <<>> /\ ~q.stale => q.rows = list
  /\ ~Shuffled(m) \/ q.ordered => RowsInOrder(q)

\* The card has the paths; or the query, and what goes back behind its list.
OnCard(q, card) ==
  IF q.rows = <<>> THEN card.form = "list" /\ card.paths = View(q) /\ card.custom = q.custom
  ELSE card.form = "query" /\ View(WithExtra(Listing(q.rows), card.extra)) = View(q)

Written(q, m, card) == ~q.revised /\ ~q.stale /\ (~Shuffled(m) \/ q.ordered) => OnCard(q, card)

CardInv == Settled(queue, mode, library) /\ Written(queue, mode, saved)
Good(q) == Fit(q) /\ Settled(q, mode, library) /\ Written(q, mode, saved)

\* A queue of paths that the revision has moved for.
LEMMA PathsSettle ==
  ASSUME NEW q, Fit(q), q.rows = <<>>, q.revised, NEW m, NEW list, NEW card
  PROVE  Settled(q, m, list) /\ Written(q, m, card)
<1>1. \A i \in 1..Count(q) : ~(q.order[i] <= Len(q.rows))
  <2> TAKE i \in 1..Count(q)
  <2>1. q.order[i] \in 1..Count(q)
    BY FitIs
  <2>2. Len(q.rows) = 0
    OBVIOUS
  <2>3. Count(q) \in Nat
    BY ShapeIs DEF Fit
  <2> QED
    BY <2>1, <2>2, <2>3
<1>2. RowsInOrder(q)
  BY <1>1, Zenon DEF RowsInOrder
<1> QED
  BY <1>2, Zenon DEF Settled, Written

LEMMA PathsAreGood == ASSUME NEW q, Fit(q), q.rows = <<>>, q.revised PROVE Good(q)
BY PathsSettle DEF Good

\* Another place, the same queue.
LEMMA PlacedSettles ==
  ASSUME NEW q, Fit(q), NEW i \in 1..Count(q), NEW m, NEW list, NEW card, Settled(q, m, list), Written(q, m, card)
  PROVE  Settled(Placed(q, i), m, list) /\ Written(Placed(q, i), m, card)
<1> DEFINE r == Placed(q, i)
<1>1. Fit(r) /\ Same(q, r) /\ r.order = q.order /\ View(r) = View(q) /\ r.revised = q.revised
  BY PlacedFits
<1> HIDE DEF r
<1>2. r.rows = q.rows /\ r.stale = q.stale /\ r.custom = q.custom /\ r.ordered = q.ordered /\ Count(r) = Count(q)
  BY <1>1, SameIs
<1>3. RowsInOrder(q) => RowsInOrder(r)
  BY <1>1, <1>2, Zenon DEF RowsInOrder
<1>4. Settled(r, m, list)
  BY <1>1, <1>2, <1>3, Zenon DEF Settled
<1>5. OnCard(q, card) => OnCard(r, card)
  BY <1>1, <1>2, Zenon DEF OnCard
<1>6. Written(r, m, card)
  BY <1>1, <1>2, <1>5, Zenon DEF Written
<1> QED
  BY <1>4, <1>6 DEF r

LEMMA PlacedIsGood == ASSUME NEW q, Good(q), NEW i \in 1..Count(q) PROVE Good(Placed(q, i))
BY PlacedSettles, PlacedFits DEF Good

LEMMA LocatedIsGood == ASSUME NEW q, Good(q), NEW t PROVE Good(playlist_locate(q, t))
<1>1. playlist_locate(q, t) = q \/ \E i \in 1..Count(q) : playlist_locate(q, t) = Placed(q, i)
  BY LocateIs DEF Good
<1> QED
  BY <1>1, PlacedIsGood

\* Only the revision.
LEMMA SavedSettles ==
  ASSUME NEW q, Fit(q), NEW m, NEW list, Settled(q, m, list), Count(q) # 0, NEW card,
         ~q.stale /\ (~Shuffled(m) \/ q.ordered) => OnCard(q, card)
  PROVE  Settled(Saved(q), m, list) /\ Written(Saved(q), m, card)
<1> DEFINE r == Saved(q)
<1>1. Fit(r) /\ Same(q, r) /\ r.order = q.order /\ View(r) = View(q)
  BY SavedFits
<1> HIDE DEF r
<1>2. r.rows = q.rows /\ r.stale = q.stale /\ r.custom = q.custom /\ r.ordered = q.ordered /\ Count(r) = Count(q)
  BY <1>1, SameIs
<1>3. RowsInOrder(q) => RowsInOrder(r)
  BY <1>1, <1>2, Zenon DEF RowsInOrder
<1>4. Settled(r, m, list)
  BY <1>1, <1>2, <1>3, Zenon DEF Settled
<1>5. OnCard(q, card) => OnCard(r, card)
  BY <1>1, <1>2, Zenon DEF OnCard
<1>6. Written(r, m, card)
  BY <1>1, <1>2, <1>5, Zenon DEF Written
<1> QED
  BY <1>4, <1>6 DEF r

\* The order of the entries themselves has the rows in order.
LEMMA IdentityOrder ==
  ASSUME NEW q, Shape(q), NEW start \in Nat \ {0}, NEW r, r = order_identity(q, start)
  PROVE  RowsInOrder(r)
<1>1. Same(q, r) /\ \A i \in 1..Count(q) : r.order[i] = i
  BY IdentityIs, Zenon
<1>2. Count(r) = Count(q)
  BY <1>1, SameIs
<1> QED
  BY <1>1, <1>2 DEF RowsInOrder

LEMMA StartedIsGood ==
  ASSUME NEW q, Shape(q), q.ordered => q.rows = <<>>, q.rows # <<>> => q.rows = library,
         NEW start \in Nat \ {0}, NEW r \in Started(q, start)
  PROVE  Good(r) /\ r.revised
<1>1. Fit(r) /\ Same(q, r) /\ r.revised /\ (~shuffling(q) => r = order_identity(q, start))
  BY StartedFits
<1>2. r.rows = q.rows /\ r.ordered = q.ordered
  BY <1>1, SameIs
<1>3. ASSUME ~Shuffled(mode) \/ r.ordered PROVE RowsInOrder(r)
  <2>1. ~shuffling(q)
    BY <1>2, <1>3 DEF shuffling
  <2> QED
    BY <1>1, <2>1, IdentityOrder
<1>4. Settled(r, mode, library)
  BY <1>1, <1>2, <1>3, Zenon DEF Settled
<1>5. Written(r, mode, saved)
  BY <1>1, Zenon DEF Written
<1> QED
  BY <1>1, <1>4, <1>5 DEF Good

\* Read again.
LEMMA RefreshedIsGood ==
  ASSUME NEW q, Good(q), library \in Seq(Tracks), NEW r \in refresh_stale_source(q)
  PROVE  Good(r)
<1>1. Fit(q)
  BY DEF Good
<1>2. CASE ~q.stale
  <2>1. r = q
    BY <1>1, <1>2, RefreshIs
  <2> QED
    BY <2>1
<1>3. CASE q.stale /\ library = <<>>
  <2>1. r = playlist_clear
    BY <1>1, <1>3, RefreshIs
  <2>2. r.rows = <<>> /\ r.revised
    BY <2>1 DEF playlist_clear, Fresh
  <2> QED
    BY <2>1, <2>2, ClearIs, PathsAreGood
<1>4. CASE q.stale /\ library # <<>>
  <2>1. PICK start \in Nat \ {0} : r \in Started(Reread(q), start)
    BY <1>1, <1>4, RefreshIs
  <2> DEFINE p == Reread(q)
  <2>2. Shape(p) /\ p.rows = library /\ p.ordered = q.ordered
    BY <1>1, <1>4, RereadShape
  <2>3. q.rows # <<>>
    BY <1>1, <1>4, Zenon DEF Fit, Shape
  <2>4. ~q.ordered
    BY <2>3, Zenon DEF Good, Settled
  <2> HIDE DEF p
  <2>5. p.ordered => p.rows = <<>>
    BY <2>2, <2>4, Zenon
  <2>6. r \in Started(p, start)
    BY <2>1 DEF p
  <2> QED
    BY <2>2, <2>5, <2>6, StartedIsGood
<1> QED
  BY <1>2, <1>3, <1>4

\* Writing the queue down makes the card right.
LEMMA PersistSettles ==
  ASSUME NEW q, Good(q), saved \in SavedTypes, queue_persist(q), UNCHANGED <<mode, library>>
  PROVE  CardInv'
<1>1. Fit(q) /\ Settled(q, mode, library) /\ Written(q, mode, saved)
  BY DEF Good
<1> SUFFICES Settled(queue', mode, library) /\ Written(queue', mode, saved')
  BY DEF CardInv
<1>2. CASE Count(q) = 0
  <2>1. queue' = q /\ saved' = saved
    BY <1>1, <1>2, PersistIs
  <2> QED
    BY <1>1, <2>1
<1>3. CASE Count(q) # 0
  <2>1. queue' = Saved(q)
    BY <1>1, <1>3, PersistIs
  <2>2. saved' = IF q.rows # <<>> THEN library_queue_save_query(q)
                 ELSE IF q.revised THEN library_queue_save(q)
                 ELSE library_queue_save_index(q)
    BY <1>3 DEF queue_persist
  <2>3. ASSUME ~q.stale, ~Shuffled(mode) \/ q.ordered PROVE OnCard(q, saved')
    <3>1. CASE q.rows # <<>>
      <4>1. saved' = library_queue_save_query(q)
        BY <2>2, <3>1
      <4>2. saved'.form = "query" /\ saved'.extra = Additions(q)
        BY <4>1 DEF library_queue_save_query
      <4>3. RowsInOrder(q)
        BY <1>1, <2>3, Zenon DEF Settled
      <4>4. View(WithExtra(Listing(q.rows), Additions(q))) = View(q)
        BY <1>1, <3>1, <4>3, AdditionsGoBack
      <4> QED
        BY <3>1, <4>2, <4>4 DEF OnCard
    <3>2. CASE q.rows = <<>> /\ q.revised
      <4>1. saved' = library_queue_save(q)
        BY <2>2, <3>2
      <4>2. saved'.form = "list" /\ saved'.paths = View(q) /\ saved'.custom = q.custom
        BY <4>1 DEF library_queue_save
      <4> QED
        BY <3>2, <4>2 DEF OnCard
    <3>3. CASE q.rows = <<>> /\ ~q.revised
      <4>1. saved' = library_queue_save_index(q)
        BY <2>2, <3>3
      <4>2. saved.form = "list" /\ saved.paths = View(q) /\ saved.custom = q.custom
        BY <1>1, <2>3, <3>3, Zenon DEF Written, OnCard
      <4>3. saved \in SavedLists
        BY <4>2, SavedIs
      <4>4. saved' = [saved EXCEPT !.pos = q.pos]
        BY <4>1, <4>2 DEF library_queue_save_index
      <4>5. saved'.form = saved.form /\ saved'.paths = saved.paths
        BY <4>3, <4>4 DEF SavedLists
      <4>6. saved'.custom = saved.custom
        BY <4>3, <4>4 DEF SavedLists
      <4> QED
        BY <3>3, <4>2, <4>5, <4>6 DEF OnCard
    <3> QED
      BY <3>1, <3>2, <3>3
  <2> DEFINE card == saved'
  <2> HIDE DEF card
  <2>4. ~q.stale /\ (~Shuffled(mode) \/ q.ordered) => OnCard(q, card)
    BY <2>3 DEF card
  <2>5. Settled(Saved(q), mode, library) /\ Written(Saved(q), mode, card)
    BY <1>1, <1>3, <2>4, SavedSettles
  <2> QED
    BY <2>1, <2>5 DEF card
<1> QED
  BY <1>2, <1>3

LEMMA PlaysSettle ==
  ASSUME QueueInv, NEW qs, \A q \in qs : Good(q), LoadAndPlay(qs)
  PROVE  CardInv'
<1>1. PICK q \in qs : \E r \in refresh_stale_source(q) : queue_persist(r)
  BY DEF LoadAndPlay
<1>2. PICK r \in refresh_stale_source(q) : queue_persist(r)
  BY <1>1
<1>3. Good(r)
  BY LibraryIs, RefreshedIsGood
<1>4. saved \in SavedTypes /\ UNCHANGED <<mode, library>>
  BY DEF QueueInv, LoadAndPlay
<1> QED
  BY <1>2, <1>3, <1>4, PersistSettles

\* An entry put in leaves the rows in order.
LEMMA InsertedOrder ==
  ASSUME NEW q, Fit(q), RowsInOrder(q), NEW slot \in 1..(Count(q) + 1), NEW r,
         r.order = InsertAt(q.order, slot, Count(q) + 1), r.rows = q.rows, Count(r) = Count(q) + 1
  PROVE  RowsInOrder(r)
<1> DEFINE n == Count(q)
           o == q.order
           m == Len(q.rows)
           w == InsertAt(o, slot, n + 1)
<1>1. n \in Nat /\ m \in Nat /\ m <= n
  <2> DEFINE k == Len(q.added)
  <2>1. n \in Nat /\ m \in Nat /\ k \in Nat /\ n = m + k
    BY ShapeIs DEF Fit
  <2> HIDE DEF n, m, k
  <2> QED
    BY <2>1
<1>2. o \in Seq(1..n) /\ Len(o) = n /\ \A i \in 1..n : o[i] \in 1..n
  BY FitIs
<1>3. \A i, j \in 1..n : i < j /\ o[i] <= m /\ o[j] <= m => o[i] < o[j]
  BY DEF RowsInOrder
<1> HIDE DEF n, o, m
<1>4. o \in Seq(Nat) /\ slot \in 1..(Len(o) + 1) /\ n + 1 \in Nat
  <2>1. 1..n \subseteq Nat
    OBVIOUS
  <2>2. o \in Seq(Nat)
    BY <1>2, <2>1, SeqMonotonic, Zenon
  <2> QED
    BY <1>1, <1>2, <2>2 DEF n
<1>5. IsInserted(w, Nat, o, slot, n + 1)
  BY <1>4, Insertion, Zenon
<1>6. \A k \in 1..(n + 1) : w[k] = IF k < slot THEN o[k] ELSE IF k = slot THEN n + 1 ELSE o[k - 1]
  BY <1>2, <1>5 DEF IsInserted
<1> HIDE DEF w
<1>7. slot \in 1..(n + 1)
  BY DEF n
<1>8. ASSUME NEW i \in 1..(n + 1), NEW j \in 1..(n + 1), i < j, w[i] <= m, w[j] <= m
      PROVE  w[i] < w[j]
  <2>1. i # slot /\ j # slot
    BY <1>1, <1>6, <1>8
  <2> DEFINE a == IF i < slot THEN i ELSE i - 1
             b == IF j < slot THEN j ELSE j - 1
  <2>2. a \in 1..n /\ b \in 1..n /\ a < b
    BY <1>1, <1>7, <1>8, <2>1
  <2>3. w[i] = o[a] /\ w[j] = o[b]
    BY <1>6, <2>1
  <2> HIDE DEF a, b
  <2> QED
    BY <1>3, <1>8, <2>2, <2>3
<1>9. r.order = w /\ Len(r.rows) = m /\ Count(r) = n + 1
  BY DEF w, n, m, o
<1> QED
  BY <1>8, <1>9 DEF RowsInOrder

\* An addition has the revision moved, and keeps the rows.
LEMMA AddedIsGood ==
  ASSUME NEW q, Fit(q), NEW m, NEW list, Settled(q, m, list), Count(q) # 0, NEW t \in Tracks,
         NEW slot \in 1..(Count(q) + 1), NEW r, Added(q, r, t, slot), r.order = InsertAt(q.order, slot, Count(q) + 1)
  PROVE  Settled(r, m, list) /\ r.revised
<1>1. /\ Count(r) = Count(q) + 1 /\ r.rows = q.rows /\ r.stale = q.stale /\ r.ordered = q.ordered /\ r.revised
  BY Zenon DEF Added
<1>2. RowsInOrder(q) => RowsInOrder(r)
  BY <1>1, InsertedOrder
<1>3. Settled(r, m, list)
  BY <1>1, <1>2, Zenon DEF Settled
<1> QED
  BY <1>1, <1>3

LEMMA InsertedOrders ==
  ASSUME NEW q, Fit(q), Count(q) # 0, NEW t \in Tracks, NEW wanted \in Nat \ {0}
  PROVE  /\ InsertedNext(q, t).order = InsertAt(q.order, Least(ChainSlot(q), Count(q) + 1), Count(q) + 1)
         /\ InsertedAt(q, t, wanted).order = InsertAt(q.order, Least(wanted, Count(q) + 1), Count(q) + 1)
<1>1. ASSUME NEW slot \in 1..(Count(q) + 1)
      PROVE  Pushed(q, t, slot) \in QueueRecord /\ Pushed(q, t, slot).order = InsertAt(q.order, slot, Count(q) + 1)
  BY PushedIs, Zenon
<1>2. ASSUME NEW p \in QueueRecord, NEW c, NEW i
      PROVE  [p EXCEPT !.chain = c].order = p.order /\ [p EXCEPT !.chain = c, !.pos = i].order = p.order
  BY <1>2 DEF QueueRecord
<1>3. Count(q) \in Nat /\ q.pos \in 1..Count(q)
  BY FitPlace, ShapeIs DEF Fit
<1>4. InsertedNext(q, t).order = InsertAt(q.order, Least(ChainSlot(q), Count(q) + 1), Count(q) + 1)
  <2> DEFINE slot == Least(ChainSlot(q), Count(q) + 1)
             p == Pushed(q, t, slot)
             c == [from |-> q.pos, slot |-> slot]
  <2>1. slot \in (q.pos + 1)..(Count(q) + 1)
    BY ChainSlotIs
  <2>2. InsertedNext(q, t) = [p EXCEPT !.chain = c]
    BY DEF InsertedNext
  <2> HIDE DEF slot
  <2>3. slot \in 1..(Count(q) + 1)
    BY <1>3, <2>1
  <2>4. p \in QueueRecord /\ p.order = InsertAt(q.order, slot, Count(q) + 1)
    BY <1>1, <2>3, Zenon
  <2> HIDE DEF p, c
  <2>5. InsertedNext(q, t).order = p.order
    BY <1>2, <2>2, <2>4
  <2> QED
    BY <2>4, <2>5 DEF slot
<1>5. InsertedAt(q, t, wanted).order = InsertAt(q.order, Least(wanted, Count(q) + 1), Count(q) + 1)
  <2> DEFINE slot == Least(wanted, Count(q) + 1)
             p == Pushed(q, t, slot)
             i == IF slot <= q.pos THEN p.pos + 1 ELSE p.pos
  <2>1. slot \in 1..(Count(q) + 1)
    BY InsertedAtIs, Zenon
  <2>4. p \in QueueRecord /\ p.order = InsertAt(q.order, slot, Count(q) + 1)
    BY <1>1, <2>1, Zenon
  <2>2. InsertedAt(q, t, wanted) = [p EXCEPT !.chain = NoChain, !.pos = IF slot <= q.pos THEN @ + 1 ELSE @]
    BY DEF InsertedAt
  <2> HIDE DEF slot, p
  <2>3. InsertedAt(q, t, wanted) = [p EXCEPT !.chain = NoChain, !.pos = i]
    BY <2>2, <2>4 DEF QueueRecord
  <2> HIDE DEF i
  <2>5. InsertedAt(q, t, wanted).order = p.order
    BY <1>2, <2>3, <2>4
  <2> QED
    BY <2>4, <2>5 DEF slot
<1> QED
  BY <1>4, <1>5

LEMMA InsertionsSettle ==
  ASSUME NEW q, Fit(q), NEW m, NEW list, NEW card, Settled(q, m, list), NEW t \in Tracks, NEW wanted \in Nat \ {0}
  PROVE  /\ Settled(InsertedNext(q, t), m, list) /\ Written(InsertedNext(q, t), m, card)
         /\ Settled(InsertedAt(q, t, wanted), m, list) /\ Written(InsertedAt(q, t, wanted), m, card)
<1>1. CASE Count(q) = 0
  <2> DEFINE r == FirstEntry(q, t)
  <2>1. InsertedNext(q, t) = r /\ InsertedAt(q, t, wanted) = r
    BY <1>1 DEF InsertedNext, InsertedAt
  <2>2. Fit(r) /\ r.rows = <<>> /\ r.revised
    BY <1>1, FirstEntryIs, Zenon
  <2> HIDE DEF r
  <2>3. Settled(r, m, list) /\ Written(r, m, card)
    BY <2>2, PathsSettle
  <2> QED
    BY <2>1, <2>3
<1>2. CASE Count(q) # 0
  <2>1. ASSUME NEW slot, slot \in 1..(Count(q) + 1), NEW r, Added(q, r, t, slot),
               r.order = InsertAt(q.order, slot, Count(q) + 1)
        PROVE  Settled(r, m, list) /\ Written(r, m, card)
    <3>1. Settled(r, m, list) /\ r.revised
      BY <1>2, <2>1, AddedIsGood
    <3> QED
      BY <3>1 DEF Written
  <2>2. Settled(InsertedNext(q, t), m, list) /\ Written(InsertedNext(q, t), m, card)
    <3> DEFINE slot == Least(ChainSlot(q), Count(q) + 1)
               r == InsertedNext(q, t)
    <3>1. Added(q, r, t, slot) /\ slot \in (q.pos + 1)..(Count(q) + 1)
      BY <1>2, InsertedNextIs, Zenon
    <3>2. r.order = InsertAt(q.order, slot, Count(q) + 1)
      BY <1>2, InsertedOrders, Zenon
    <3>3. Count(q) \in Nat /\ q.pos \in 1..Count(q)
      BY <1>2, FitPlace, ShapeIs DEF Fit
    <3> HIDE DEF slot, r
    <3>4. slot \in 1..(Count(q) + 1)
      BY <3>1, <3>3
    <3>5. Settled(r, m, list) /\ Written(r, m, card)
      BY <2>1, <3>1, <3>2, <3>4, Zenon
    <3> QED
      BY <3>5 DEF r
  <2>3. Settled(InsertedAt(q, t, wanted), m, list) /\ Written(InsertedAt(q, t, wanted), m, card)
    <3> DEFINE slot == Least(wanted, Count(q) + 1)
               r == InsertedAt(q, t, wanted)
    <3>1. Added(q, r, t, slot) /\ slot \in 1..(Count(q) + 1)
      BY <1>2, InsertedAtIs, Zenon
    <3>2. r.order = InsertAt(q.order, slot, Count(q) + 1)
      BY <1>2, InsertedOrders, Zenon
    <3> HIDE DEF slot, r
    <3>5. Settled(r, m, list) /\ Written(r, m, card)
      BY <2>1, <3>1, <3>2, Zenon
    <3> QED
      BY <3>5 DEF r
  <2> QED
    BY <2>2, <2>3
<1> QED
  BY <1>1, <1>2

LEMMA EditsSettle == ASSUME QueueInv, CardInv, Edit PROVE CardInv'
<1>1. Fit(queue) /\ library \in Seq(Tracks) /\ saved \in SavedTypes /\ Good(queue)
  BY LibraryIs DEF QueueInv, CardInv, Good
<1>2. ASSUME NEW q, Good(q), queue_persist(q), UNCHANGED <<mode, library>> PROVE CardInv'
  BY <1>1, <1>2, PersistSettles
<1>3. ASSUME NEW t \in Addable, playlist_insert_next(t) PROVE CardInv'
  <2>1. t \in Tracks /\ 1 \in Nat \ {0}
    BY ListsAssumption
  <2>2. Good(InsertedNext(queue, t))
    BY <1>1, <2>1, InsertionsFit, InsertionsSettle DEF Good
  <2> QED
    BY <1>2, <1>3, <2>2 DEF playlist_insert_next
<1>4. ASSUME NEW t \in Addable, NEW i \in 1..(Count(queue) + 1), playlist_insert_at(t, i) PROVE CardInv'
  <2>1. t \in Tracks /\ i \in Nat \ {0}
    <3>1. Count(queue) \in Nat
      BY <1>1, ShapeIs DEF Fit
    <3> QED
      BY <3>1, ListsAssumption
  <2>2. Good(InsertedAt(queue, t, i))
    BY <1>1, <2>1, InsertionsFit, InsertionsSettle DEF Good
  <2> QED
    BY <1>2, <1>4, <2>2 DEF playlist_insert_at
<1>5. ASSUME NEW slots, playlist_remove(slots) PROVE CardInv'
  <2>1. PICK q \in refresh_stale_source(queue) :
           LET r == Removed(q, slots)
           IN  IF r = q THEN queue' = q /\ UNCHANGED saved ELSE queue_persist(r)
    BY <1>5 DEF playlist_remove
  <2>2. UNCHANGED <<mode, library>>
    BY <1>5 DEF playlist_remove
  <2> DEFINE r == Removed(q, slots)
  <2>3. Good(q) /\ Fit(q)
    BY <1>1, RefreshedIsGood DEF Good
  <2>4. CASE r = q
    <3>1. queue' = q /\ UNCHANGED saved
      BY <2>1, <2>4
    <3> QED
      BY <2>2, <2>3, <3>1 DEF Good, CardInv
  <2>5. CASE r # q
    <3>1. queue_persist(r)
      BY <2>1, <2>5
    <3>2. ASSUME Count(q) = 0 PROVE FALSE
      <4>1. slots \cap 1..Count(q) = {}
        BY <3>2
      <4>2. r = q
        BY <4>1 DEF Removed
      <4> QED
        BY <2>5, <4>2
    <3>3. Fit(r) /\ r.rows = <<>> /\ r.revised
      BY <2>3, <2>5, <3>2, RemovedIs, Zenon
    <3> HIDE DEF r
    <3>4. Good(r)
      BY <3>3, PathsAreGood
    <3> QED
      BY <1>2, <2>2, <3>1, <3>4
  <2> QED
    BY <2>4, <2>5
<1>6. ASSUME NEW i \in 1..Count(queue), NEW j \in 1..Count(queue), playlist_move(i, j) PROVE CardInv'
  <2>1. UNCHANGED <<mode, library>>
    BY <1>6 DEF playlist_move
  <2>2. ASSUME NEW q \in refresh_stale_source(queue), queue_persist(q) PROVE CardInv'
    BY <1>1, <1>2, <2>1, <2>2, RefreshedIsGood
  <2>3. ASSUME ~queue.stale, queue_persist(MovedEntry(queue, i, j)) PROVE CardInv'
    <3>1. Rearranged(queue, MovedEntry(queue, i, j), i, j)
      BY <1>1, <2>3, MovedEntryIs, Zenon
    <3> DEFINE r == MovedEntry(queue, i, j)
    <3>2. Fit(r) /\ r.rows = <<>> /\ r.revised
      BY <3>1, Zenon DEF Rearranged
    <3> HIDE DEF r
    <3>3. Good(r)
      BY <3>2, PathsAreGood
    <3> QED
      BY <1>2, <2>1, <2>3, <3>3 DEF r
  <2> QED
    BY <1>6, <2>2, <2>3 DEF playlist_move
<1>7. ASSUME NEW new \in Modes, playlist_set_mode(new) PROVE CardInv'
  <2>1. queue' \in apply_mode_change(mode, new) /\ mode' = new /\ UNCHANGED <<library, saved>>
    BY <1>7 DEF playlist_set_mode
  <2> SUFFICES Settled(queue', new, library) /\ Written(queue', new, saved)
    BY <2>1 DEF CardInv
  <2>2. Settled(queue, mode, library) /\ Written(queue, mode, saved)
    BY DEF CardInv
  <2>3. CASE Count(queue) # 0 /\ queue' = order_identity(queue, queue.order[queue.pos])
    <3> DEFINE e == queue.order[queue.pos]
    <3>1. queue.pos \in 1..Count(queue) /\ Count(queue) \in Nat /\ Shape(queue)
      BY <1>1, <2>3, FitPlace, ShapeIs DEF Fit
    <3>2. e \in 1..Count(queue)
      BY <1>1, <3>1, FitIs
    <3> HIDE DEF e
    <3>3. e \in Nat \ {0}
      BY <3>1, <3>2
    <3>4. queue' = order_identity(queue, e)
      BY <2>3 DEF e
    <3> DEFINE r == queue'
    <3>5. Same(queue, r) /\ r.revised /\ RowsInOrder(r)
      BY <3>1, <3>3, <3>4, IdentityIs, IdentityOrder
    <3> HIDE DEF r
    <3>6. r.rows = queue.rows /\ r.stale = queue.stale /\ r.ordered = queue.ordered
      BY <3>5, SameIs
    <3>7. Settled(r, new, library) /\ Written(r, new, saved)
      BY <2>2, <3>5, <3>6, Zenon DEF Settled, Written
    <3> QED
      BY <3>7 DEF r
  <2>4. CASE queue' = queue /\ (Shuffled(mode) <=> Shuffled(new))
    BY <2>2, <2>4 DEF Settled, Written
  <2>5. CASE queue' = queue /\ queue.ordered
    BY <2>2, <2>5 DEF Settled, Written
  <2>6. CASE queue' = queue /\ Count(queue) = 0
    <3>1. queue.rows = <<>> /\ queue.revised
      <4>1. queue.revised
        BY <2>2, <2>6, Zenon DEF Settled
      <4> QED
        BY <1>1, <2>6, <4>1, RowsAreCustom
    <3> QED
      BY <1>1, <2>6, <3>1, PathsSettle
  <2>7. CASE Shuffled(new) /\ queue' \in order_shuffle_upcoming(queue) /\ ~queue.ordered
    <3> DEFINE r == queue'
    <3>1. Same(queue, r) /\ (r = queue \/ r.revised)
      BY <1>1, <2>7, UpcomingFits
    <3> HIDE DEF r
    <3>2. r.rows = queue.rows /\ r.stale = queue.stale /\ r.ordered = queue.ordered /\ Count(r) = Count(queue)
      BY <3>1, SameIs
    <3>3. Count(r) = 0 => r.revised
      BY <2>2, <3>1, <3>2, Zenon DEF Settled
    <3>4. Settled(r, new, library) /\ Written(r, new, saved)
      BY <2>2, <2>7, <3>2, <3>3, Zenon DEF Settled, Written
    <3> QED
      BY <3>4 DEF r
  <2> QED
    BY <2>1, <2>3, <2>4, <2>5, <2>6, <2>7 DEF apply_mode_change
<1> QED
  BY <1>3, <1>4, <1>5, <1>6, <1>7 DEF Edit

\* A folder, and a list of paths.
LEMMA LoadsAreGood ==
  /\ \A t \in Tracks : \A r \in FolderQueue(t) : Good(r)
  /\ \A folder \in Folders : \A r \in FolderBeside(folder) : Good(r) /\ r.revised
  /\ \A list \in Seq(Tracks) : \A start \in Nat \ {0} :
       (\A r \in playlist_load_paths(list, start) : Good(r)) /\ Good(playlist_load_paths_ordered(list, start))
<1>1. ASSUME NEW t \in Tracks, NEW r \in FolderQueue(t) PROVE Good(r)
  <2>1. Fit(r) /\ r.rows = <<>> /\ r.revised
    BY FolderQueueIs, Zenon
  <2> QED
    BY <2>1, PathsAreGood
<1>2. ASSUME NEW folder \in Folders, NEW r \in FolderBeside(folder) PROVE Good(r) /\ r.revised
  <2>1. folder \in Seq(Tracks)
    BY FoldersAssumption
  <2>2. r \in playlist_load_folder(folder, 1) /\ 1 \in Nat \ {0}
    BY DEF FolderBeside
  <2>3. Loaded(r, folder, 1) /\ r.rows = <<>>
    BY <2>1, <2>2, LoadFolder, Zenon
  <2>4. Fit(r) /\ r.revised
    BY <2>3, Zenon DEF Loaded
  <2> QED
    BY <2>3, <2>4, PathsAreGood
<1>3. ASSUME NEW list \in Seq(Tracks), NEW start \in Nat \ {0}, NEW r \in playlist_load_paths(list, start)
      PROVE  Good(r)
  <2>1. Loaded(r, list, start) /\ r.rows = <<>>
    BY LoadPaths, Zenon
  <2>2. Fit(r) /\ r.revised
    BY <2>1, Zenon DEF Loaded
  <2> QED
    BY <2>1, <2>2, PathsAreGood
<1>4. ASSUME NEW list \in Seq(Tracks), NEW start \in Nat \ {0} PROVE Good(playlist_load_paths_ordered(list, start))
  <2> DEFINE r == playlist_load_paths_ordered(list, start)
  <2>1. Loaded(r, list, start) /\ r.rows = <<>>
    BY LoadPathsOrdered, Zenon
  <2> HIDE DEF r
  <2>2. Fit(r) /\ r.revised
    BY <2>1, Zenon DEF Loaded
  <2>3. Good(r)
    BY <2>1, <2>2, PathsAreGood
  <2> QED
    BY <2>3 DEF r
<1> QED
  BY <1>1, <1>2, <1>3, <1>4

\* A list of the library is loaded as it is now.
LEMMA IndexIsGood ==
  ASSUME library \in Seq(Tracks), NEW start \in Nat \ {0}, NEW r \in playlist_load_index(library, start)
  PROVE  Good(r)
<1> DEFINE q == Fresh(library, <<>>, TRUE, FALSE)
           first == InRange(q, start)
<1>1. Shape(q) /\ q.rows = library /\ ~q.ordered
  BY FreshRows, Zenon
<1>2. r \in Started(q, first)
  BY DEF playlist_load_index
<1>3. first \in Nat \ {0}
  <2> HIDE DEF q
  <2> QED
    BY <1>1, InRangeIs
<1> HIDE DEF q, first
<1>4. q.ordered => q.rows = <<>>
  BY <1>1, Zenon
<1>5. q.rows # <<>> => q.rows = library
  BY <1>1, Zenon
<1> QED
  BY <1>1, <1>2, <1>3, <1>4, <1>5, StartedIsGood

LEMMA WalkedAreGood ==
  ASSUME NEW q, Good(q), mode \in Modes, loaded \in Tracks \cup {NoTrack}
  PROVE  /\ \A r \in Onward(q) : Good(r)
         /\ \A r \in Backward(q) : Good(r)
         /\ \A r \in AfterTheEnd(q) : Good(r)
<1>1. Fit(q) /\ Settled(q, mode, library) /\ Written(q, mode, saved)
  BY DEF Good
<1>2. ASSUME Count(q) # 0 PROVE Good(Forward(q)) /\ Good(Back(q))
  <2> DEFINE n == Count(q)
             p == q.pos
             i == (p % n) + 1
             j == IF p = 1 THEN n ELSE p - 1
  <2>1. n \in Nat /\ p \in 1..n
    BY <1>1, <1>2, FitPlace, ShapeIs DEF Fit
  <2>2. Forward(q) = Placed(q, i) /\ Back(q) = Placed(q, j)
    BY DEF Forward, Back, Placed
  <2> HIDE DEF n, p
  <2>3. n \in Nat \ {0}
    BY <2>1
  <2>4. p % n \in 0..(n - 1)
    BY <2>1, <2>3
  <2>5. i \in 1..n /\ j \in 1..n
    BY <2>1, <2>3, <2>4
  <2> HIDE DEF i, j
  <2> QED
    BY <2>2, <2>5, PlacedIsGood DEF n
<1>3. ASSUME NEW r \in order_shuffle_round(q), Shuffled(mode), ~q.ordered, Count(q) # 0 PROVE Good(r)
  <2>1. Fit(r) /\ Same(q, r) /\ r.revised
    BY <1>1, ShuffledFits DEF Fit
  <2>2. r.rows = q.rows /\ r.stale = q.stale /\ r.ordered = q.ordered
    BY <2>1, SameIs
  <2>3. Settled(r, mode, library)
    BY <1>1, <1>3, <2>1, <2>2, Zenon DEF Settled
  <2>4. Written(r, mode, saved)
    BY <2>1, Zenon DEF Written
  <2> QED
    BY <2>1, <2>3, <2>4 DEF Good
<1>4. ASSUME NEW r \in AdvancedNext(q) \cup AdvancedAuto(q) PROVE Good(r)
  <2>1. Count(q) # 0
    BY DEF AdvancedNext, AdvancedAuto
  <2>2. r = Forward(q) \/ r = q \/ (r \in order_shuffle_round(q) /\ Shuffled(mode) /\ ~q.ordered)
    <3>1. CASE r \in AdvancedNext(q)
      BY <3>1 DEF AdvancedNext, shuffling
    <3>2. CASE r \in AdvancedAuto(q)
      <4>1. CASE q.ordered \/ mode \in {"NORMAL", "SHUFFLE", "REPEAT_ONE", "REPEAT_ALL"}
        BY <3>2, <4>1 DEF AdvancedAuto
      <4>2. CASE ~q.ordered /\ mode = "SHUFFLE_REPEAT"
        BY <3>2, <4>2 DEF AdvancedAuto, Shuffled
      <4> QED
        BY <4>1, <4>2 DEF Modes
    <3> QED
      BY <3>1, <3>2
  <2> QED
    BY <1>2, <1>3, <2>1, <2>2
<1>5. ASSUME NEW folder \in {NextFolder, PrevFolder}, Beside(q, folder) # <<>>
      PROVE  Beside(q, folder) \in Folders
  BY <1>5, BesideIs, FoldersAssumption
<1>6. ASSUME NEW r \in Onward(q) PROVE Good(r)
  BY <1>4, <1>5, LoadsAreGood DEF Onward
<1>7. ASSUME NEW r \in Backward(q) PROVE Good(r)
  <2>1. CASE Beside(q, PrevFolder) # <<>> /\ r \in OnLast(FolderBeside(Beside(q, PrevFolder)))
    <3> DEFINE f == Beside(q, PrevFolder)
    <3>1. PICK p \in FolderBeside(f) : r = [p EXCEPT !.pos = Count(p)]
      BY <2>1 DEF OnLast
    <3>2. f \in Folders
      BY <1>5, <2>1
    <3> HIDE DEF f
    <3>3. Fit(p) /\ Count(p) # 0 /\ Good(p)
      BY <3>1, <3>2, FolderBesideFits, LoadsAreGood
    <3>4. r = Placed(p, Count(p))
      BY <3>1 DEF Placed
    <3>5. Count(p) \in 1..Count(p)
      <4> DEFINE n == Count(p)
      <4>1. n \in Nat /\ n # 0
        BY <3>3, ShapeIs DEF Fit
      <4> HIDE DEF n
      <4>2. n \in 1..n
        BY <4>1
      <4> QED
        BY <4>2 DEF n
    <3> QED
      BY <3>3, <3>4, <3>5, PlacedIsGood
  <2>2. CASE Count(q) # 0 /\ r = Back(q)
    BY <1>2, <2>2
  <2> QED
    BY <2>1, <2>2 DEF Backward
<1>8. ASSUME NEW r \in AfterTheEnd(q) PROVE Good(r)
  BY <1>4, <1>5, LoadsAreGood DEF AfterTheEnd
<1> QED
  BY <1>6, <1>7, <1>8

LEMMA WalksSettle == ASSUME QueueInv, CardInv, Walk PROVE CardInv'
<1>1. Fit(queue) /\ library \in Seq(Tracks) /\ loaded \in Tracks \cup {NoTrack} /\ Good(queue) /\ mode \in Modes
  BY LibraryIs DEF QueueInv, CardInv, Good
<1>2. ASSUME NEW q \in playlist_resync_to_current(queue) PROVE Good(q)
  <2>1. CASE loaded = NoTrack
    BY <1>1, <1>2, <2>1 DEF playlist_resync_to_current
  <2>2. CASE loaded # NoTrack
    <3>1. PICK p \in refresh_stale_source(queue) : q \in Resynced(p)
      BY <1>2, <2>2 DEF playlist_resync_to_current
    <3>2. Good(p)
      BY <1>1, RefreshedIsGood
    <3>3. q = p \/ q = playlist_locate(p, loaded) \/ q \in FolderQueue(loaded)
      BY <3>1 DEF Resynced
    <3> QED
      BY <1>1, <2>2, <3>2, <3>3, LocatedIsGood, LoadsAreGood
  <2> QED
    BY <2>1, <2>2
<1>3. ASSUME NEW q \in playlist_resync_to_current(queue), NEW qs \in {Onward(q), Backward(q), AfterTheEnd(q)},
             Goes(q, qs)
      PROVE  CardInv'
  <2>1. Good(q)
    BY <1>2
  <2>2. \A r \in qs : Good(r)
    BY <1>1, <2>1, WalkedAreGood
  <2>3. CASE LoadAndPlay(qs)
    BY <2>2, <2>3, PlaysSettle
  <2>4. CASE Stops(q)
    BY <2>1, <2>4 DEF Stops, Good, CardInv
  <2> QED
    BY <1>3, <2>3, <2>4 DEF Goes
<1>4. ASSUME NEW i \in 1..Count(queue), device_state_play_queue_index(i) PROVE CardInv'
  <2>1. LoadAndPlay({Placed(queue, i)})
    BY <1>4 DEF device_state_play_queue_index, Placed
  <2>2. Good(Placed(queue, i))
    BY <1>1, PlacedIsGood
  <2> DEFINE qs == {Placed(queue, i)}
  <2>3. \A q \in qs : Good(q)
    BY <2>2
  <2> HIDE DEF qs
  <2> QED
    BY <2>1, <2>3, PlaysSettle DEF qs
<1> QED
  BY <1>3, <1>4 DEF Walk, device_state_next, device_state_prev, device_state_advance_auto

LEMMA LoadsSettle == ASSUME QueueInv, Load PROVE CardInv'
<1>1. library \in Seq(Tracks)
  BY LibraryIs
<1>2. ASSUME NEW t \in Tracks, device_state_play_file(t) PROVE CardInv'
  <2>1. \A q \in FolderQueue(t) : Good(q)
    BY LoadsAreGood
  <2> QED
    BY <1>2, <2>1, PlaysSettle DEF device_state_play_file
<1>3. ASSUME NEW l \in Given, NEW i \in DOMAIN l,
             device_state_play_list(l, i) \/ device_state_play_list_ordered(l, i)
      PROVE  CardInv'
  <2>1. l \in Seq(Tracks) /\ i \in Nat \ {0}
    BY ListsAssumption
  <2>2. (\A q \in playlist_load_paths(l, i) : Good(q)) /\ Good(playlist_load_paths_ordered(l, i))
    BY <2>1, LoadsAreGood, Zenon
  <2> DEFINE qs == {playlist_load_paths_ordered(l, i)}
  <2>4. \A q \in qs : Good(q)
    BY <2>2
  <2>5. LoadAndPlay(playlist_load_paths(l, i)) \/ LoadAndPlay(qs)
    BY <1>3 DEF device_state_play_list, device_state_play_list_ordered
  <2> HIDE DEF qs
  <2> QED
    BY <2>2, <2>4, <2>5, PlaysSettle
<1>4. ASSUME NEW i \in DOMAIN library, device_state_play_index(i) PROVE CardInv'
  <2>1. i \in Nat \ {0}
    BY <1>1
  <2>2. \A q \in playlist_load_index(library, i) : Good(q)
    BY <1>1, <2>1, IndexIsGood
  <2> QED
    BY <1>4, <2>2, PlaysSettle DEF device_state_play_index
<1> QED
  BY <1>2, <1>3, <1>4 DEF Load

\* The additions keep the list under them as it is.
LEMMA WithExtraSettles ==
  ASSUME NEW q, Fit(q), Count(q) # 0, NEW m, NEW list, Settled(q, m, list), NEW extra \in Seq(Extra)
  PROVE  LET r == WithExtra(q, extra)
         IN  Fit(r) /\ Count(r) # 0 /\ Settled(r, m, list) /\ r.rows = q.rows /\ r.ordered = q.ordered
<1>1. PICK with : /\ with[0] = q /\ WithExtra(q, extra) = with[Len(extra)]
                  /\ \A n \in 1..Len(extra) : with[n] = InsertedAt(with[n - 1], extra[n].path, extra[n].slot)
  BY WithExtraSteps
<1> DEFINE Fine(r) == Fit(r) /\ Count(r) # 0 /\ Settled(r, m, list) /\ r.rows = q.rows /\ r.ordered = q.ordered
           Reached == {n \in Nat : n <= Len(extra) => Fine(with[n])}
<1>2. \A r : \A e \in Extra : Fine(r) => Fine(InsertedAt(r, e.path, e.slot))
  <2> TAKE r
  <2> TAKE e \in Extra
  <2> HAVE Fine(r)
  <2> DEFINE t == e.path
             slot == e.slot
             s == InsertedAt(r, t, slot)
  <2>1. t \in Tracks /\ slot \in Nat \ {0}
    BY DEF Extra
  <2> HIDE DEF t, slot
  <2>2. Settled(s, m, list)
    BY <2>1, InsertionsSettle, Zenon
  <2> HIDE DEF s
  <2>3. Added(r, s, t, Least(slot, Count(r) + 1))
    BY <2>1, InsertedAtIs, Zenon DEF s
  <2>4. Fit(s) /\ Count(s) = Count(r) + 1 /\ Count(r) \in Nat
    BY <2>3, ShapeIs DEF Added, Fit
  <2>5. s.rows = q.rows /\ s.ordered = q.ordered
    BY <2>3, Zenon DEF Added
  <2>6. Count(s) # 0
    BY <2>4
  <2>7. Fine(s)
    BY <2>2, <2>4, <2>5, <2>6, Zenon
  <2> QED
    BY <2>7 DEF s, t, slot
<1>3. Len(extra) \in Nat /\ \A n \in 1..Len(extra) : extra[n] \in Extra
  OBVIOUS
<1>4. Fine(with[0])
  BY <1>1
<1> HIDE DEF Fine
<1>5. 0 \in Reached
  BY <1>4
<1>6. ASSUME NEW n \in Nat, n \in Reached PROVE n + 1 \in Reached
  <2>1. CASE n + 1 <= Len(extra)
    <3>1. n + 1 \in 1..Len(extra) /\ (n + 1) - 1 = n /\ n <= Len(extra)
      BY <1>3, <2>1
    <3>2. with[n + 1] = InsertedAt(with[n], extra[n + 1].path, extra[n + 1].slot)
      BY <1>1, <3>1
    <3>3. Fine(with[n]) /\ extra[n + 1] \in Extra
      BY <1>3, <1>6, <3>1
    <3>4. Fine(with[n + 1])
      BY <1>2, <3>2, <3>3, Zenon
    <3> QED
      BY <3>4
  <2>2. CASE ~(n + 1 <= Len(extra))
    BY <2>2
  <2> QED
    BY <2>1, <2>2
<1>7. Len(extra) \in Reached
  BY <1>3, <1>5, <1>6, Induction
<1>8. Fine(WithExtra(q, extra))
  BY <1>1, <1>3, <1>7
<1> QED
  BY <1>8, Zenon DEF Fine

\* What the card gives back: the paths it has, or the list with what goes back.
LEMMA RestoredIs ==
  ASSUME QueueInv, NEW t \in Tracks, NEW q \in Restored(t)
  PROVE  /\ Good(q)
         /\ saved.form = "list" /\ ~Shuffled(mode) => View(q) = saved.paths /\ q.custom = saved.custom
         /\ saved.form = "query" /\ library # <<>> =>
              q.custom /\ (~Shuffled(mode) => View(q) = View(WithExtra(Listing(library), saved.extra)))
<1>1. library \in Seq(Tracks) /\ saved \in SavedTypes
  BY LibraryIs DEF QueueInv
<1>2. CASE saved.form = "list"
  <2>1. saved.paths \in Seq(Tracks) /\ saved.paths # <<>> /\ saved.pos \in Nat \ {0} /\ saved.custom \in BOOLEAN
    BY <1>1, <1>2, SavedIs
  <2>2. PICK r \in device_state_restore_list(t) : q = Saved(r)
    BY <1>2 DEF Restored
  <2>3. PICK p \in playlist_load_paths(saved.paths, saved.pos) : r = playlist_locate(Named(p, saved.custom), t)
    BY <2>2 DEF device_state_restore_list, Named
  <2>4. Loaded(p, saved.paths, saved.pos) /\ p.rows = <<>> /\ ~p.ordered
    BY <2>1, LoadPaths, Zenon
  <2>5. Fit(p) /\ Count(p) # 0 /\ (~Shuffled(mode) => View(p) = saved.paths)
    BY <2>1, <2>4 DEF Loaded
  <2> DEFINE n == Named(p, saved.custom)
  <2>6. Fit(n) /\ Count(n) # 0 /\ View(n) = View(p) /\ n.custom = saved.custom /\ n.rows = <<>> /\ ~n.ordered
    BY <2>1, <2>4, <2>5, NamedIs, Zenon
  <2> HIDE DEF n
  <2>7. Fit(r) /\ Same(n, r) /\ View(r) = View(n)
    BY <2>3, <2>6, LocateFits DEF n
  <2>8. r.custom = saved.custom /\ r.rows = <<>> /\ ~r.ordered /\ Count(r) # 0
    BY <2>6, <2>7, SameIs
  <2>9. Fit(q) /\ Same(r, q) /\ View(q) = View(r) /\ ~q.revised
    BY <2>2, <2>7, SavedFits
  <2>10. q.custom = saved.custom /\ q.rows = <<>> /\ ~q.ordered /\ Count(q) # 0
    BY <2>8, <2>9, SameIs
  <2>11. ~Shuffled(mode) => View(q) = saved.paths
    BY <2>5, <2>6, <2>7, <2>9
  <2>12. Settled(q, mode, library)
    <3>1. \A i \in 1..Count(q) : ~(q.order[i] <= Len(q.rows))
      <4> TAKE i \in 1..Count(q)
      <4>1. q.order[i] \in 1..Count(q)
        BY <2>9, FitIs
      <4>2. Len(q.rows) = 0
        BY <2>10
      <4>3. Count(q) \in Nat
        BY <2>9, ShapeIs DEF Fit
      <4> QED
        BY <4>1, <4>2, <4>3
    <3>2. RowsInOrder(q)
      BY <3>1, Zenon DEF RowsInOrder
    <3> QED
      BY <2>10, <3>2, Zenon DEF Settled
  <2>13. Written(q, mode, saved)
    BY <1>2, <2>10, <2>11, Zenon DEF Written, OnCard
  <2> QED
    BY <1>2, <2>9, <2>10, <2>11, <2>12, <2>13 DEF Good
<1>3. CASE saved.form = "query" /\ library # <<>>
  <2>1. saved.entry \in Nat \ {0} /\ saved.extra \in Seq(Extra)
    BY <1>1, <1>3, SavedIs
  <2>2. PICK r \in device_state_restore_index(t) : q = Saved(r)
    BY <1>3 DEF Restored
  <2>3. PICK p \in playlist_load_index(library, saved.entry) : r = playlist_locate(WithExtra(p, saved.extra), t)
    BY <2>2 DEF device_state_restore_index
  <2>4. Loaded(p, library, saved.entry) /\ p.rows = library /\ ~p.ordered
    BY <1>1, <2>1, LoadIndex, Zenon
  <2>5. Fit(p) /\ Count(p) # 0 /\ (~Shuffled(mode) => View(p) = library)
    BY <1>1, <1>3, <2>4 DEF Loaded
  <2>6. Settled(p, mode, library)
    BY <1>1, <2>1, IndexIsGood DEF Good
  <2> DEFINE w == WithExtra(p, saved.extra)
  <2>7. Fit(w) /\ Count(w) # 0 /\ Settled(w, mode, library) /\ w.rows = p.rows /\ w.ordered = p.ordered
    BY <2>1, <2>5, <2>6, WithExtraSettles, Zenon
  <2>8. ASSUME ~Shuffled(mode) PROVE View(w) = View(WithExtra(Listing(library), saved.extra))
    <3>1. Fit(Listing(library)) /\ View(Listing(library)) = library /\ Count(Listing(library)) # 0
      BY <1>1, <1>3, ListingIs
    <3>2. View(p) = View(Listing(library))
      BY <2>5, <2>8, <3>1
    <3> QED
      BY <2>1, <2>5, <3>1, <3>2, WithExtraViews, Zenon
  <2> HIDE DEF w
  <2>9. r = playlist_locate(w, t)
    BY <2>3 DEF w
  <2>10. Fit(r) /\ Same(w, r) /\ View(r) = View(w) /\ (r = w \/ \E i \in 1..Count(w) : r = Placed(w, i))
    BY <2>7, <2>9, LocateFits, LocateIs
  <2>11. r.rows = library /\ r.ordered = w.ordered /\ Count(r) # 0
    BY <2>4, <2>7, <2>10, SameIs
  <2>12. Settled(r, mode, library)
    <3>1. ASSUME NEW i \in 1..Count(w) PROVE Settled(Placed(w, i), mode, library)
      <4> DEFINE v == Placed(w, i)
      <4>1. Same(w, v) /\ v.order = w.order /\ v.revised = w.revised
        BY <2>7, PlacedFits
      <4> HIDE DEF v
      <4>2. v.rows = w.rows /\ v.stale = w.stale /\ v.ordered = w.ordered /\ Count(v) = Count(w)
        BY <4>1, SameIs
      <4>3. RowsInOrder(w) => RowsInOrder(v)
        BY <4>1, <4>2, Zenon DEF RowsInOrder
      <4>4. Settled(v, mode, library)
        BY <2>7, <4>1, <4>2, <4>3, Zenon DEF Settled
      <4> QED
        BY <4>4 DEF v
    <3> QED
      BY <2>7, <2>10, <3>1
  <2>13. ~Shuffled(mode) \/ r.ordered => OnCard(r, saved)
    <3>1. ~r.ordered
      BY <1>3, <2>11, <2>12, Zenon DEF Settled
    <3>2. ~Shuffled(mode) => View(WithExtra(Listing(r.rows), saved.extra)) = View(r)
      BY <2>8, <2>10, <2>11
    <3> QED
      BY <1>3, <2>11, <3>1, <3>2, Zenon DEF OnCard
  <2>14. Settled(q, mode, library) /\ Written(q, mode, saved)
    BY <2>2, <2>10, <2>11, <2>12, <2>13, SavedSettles, Zenon
  <2>15. Fit(q) /\ Same(r, q) /\ View(q) = View(r)
    BY <2>2, <2>10, SavedFits
  <2>16. q.custom
    <3>1. q.rows # <<>>
      BY <1>3, <2>11, <2>15, SameIs
    <3> QED
      BY <2>15, <3>1, RowsAreCustom
  <2>17. ~Shuffled(mode) => View(q) = View(WithExtra(Listing(library), saved.extra))
    BY <2>8, <2>10, <2>15
  <2> QED
    BY <1>3, <2>14, <2>15, <2>16, <2>17 DEF Good
<1>4. CASE saved.form # "list" /\ ~(saved.form = "query" /\ library # <<>>)
  <2>1. q \in FolderQueue(t)
    BY <1>4 DEF Restored, device_state_restore_file
  <2> QED
    BY <1>4, <2>1, LoadsAreGood
<1> QED
  BY <1>2, <1>3, <1>4

LEMMA RebootSettles == ASSUME QueueInv, CardInv, Reboot PROVE CardInv'
<1>1. UNCHANGED <<mode, library>>
  BY DEF Reboot
<1>2. CASE recalled = NoTrack
  <2>1. queue' = playlist_clear /\ UNCHANGED saved
    BY <1>2 DEF Reboot
  <2> DEFINE r == playlist_clear
  <2>2. r.rows = <<>> /\ r.revised
    BY DEF playlist_clear, Fresh
  <2>3. Settled(r, mode, library) /\ Written(r, mode, saved)
    BY <2>2, ClearIs, PathsSettle, Zenon
  <2> QED
    BY <1>1, <2>1, <2>3 DEF CardInv
<1>3. CASE recalled # NoTrack
  <2>1. recalled \in Tracks /\ saved \in SavedTypes
    BY <1>3 DEF QueueInv
  <2>2. PICK q \in Restored(recalled) : IF q.revised THEN queue_persist(q) ELSE queue' = q /\ UNCHANGED saved
    BY <1>3 DEF Reboot
  <2>3. Good(q)
    BY <2>1, RestoredIs, Zenon
  <2>4. CASE queue_persist(q)
    BY <1>1, <2>1, <2>3, <2>4, PersistSettles
  <2>5. CASE queue' = q /\ UNCHANGED saved
    BY <1>1, <2>3, <2>5 DEF Good, CardInv
  <2> QED
    BY <2>2, <2>4, <2>5
<1> QED
  BY <1>2, <1>3

\* The list is another: nothing of a queue over it is as the card has it.
LEMMA OutdatedSettles ==
  ASSUME NEW q, Fit(q), NEW m, NEW old, NEW list, NEW card, Settled(q, m, old), Written(q, m, card)
  PROVE  Settled(Outdated(q), m, list) /\ Written(Outdated(q), m, card)
<1> DEFINE r == Outdated(q)
           b == (q.rows # <<>>)
<1>1. q \in QueueRecord /\ Shape(q)
  BY DEF Fit, Shape
<1>2. r = [q EXCEPT !.stale = b] /\ b \in BOOLEAN
  BY DEF Outdated
<1> HIDE DEF r, b
<1>3. r.rows = q.rows /\ r.added = q.added
  BY <1>1, <1>2 DEF QueueRecord
<1>4. r.order = q.order /\ r.custom = q.custom
  BY <1>1, <1>2 DEF QueueRecord
<1>5. r.revised = q.revised
  BY <1>1, <1>2 DEF QueueRecord
<1>6. r.ordered = q.ordered
  BY <1>1, <1>2 DEF QueueRecord
<1>7. r.stale = b
  BY <1>1, <1>2 DEF QueueRecord
<1>8. Count(r) = Count(q) /\ View(r) = View(q)
  BY <1>3, <1>4 DEF Count, View, Paths
<1>9. RowsInOrder(q) => RowsInOrder(r)
  BY <1>3, <1>4, <1>8, Zenon DEF RowsInOrder
<1>10. r.rows # <<>> => r.stale
  BY <1>3, <1>7, Zenon DEF b
<1>11. Settled(r, m, list)
  BY <1>3, <1>5, <1>6, <1>8, <1>9, <1>10, Zenon DEF Settled
<1>12. q.stale => r.stale
  BY <1>1, <1>3, <1>10, Zenon DEF Shape
<1>13. OnCard(q, card) => OnCard(r, card)
  BY <1>3, <1>4, <1>8, Zenon DEF OnCard
<1>14. Written(r, m, card)
  BY <1>5, <1>6, <1>12, <1>13, Zenon DEF Written
<1> QED
  BY <1>11, <1>14 DEF r

LEMMA NextSettles == ASSUME QueueInv, CardInv, [Next]_vars PROVE CardInv'
<1>1. Fit(queue) /\ library \in Seq(Tracks) /\ Good(queue)
  BY LibraryIs DEF QueueInv, CardInv, Good
<1>2. CASE Edit
  BY <1>2, EditsSettle
<1>3. CASE Walk
  BY <1>3, WalksSettle
<1>4. CASE Load
  BY <1>4, LoadsSettle
<1>5. CASE playlist_path_at
  <2>1. queue' \in refresh_stale_source(queue) /\ UNCHANGED <<mode, library, saved>>
    BY <1>5 DEF playlist_path_at
  <2>2. Good(queue')
    BY <1>1, <2>1, RefreshedIsGood
  <2> QED
    BY <2>1, <2>2 DEF Good, CardInv
<1>6. CASE \E l \in Lists : Rescan(l)
  <2>1. queue' = Outdated(queue) /\ UNCHANGED <<mode, saved>>
    BY <1>6 DEF Rescan, Outdated
  <2>2. Settled(Outdated(queue), mode, library') /\ Written(Outdated(queue), mode, saved)
    <3> DEFINE l == library'
    <3> HIDE DEF l
    <3>1. Settled(Outdated(queue), mode, l) /\ Written(Outdated(queue), mode, saved)
      BY <1>1, OutdatedSettles DEF CardInv
    <3> QED
      BY <3>1 DEF l
  <2> QED
    BY <2>1, <2>2 DEF CardInv
<1>7. CASE device_state_remember_note
  BY <1>7 DEF device_state_remember_note, CardInv
<1>8. CASE Reboot
  BY <1>8, RebootSettles
<1>9. CASE UNCHANGED vars
  BY <1>9 DEF vars, CardInv
<1> QED
  BY <1>2, <1>3, <1>4, <1>5, <1>6, <1>7, <1>8, <1>9 DEF Next

\* A queue whose revision has not moved is on the card, in the form it has.
THEOREM CardInvariant == Spec => []CardInv
<1>1. Init => CardInv
  <2> SUFFICES ASSUME Init PROVE CardInv
    OBVIOUS
  <2> DEFINE r == playlist_clear
  <2>1. queue = r
    BY DEF Init
  <2>2. r.rows = <<>> /\ r.revised
    BY DEF playlist_clear, Fresh
  <2>3. Settled(r, mode, library) /\ Written(r, mode, saved)
    BY <2>2, ClearIs, PathsSettle, Zenon
  <2> QED
    BY <2>1, <2>3 DEF CardInv
<1>2. QueueInv /\ CardInv /\ [Next]_vars => CardInv'
  BY NextSettles
<1> QED
  BY <1>1, <1>2, QueueInvariant, PTL DEF Spec

LEMMA SavedHolds == ASSUME QueueInv, CardInv PROVE SavedIsTheQueue
<1> SUFFICES ASSUME ~queue.revised, ~queue.stale, ~Shuffled(mode), recalled # NoTrack, NEW q \in Restored(recalled)
             PROVE  View(q) = View(queue) /\ q.custom = queue.custom
  BY Zenon DEF SavedIsTheQueue
<1>1. recalled \in Tracks /\ Fit(queue)
  BY DEF QueueInv
<1>2. OnCard(queue, saved) /\ Settled(queue, mode, library)
  BY Zenon DEF CardInv, Written
<1>3. /\ Good(q)
      /\ saved.form = "list" => View(q) = saved.paths /\ q.custom = saved.custom
      /\ saved.form = "query" /\ library # <<>> =>
           q.custom /\ View(q) = View(WithExtra(Listing(library), saved.extra))
  BY <1>1, RestoredIs, Zenon
<1>4. CASE queue.rows = <<>>
  <2>1. saved.form = "list" /\ saved.paths = View(queue) /\ saved.custom = queue.custom
    BY <1>2, <1>4, Zenon DEF OnCard
  <2> QED
    BY <1>3, <2>1
<1>5. CASE queue.rows # <<>>
  <2>1. saved.form = "query" /\ View(WithExtra(Listing(queue.rows), saved.extra)) = View(queue)
    BY <1>2, <1>5, Zenon DEF OnCard
  <2>2. queue.rows = library
    BY <1>2, <1>5, Zenon DEF Settled
  <2>3. q.custom /\ View(q) = View(queue)
    BY <1>3, <1>5, <2>1, <2>2
  <2>4. queue.custom
    BY <1>1, <1>5, RowsAreCustom
  <2>5. q.custom \in BOOLEAN /\ queue.custom \in BOOLEAN
    <3>1. q \in QueueRecord /\ queue \in QueueRecord
      BY <1>1, <1>3 DEF Good, Fit, Shape
    <3> QED
      BY <3>1, RecordIs
  <2> QED
    BY <2>3, <2>4, <2>5
<1> QED
  BY <1>4, <1>5

\* When the power goes, the queue that comes back is the one that was there,
\* entry by entry, unless the revision says that it was still to be written
\* (queue_persist, library_queue_save, device_state_restore_list and _index).
THEOREM CardHasTheQueue == Spec => []SavedIsTheQueue
<1>1. QueueInv /\ CardInv => SavedIsTheQueue
  BY SavedHolds
<1> QED
  BY <1>1, QueueInvariant, CardInvariant, PTL

=============================================================================
