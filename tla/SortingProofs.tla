--------------------------- MODULE SortingProofs ----------------------------
(***************************************************************************)
(* What Filter, sort and merge compute, for lists of any length.           *)
(***************************************************************************)
EXTENDS Sorting, Numbers, FiniteSetTheorems

-----------------------------------------------------------------------------
(* The order of movies.                                                    *)

LEMMA Order ==
  /\ \A x, y \in Listed : ~Exceeds(x, y) \/ ~Exceeds(y, x)
  /\ \A x \in Listed : ~Exceeds(x, x)
  /\ \A x, y, z \in Listed : ~Exceeds(x, y) /\ ~Exceeds(y, z) => ~Exceeds(x, z)
  BY DEF Exceeds, Listed

LEMMA OrderedIs ==
  ASSUME NEW s \in Seq(Listed)
  PROVE  Ordered(s) <=> \A i, j \in 1 .. Len(s) : i < j => ~Exceeds(s[i], s[j])
<1>1. DOMAIN s = 1 .. Len(s) /\ \A i \in 1 .. Len(s) : s[i] \in Listed
  OBVIOUS
<1>2. \A x, y \in Listed : ~Exceeds(x, y) <=> x.pts > y.pts \/ (x.pts = y.pts /\ x.title <= y.title)
  BY DEF Exceeds, Listed
<1> QED
  BY <1>1, <1>2 DEF Ordered

-----------------------------------------------------------------------------
(* How often a movie stands in a list.                                     *)

Count(s, x) == Cardinality({i \in 1 .. Len(s) : s[i] = x})

\* t has the movies of s, each of them as often.
Like(s, t) == Len(s) = Len(t) /\ \A x : Count(s, x) = Count(t, x)

LEMMA Places ==
  ASSUME NEW n \in Nat, NEW S, S \subseteq 1 .. n
  PROVE  IsFiniteSet(S) /\ Cardinality(S) \in Nat
<1>1. IsFiniteSet(1 .. n)
  BY FS_Interval
<1>2. IsFiniteSet(S)
  BY <1>1, FS_Subset
<1> QED
  BY <1>2, FS_CardinalityType

LEMMA CountType ==
  ASSUME NEW S, NEW s \in Seq(S), NEW x
  PROVE  Count(s, x) \in Nat
<1>1. Len(s) \in Nat /\ {i \in 1 .. Len(s) : s[i] = x} \subseteq 1 .. Len(s)
  OBVIOUS
<1> QED
  BY <1>1, Places DEF Count

\* Two sets of positions are of one size if a function pairs them off.
LEMMA Paired ==
  ASSUME NEW n \in Nat, NEW S, S \subseteq 1 .. n, NEW T, NEW f \in [S -> T],
         \A i, j \in S : f[i] = f[j] => i = j, \A k \in T : \E i \in S : f[i] = k
  PROVE  IsFiniteSet(T) /\ Cardinality(T) = Cardinality(S)
<1>1. IsFiniteSet(S)
  BY Places
<1>2. f \in Bijection(S, T)
  BY DEF Bijection, Injection, IsInjective, Surjection
<1>3. ExistsBijection(S, T)
  BY <1>2 DEF ExistsBijection
<1> QED
  BY <1>1, <1>3, FS_Bijection

LEMMA CountConcat ==
  ASSUME NEW S, NEW s \in Seq(S), NEW t \in Seq(S), NEW x
  PROVE  Count(s \o t, x) = Count(s, x) + Count(t, x)
<1> DEFINE m == Len(s)
           n == Len(t)
           A == {i \in 1 .. m : s[i] = x}
           B == {i \in 1 .. n : t[i] = x}
           C == {i \in m + 1 .. m + n : t[i - m] = x}
<1>1. m \in Nat /\ n \in Nat /\ Len(s \o t) = m + n
      /\ \A i \in 1 .. m + n : (s \o t)[i] = IF i <= m THEN s[i] ELSE t[i - m]
  OBVIOUS
<1> HIDE DEF m, n
<1>2. {i \in 1 .. Len(s \o t) : (s \o t)[i] = x} = A \cup C
  BY <1>1
<1>3. A \cap C = {} /\ A \subseteq 1 .. m + n /\ C \subseteq 1 .. m + n /\ m + n \in Nat
  BY <1>1
<1>4. Cardinality(C) = Cardinality(B)
  <2> DEFINE f == [i \in B |-> i + m]
  <2>1. f \in [B -> C]
    BY <1>1
  <2>2. \A i, j \in B : f[i] = f[j] => i = j
    BY <1>1
  <2>3. \A k \in C : \E i \in B : f[i] = k
    <3> SUFFICES ASSUME NEW k \in C PROVE k - m \in B /\ f[k - m] = k
      OBVIOUS
    <3>1. k - m \in B /\ k \in Int
      BY <1>1
    <3> QED
      BY <3>1, <1>1
  <2>4. B \subseteq 1 .. n /\ n \in Nat
    BY <1>1
  <2> HIDE DEF f, B, C
  <2> QED
    BY <2>1, <2>2, <2>3, <2>4, Paired
<1> HIDE DEF A, B, C
<1>5. IsFiniteSet(A) /\ IsFiniteSet(C) /\ Cardinality(A) \in Nat /\ Cardinality(C) \in Nat
  BY <1>3, Places
<1>6. Cardinality(A \cup C) = Cardinality(A) + Cardinality(C)
  <2>1. Cardinality(A \cap C) = 0
    BY <1>3, FS_EmptySet
  <2>2. Cardinality(A \cup C) = Cardinality(A) + Cardinality(C) - Cardinality(A \cap C)
    BY <1>5, FS_Union
  <2> QED
    BY <2>1, <2>2, <1>5
<1>7. Count(s, x) = Cardinality(A) /\ Count(t, x) = Cardinality(B)
      /\ Count(s \o t, x) = Cardinality(A \cup C)
  BY <1>2 DEF Count, A, B, m, n
<1> QED
  BY <1>4, <1>6, <1>7

LEMMA LikeIs ==
  /\ \A s : Like(s, s)
  /\ \A s, t : Like(s, t) => Like(t, s)
  /\ \A s, t, u : Like(s, t) /\ Like(t, u) => Like(s, u)
  BY DEF Like

\* A list whose places are shuffled.
LEMMA LikeBy ==
  ASSUME NEW S, NEW s \in Seq(S), NEW t \in Seq(S), Len(s) = Len(t),
         NEW f \in [1 .. Len(s) -> 1 .. Len(s)], \A i, j \in 1 .. Len(s) : f[i] = f[j] => i = j,
         \A k \in 1 .. Len(s) : s[f[k]] = t[k]
  PROVE  Like(s, t)
<1> DEFINE N == Len(s)
<1>1. N \in Nat /\ N = Len(t)
  OBVIOUS
<1> HIDE DEF N
<1>2. f \in Injection(1 .. N, 1 .. N)
  BY DEF Injection, IsInjective, N
<1>3. IsFiniteSet(1 .. N)
  BY <1>1, FS_Interval
<1>4. f \in Surjection(1 .. N, 1 .. N)
  BY <1>2, <1>3, FS_Injection
<1>5. \A k \in 1 .. N : \E i \in 1 .. N : f[i] = k
  BY <1>4 DEF Surjection
<1>6. ASSUME NEW x PROVE Count(s, x) = Count(t, x)
  <2> DEFINE A == {k \in 1 .. N : t[k] = x}
             B == {k \in 1 .. N : s[k] = x}
             h == [k \in A |-> f[k]]
  <2>1. h \in [A -> B]
    BY DEF N
  <2>2. \A k, l \in A : h[k] = h[l] => k = l
    BY DEF N
  <2>3. ASSUME NEW l \in B PROVE \E k \in A : h[k] = l
    <3>1. PICK k \in 1 .. N : f[k] = l
      BY <1>5
    <3>2. k \in A
      BY <3>1 DEF N
    <3> QED
      BY <3>1, <3>2
  <2>4. A \subseteq 1 .. N
    OBVIOUS
  <2> HIDE DEF A, B, h
  <2>5. Cardinality(B) = Cardinality(A)
    BY <1>1, <2>1, <2>2, <2>3, <2>4, Paired
  <2> QED
    BY <1>1, <2>5 DEF Count, A, B, N
<1> QED
  BY <1>6 DEF Like

\* Like lists side by side.
LEMMA LikeConcat ==
  ASSUME NEW S, NEW s \in Seq(S), NEW t \in Seq(S), NEW u \in Seq(S), NEW v \in Seq(S),
         Like(s, u), Like(t, v)
  PROVE  Like(s \o t, u \o v)
<1>1. Len(s \o t) = Len(s) + Len(t) /\ Len(u \o v) = Len(u) + Len(v)
  OBVIOUS
<1>2. ASSUME NEW x PROVE Count(s \o t, x) = Count(u \o v, x)
  <2>1. Count(s \o t, x) = Count(s, x) + Count(t, x)
    BY CountConcat
  <2>2. Count(u \o v, x) = Count(u, x) + Count(v, x)
    BY CountConcat
  <2>3. Count(s, x) = Count(u, x) /\ Count(t, x) = Count(v, x)
    BY DEF Like
  <2> QED
    BY <2>1, <2>2, <2>3
<1> QED
  BY <1>1, <1>2 DEF Like

-----------------------------------------------------------------------------
(* Segments of a list, given by the positions before their first and of    *)
(* their last movie.                                                       *)

LEMMA Segment ==
  ASSUME NEW S, NEW s \in Seq(S), NEW a \in Nat, NEW b \in Nat, a <= b, b <= Len(s)
  PROVE  /\ SubSeq(s, a + 1, b) \in Seq(S) /\ Len(SubSeq(s, a + 1, b)) = b - a
         /\ \A i \in 1 .. b - a : SubSeq(s, a + 1, b)[i] = s[a + i]
  OBVIOUS

LEMMA SameList ==
  ASSUME NEW S, NEW s \in Seq(S), NEW t \in Seq(S), Len(s) = Len(t),
         \A i \in 1 .. Len(s) : s[i] = t[i]
  PROVE  s = t
  OBVIOUS

LEMMA Joined ==
  ASSUME NEW S, NEW s \in Seq(S), NEW t \in Seq(S)
  PROVE  /\ s \o t \in Seq(S) /\ Len(s \o t) = Len(s) + Len(t)
         /\ \A i \in 1 .. Len(s) + Len(t) :
              (s \o t)[i] = IF i <= Len(s) THEN s[i] ELSE t[i - Len(s)]
  OBVIOUS

LEMMA CutInTwo ==
  ASSUME NEW S, NEW s \in Seq(S), NEW a \in Nat, NEW b \in Nat, NEW c \in Nat,
         a <= b, b <= c, c <= Len(s)
  PROVE  SubSeq(s, a + 1, c) = SubSeq(s, a + 1, b) \o SubSeq(s, b + 1, c)
<1> DEFINE t == SubSeq(s, a + 1, b)
           u == SubSeq(s, b + 1, c)
           v == SubSeq(s, a + 1, c)
<1>1. t \in Seq(S) /\ Len(t) = b - a /\ \A i \in 1 .. b - a : t[i] = s[a + i]
  BY Segment
<1>2. u \in Seq(S) /\ Len(u) = c - b /\ \A i \in 1 .. c - b : u[i] = s[b + i]
  BY Segment
<1>3. v \in Seq(S) /\ Len(v) = c - a /\ \A i \in 1 .. c - a : v[i] = s[a + i]
  BY Segment
<1> HIDE DEF t, u, v
<1>4. t \o u \in Seq(S) /\ Len(t \o u) = c - a
      /\ \A i \in 1 .. c - a : (t \o u)[i] = IF i <= b - a THEN t[i] ELSE u[i - (b - a)]
  <2>1. Len(t) + Len(u) = c - a /\ Len(t) = b - a
    BY <1>1, <1>2
  <2>2. /\ t \o u \in Seq(S) /\ Len(t \o u) = Len(t) + Len(u)
        /\ \A i \in 1 .. Len(t) + Len(u) :
             (t \o u)[i] = IF i <= Len(t) THEN t[i] ELSE u[i - Len(t)]
    BY <1>1, <1>2, Joined
  <2> QED
    BY <2>1, <2>2
<1>5. ASSUME NEW i \in 1 .. c - a PROVE (t \o u)[i] = v[i]
  <2>1. i > b - a => i - (b - a) \in 1 .. c - b /\ b + (i - (b - a)) = a + i
    OBVIOUS
  <2>2. i <= b - a => i \in 1 .. b - a
    OBVIOUS
  <2> QED
    BY <1>1, <1>2, <1>3, <1>4, <2>1, <2>2
<1>6. t \o u = v
  BY <1>3, <1>4, <1>5, SameList
<1> QED
  BY <1>6 DEF t, u, v

LEMMA OrderedSegment ==
  ASSUME NEW s \in Seq(Listed), NEW a \in Nat, NEW b \in Nat, NEW c \in Nat, NEW d \in Nat,
         a <= c, c <= d, d <= b, b <= Len(s), Ordered(SubSeq(s, a + 1, b))
  PROVE  Ordered(SubSeq(s, c + 1, d))
<1> DEFINE t == SubSeq(s, a + 1, b)
           u == SubSeq(s, c + 1, d)
<1>1. t \in Seq(Listed) /\ Len(t) = b - a /\ \A i \in 1 .. b - a : t[i] = s[a + i]
  BY Segment
<1>2. u \in Seq(Listed) /\ Len(u) = d - c /\ \A i \in 1 .. d - c : u[i] = s[c + i]
  BY Segment
<1>3. Ordered(t)
  OBVIOUS
<1> HIDE DEF t, u
<1>4. ASSUME NEW i \in 1 .. d - c, NEW j \in 1 .. d - c, i < j
      PROVE  ~Exceeds(u[i], u[j])
  <2>1. /\ i + (c - a) \in 1 .. b - a /\ j + (c - a) \in 1 .. b - a
        /\ i + (c - a) < j + (c - a)
        /\ a + (i + (c - a)) = c + i /\ a + (j + (c - a)) = c + j
    BY <1>4
  <2>2. u[i] = t[i + (c - a)] /\ u[j] = t[j + (c - a)]
    BY <1>1, <1>2, <2>1
  <2>3. ~Exceeds(t[i + (c - a)], t[j + (c - a)])
    BY <1>1, <1>3, <2>1, OrderedIs
  <2> QED
    BY <2>2, <2>3
<1>5. Ordered(u)
  BY <1>2, <1>4, OrderedIs
<1> QED
  BY <1>5 DEF u

LEMMA OverlayIs ==
  ASSUME NEW S, NEW s \in Seq(S), NEW t \in Seq(S), NEW st \in Nat, st + Len(t) <= Len(s)
  PROVE  /\ Overlay(s, st, t) \in Seq(S) /\ Len(Overlay(s, st, t)) = Len(s)
         /\ \A i \in 1 .. Len(s) : Overlay(s, st, t)[i]
              = IF i \in st + 1 .. st + Len(t) THEN t[i - st] ELSE s[i]
         /\ SubSeq(Overlay(s, st, t), st + 1, st + Len(t)) = t
<1> DEFINE o == Overlay(s, st, t)
           v == SubSeq(o, st + 1, st + Len(t))
<1>1. \A i \in 1 .. Len(s) : i \in st + 1 .. st + Len(t) => i - st \in 1 .. Len(t)
  OBVIOUS
<1>2. o = [i \in 1 .. Len(s) |-> IF i \in st + 1 .. st + Len(t) THEN t[i - st] ELSE s[i]]
  BY DEF Overlay
<1>3. \A i \in 1 .. Len(s) :
        (IF i \in st + 1 .. st + Len(t) THEN t[i - st] ELSE s[i]) \in S
  BY <1>1
<1> HIDE DEF o
<1>4. o \in Seq(S) /\ Len(o) = Len(s)
      /\ \A i \in 1 .. Len(s) : o[i] = IF i \in st + 1 .. st + Len(t) THEN t[i - st] ELSE s[i]
  BY <1>2, <1>3
<1>5. v \in Seq(S) /\ Len(v) = (st + Len(t)) - st
      /\ \A i \in 1 .. (st + Len(t)) - st : v[i] = o[st + i]
  <2>1. st + Len(t) \in Nat /\ st <= st + Len(t)
    OBVIOUS
  <2> QED
    BY <1>4, <2>1, Segment
<1> HIDE DEF v
<1>6. ASSUME NEW i \in 1 .. Len(t) PROVE v[i] = t[i]
  <2>1. st + i \in 1 .. Len(s) /\ st + i \in st + 1 .. st + Len(t) /\ (st + i) - st = i
        /\ i \in 1 .. (st + Len(t)) - st
    OBVIOUS
  <2> QED
    BY <1>4, <1>5, <2>1
<1>7. v = t
  <2>1. Len(v) = Len(t)
    BY <1>5
  <2> QED
    BY <1>5, <1>6, <2>1, SameList
<1> QED
  BY <1>4, <1>7 DEF o, v

\* Lists that agree on a segment.
LEMMA SameSegment ==
  ASSUME NEW S, NEW s \in Seq(S), NEW o \in Seq(S), Len(o) = Len(s),
         NEW a \in Nat, NEW b \in Nat, a <= b, b <= Len(s),
         \A i \in a + 1 .. b : o[i] = s[i]
  PROVE  SubSeq(o, a + 1, b) = SubSeq(s, a + 1, b)
<1> DEFINE u == SubSeq(s, a + 1, b)
           v == SubSeq(o, a + 1, b)
<1>1. u \in Seq(S) /\ Len(u) = b - a /\ \A i \in 1 .. b - a : u[i] = s[a + i]
  BY Segment
<1>2. v \in Seq(S) /\ Len(v) = b - a /\ \A i \in 1 .. b - a : v[i] = o[a + i]
  BY Segment
<1> HIDE DEF u, v
<1>3. ASSUME NEW i \in 1 .. b - a PROVE v[i] = u[i]
  <2>1. a + i \in a + 1 .. b
    OBVIOUS
  <2>2. o[a + i] = s[a + i]
    BY <2>1
  <2> QED
    BY <1>1, <1>2, <2>2
<1>4. v = u
  BY <1>1, <1>2, <1>3, SameList
<1> QED
  BY <1>4 DEF u, v

\* If the movies of the segment are written back in another order, those of any
\* segment around it are the same, too.
LEMMA OverlayLike ==
  ASSUME NEW S, NEW s \in Seq(S), NEW t \in Seq(S), NEW st \in Nat, st + Len(t) <= Len(s),
         NEW a \in Nat, NEW b \in Nat, a <= st, st + Len(t) <= b, b <= Len(s),
         Like(SubSeq(s, st + 1, st + Len(t)), t)
  PROVE  Like(SubSeq(s, a + 1, b), SubSeq(Overlay(s, st, t), a + 1, b))
<1> DEFINE o == Overlay(s, st, t)
           e == st + Len(t)
<1>1. /\ o \in Seq(S) /\ Len(o) = Len(s) /\ SubSeq(o, st + 1, e) = t
      /\ \A i \in 1 .. Len(s) : o[i] = IF i \in st + 1 .. e THEN t[i - st] ELSE s[i]
  BY OverlayIs
<1>2. e \in Nat /\ st <= e
  OBVIOUS
<1> HIDE DEF o
<1>3. SubSeq(o, a + 1, st) = SubSeq(s, a + 1, st)
  <2>1. \A i \in a + 1 .. st : i \in 1 .. Len(s) /\ i \notin st + 1 .. e
    OBVIOUS
  <2>2. \A i \in a + 1 .. st : o[i] = s[i]
    BY <1>1, <2>1
  <2>3. st <= Len(s)
    OBVIOUS
  <2> HIDE DEF e
  <2> QED
    BY <1>1, <2>2, <2>3, SameSegment
<1>4. SubSeq(o, e + 1, b) = SubSeq(s, e + 1, b)
  <2>1. \A i \in e + 1 .. b : i \in 1 .. Len(s) /\ i \notin st + 1 .. e
    OBVIOUS
  <2>2. \A i \in e + 1 .. b : o[i] = s[i]
    BY <1>1, <2>1
  <2>3. e <= b
    OBVIOUS
  <2> HIDE DEF e
  <2> QED
    BY <1>1, <1>2, <2>2, <2>3, SameSegment
<1>5. Like(SubSeq(s, st + 1, e), SubSeq(o, st + 1, e))
  BY <1>1
<1>0. a <= st /\ st <= e /\ e <= b /\ b <= Len(s) /\ e \in Nat
  BY <1>2
<1> HIDE DEF e
<1>6. /\ SubSeq(s, a + 1, e) = SubSeq(s, a + 1, st) \o SubSeq(s, st + 1, e)
      /\ SubSeq(s, a + 1, b) = SubSeq(s, a + 1, e) \o SubSeq(s, e + 1, b)
  <2>1. e <= Len(s) /\ a <= e
    BY <1>0
  <2>2. SubSeq(s, a + 1, e) = SubSeq(s, a + 1, st) \o SubSeq(s, st + 1, e)
    BY <1>0, <2>1, CutInTwo
  <2>3. SubSeq(s, a + 1, b) = SubSeq(s, a + 1, e) \o SubSeq(s, e + 1, b)
    BY <1>0, <2>1, CutInTwo
  <2> QED
    BY <2>2, <2>3
<1>7. /\ SubSeq(o, a + 1, e) = SubSeq(o, a + 1, st) \o SubSeq(o, st + 1, e)
      /\ SubSeq(o, a + 1, b) = SubSeq(o, a + 1, e) \o SubSeq(o, e + 1, b)
  <2>1. /\ o \in Seq(S) /\ e \in Nat
        /\ a <= st /\ st <= e /\ a <= e /\ e <= b /\ e <= Len(o) /\ b <= Len(o)
    BY <1>0, <1>1
  <2>2. SubSeq(o, a + 1, e) = SubSeq(o, a + 1, st) \o SubSeq(o, st + 1, e)
    BY <2>1, CutInTwo
  <2>3. SubSeq(o, a + 1, b) = SubSeq(o, a + 1, e) \o SubSeq(o, e + 1, b)
    BY <2>1, CutInTwo
  <2> QED
    BY <2>2, <2>3
<1>8. ASSUME NEW m \in Nat, NEW n \in Nat, m <= n, n <= b
      PROVE  SubSeq(s, m + 1, n) \in Seq(S) /\ SubSeq(o, m + 1, n) \in Seq(S)
  <2>1. n <= Len(s) /\ n <= Len(o)
    BY <1>0, <1>1, <1>8
  <2> QED
    BY <1>1, <1>8, <2>1, Segment
<1>9. Like(SubSeq(s, a + 1, e), SubSeq(o, a + 1, e))
  <2>1. Like(SubSeq(s, a + 1, st), SubSeq(o, a + 1, st))
    BY <1>3, LikeIs
  <2>2. /\ SubSeq(s, a + 1, st) \in Seq(S) /\ SubSeq(s, st + 1, e) \in Seq(S)
        /\ SubSeq(o, a + 1, st) \in Seq(S) /\ SubSeq(o, st + 1, e) \in Seq(S)
    <3>1. st <= b /\ e <= b /\ b <= b
      BY <1>0
    <3> QED
      BY <1>0, <1>8, <3>1
  <2> QED
    BY <1>5, <1>6, <1>7, <2>1, <2>2, LikeConcat
<1>10. Like(SubSeq(s, a + 1, b), SubSeq(o, a + 1, b))
  <2>1. Like(SubSeq(s, e + 1, b), SubSeq(o, e + 1, b))
    BY <1>4, LikeIs
  <2>2. a <= e /\ b <= b
    BY <1>0
  <2>3. /\ SubSeq(s, a + 1, e) \in Seq(S) /\ SubSeq(s, e + 1, b) \in Seq(S)
        /\ SubSeq(o, a + 1, e) \in Seq(S) /\ SubSeq(o, e + 1, b) \in Seq(S)
    BY <1>0, <1>8, <2>2
  <2> QED
    BY <1>6, <1>7, <1>9, <2>1, <2>3, LikeConcat
<1> QED
  BY <1>10 DEF o

-----------------------------------------------------------------------------
(* The selection sort of lib.c.                                            *)

LEMMA ArgmaxIs ==
  ASSUME NEW s \in Seq(Listed), NEW start \in 1 .. Len(s)
  PROVE  /\ argmax(s, start) \in start .. Len(s)
         /\ \A i \in start .. Len(s) : ~Exceeds(s[argmax(s, start)], s[i])
<1> DEFINE N == Len(s)
           D == start .. N
           g == [n \in Nat |-> [k \in D |->
                  IF start + n + 1 \in D /\ Exceeds(s[k], s[start + n + 1])
                  THEN start + n + 1 ELSE k]]
           Unfolds(h) == h = [i \in start .. N |->
                          IF i = start \/ Exceeds(s[h[i - 1]], s[i]) THEN i ELSE h[i - 1]]
<1>0. N \in Nat /\ start \in D /\ start \in Nat /\ D \subseteq 1 .. N
      /\ \A i \in 1 .. N : s[i] \in Listed
  OBVIOUS
<1>1. argmax(s, start) = (CHOOSE h : Unfolds(h))[N]
  BY DEF argmax
<1> HIDE DEF N, D
<1>2. g \in Steps(D)
  BY DEF Steps
<1>3. PICK f \in [Nat -> D] : f[0] = start /\ \A n \in Nat : f[n + 1] = g[n][f[n]]
  <2> HIDE DEF g
  <2>1. \E f : Recurs(f, D, start, g)
    BY <1>0, <1>2, Recursion
  <2> QED
    BY <2>1 DEF Recurs
<1>4. \A n \in Nat : f[n + 1] = IF start + n + 1 \in D /\ Exceeds(s[f[n]], s[start + n + 1])
                                 THEN start + n + 1 ELSE f[n]
  BY <1>3
<1> HIDE DEF g
<1> DEFINE h == [i \in start .. N |-> f[i - start]]
<1>5. Unfolds(h)
  <2>1. ASSUME NEW i \in start .. N
        PROVE  h[i] = IF i = start \/ Exceeds(s[h[i - 1]], s[i]) THEN i ELSE h[i - 1]
    <3>1. CASE i = start
      BY <1>0, <1>3, <3>1
    <3>2. CASE i # start
      <4>1. i - 1 \in start .. N /\ (i - 1) - start \in Nat
            /\ ((i - 1) - start) + 1 = i - start /\ start + ((i - 1) - start) + 1 = i /\ i \in D
        BY <1>0, <3>2 DEF D
      <4>2. h[i] = f[i - start] /\ h[i - 1] = f[(i - 1) - start]
        BY <4>1
      <4> HIDE DEF h
      <4>3. f[i - start] = IF Exceeds(s[f[(i - 1) - start]], s[i]) THEN i ELSE f[(i - 1) - start]
        BY <1>4, <4>1
      <4> QED
        BY <3>2, <4>2, <4>3
    <3> QED
      BY <3>1, <3>2
  <2>2. h = [i \in start .. N |-> h[i]]
    OBVIOUS
  <2> HIDE DEF h
  <2> QED
    BY <2>1, <2>2
<1> DEFINE best == CHOOSE e : Unfolds(e)
<1>6. Unfolds(best)
  <2> HIDE DEF h
  <2> QED
    BY <1>5
<1>7. argmax(s, start) = best[N]
  BY <1>1
<1> HIDE DEF best, h
<1>8. /\ best[start] = start
      /\ \A i \in start + 1 .. N :
           best[i] = IF Exceeds(s[best[i - 1]], s[i]) THEN i ELSE best[i - 1]
  <2>1. start \in start .. N /\ \A i \in start + 1 .. N : i \in start .. N /\ i # start
    BY <1>0 DEF D
  <2> QED
    BY <1>6, <2>1
<1> HIDE DEF Unfolds
<1> DEFINE Good(i) == best[i] \in start .. i /\ \A k \in start .. i : ~Exceeds(s[best[i]], s[k])
           T == {n \in Nat : start + n <= N => Good(start + n)}
<1>9. 0 \in T
  <2>1. s[start] \in Listed
    BY <1>0 DEF D
  <2>2. \A k \in start .. start + 0 : k = start
    BY <1>0
  <2>3. start + 0 = start /\ start \in start .. start
    BY <1>0
  <2> QED
    BY <1>8, <2>1, <2>2, <2>3, Order
<1>10. ASSUME NEW n \in Nat, n \in T PROVE n + 1 \in T
  <2> SUFFICES ASSUME start + (n + 1) <= N PROVE Good(start + (n + 1))
    OBVIOUS
  <2>1. PICK i \in start + 1 .. N : i = start + (n + 1)
    BY <1>0
  <2>2. i - 1 = start + n /\ start + n <= N /\ start .. i = (start .. i - 1) \cup {i}
        /\ i - 1 \in Int /\ i \in 1 .. N
    BY <1>0, <2>1
  <2>3. Good(i - 1)
    BY <1>10, <2>2
  <2>4. \A k \in start .. i : k \in 1 .. N
    BY <1>0, <2>2
  <2>5. s[best[i - 1]] \in Listed /\ s[i] \in Listed /\ \A k \in start .. i : s[k] \in Listed
    BY <1>0, <2>2, <2>3, <2>4
  <2>6. CASE Exceeds(s[best[i - 1]], s[i])
    <3>1. best[i] = i
      BY <1>8, <2>6
    <3>2. ~Exceeds(s[i], s[best[i - 1]])
      BY <2>5, <2>6, Order
    <3>3. \A k \in start .. i - 1 : ~Exceeds(s[i], s[k])
      BY <2>2, <2>3, <2>5, <3>2, Order
    <3>4. ~Exceeds(s[i], s[i])
      BY <2>5, Order
    <3> QED
      BY <1>0, <2>1, <2>2, <3>1, <3>3, <3>4
  <2>7. CASE ~Exceeds(s[best[i - 1]], s[i])
    <3>1. best[i] = best[i - 1]
      BY <1>8, <2>7
    <3> QED
      BY <2>1, <2>2, <2>3, <2>7, <3>1
  <2> QED
    BY <2>6, <2>7
<1> HIDE DEF T
<1>11. \A n \in Nat : n \in T
  BY <1>9, <1>10, Induction
<1>12. Good(N)
  <2>1. N - start \in Nat /\ start + (N - start) = N /\ N <= N
    BY <1>0 DEF D
  <2> HIDE DEF Good
  <2> QED
    BY <1>11, <2>1 DEF T
<1> QED
  BY <1>7, <1>12 DEF N

LEMMA SwapIs ==
  ASSUME NEW s \in Seq(Listed), NEW i \in 1 .. Len(s), NEW j \in 1 .. Len(s)
  PROVE  /\ swap(s, i, j) \in Seq(Listed) /\ Len(swap(s, i, j)) = Len(s)
         /\ swap(s, i, j)[i] = s[j] /\ swap(s, i, j)[j] = s[i]
         /\ \A k \in 1 .. Len(s) : k # i /\ k # j => swap(s, i, j)[k] = s[k]
  BY DEF swap

LEMMA SwapLike ==
  ASSUME NEW s \in Seq(Listed), NEW i \in 1 .. Len(s), NEW j \in 1 .. Len(s)
  PROVE  Like(s, swap(s, i, j))
<1> DEFINE N == Len(s)
           t == swap(s, i, j)
           other == [k \in 1 .. N |-> IF k = i THEN j ELSE IF k = j THEN i ELSE k]
<1>1. /\ t \in Seq(Listed) /\ Len(t) = N /\ t[i] = s[j] /\ t[j] = s[i]
      /\ \A k \in 1 .. N : k # i /\ k # j => t[k] = s[k]
  BY SwapIs
<1>2. N \in Nat /\ i \in 1 .. N /\ j \in 1 .. N
  OBVIOUS
<1> HIDE DEF N, t
<1>3. \A k \in 1 .. N : other[k] \in 1 .. N /\ other[other[k]] = k /\ s[other[k]] = t[k]
  BY <1>1, <1>2
<1>4. other \in [1 .. N -> 1 .. N] /\ \A k, q \in 1 .. N : other[k] = other[q] => k = q
  <2>1. other \in [1 .. N -> 1 .. N]
    BY <1>2
  <2> HIDE DEF other
  <2> QED
    BY <1>3, <2>1
<1> HIDE DEF other
<1>5. Like(s, t)
  <2>1. /\ s \in Seq(Listed) /\ t \in Seq(Listed) /\ Len(s) = Len(t)
        /\ other \in [1 .. Len(s) -> 1 .. Len(s)]
        /\ \A k, q \in 1 .. Len(s) : other[k] = other[q] => k = q
        /\ \A k \in 1 .. Len(s) : s[other[k]] = t[k]
    BY <1>1, <1>3, <1>4 DEF N
  <2> QED
    BY <2>1, LikeBy
<1> QED
  BY <1>5 DEF t

\* The first i movies are in order, and none of the rest comes before them.
Upto(t, i) == \A j \in 1 .. i, k \in 1 .. Len(t) : j < k => ~Exceeds(t[j], t[k])

LEMMA TurnIs ==
  ASSUME NEW t \in Seq(Listed), NEW i \in 1 .. Len(t), Upto(t, i - 1)
  PROVE  LET u == swap(t, i, argmax(t, i))
         IN u \in Seq(Listed) /\ Like(t, u) /\ Upto(u, i)
<1> DEFINE N == Len(t)
           m == argmax(t, i)
           u == swap(t, i, m)
<1>0. N \in Nat /\ i \in 1 .. N
  OBVIOUS
<1>1. m \in i .. N /\ \A k \in i .. N : ~Exceeds(t[m], t[k])
  BY ArgmaxIs
<1>2. m \in 1 .. N
  BY <1>0, <1>1
<1> HIDE DEF m
<1>3. /\ u \in Seq(Listed) /\ Len(u) = N /\ u[i] = t[m] /\ u[m] = t[i]
      /\ \A k \in 1 .. N : k # i /\ k # m => u[k] = t[k]
  BY <1>2, SwapIs
<1>4. Like(t, u)
  BY <1>2, SwapLike
<1> HIDE DEF u
<1>5. ASSUME NEW j \in 1 .. i, NEW k \in 1 .. N, j < k
      PROVE  ~Exceeds(u[j], u[k])
  <2>1. \E l \in 1 .. N : u[k] = t[l] /\ IF k < i THEN l = k ELSE l >= i
    <3>1. CASE k = i
      BY <1>0, <1>1, <1>2, <1>3, <3>1
    <3>2. CASE k = m /\ k # i
      BY <1>0, <1>1, <1>2, <1>3, <3>2
    <3>3. CASE k # m /\ k # i
      BY <1>0, <1>3, <3>3
    <3> QED
      BY <3>1, <3>2, <3>3
  <2>2. PICK l \in 1 .. N : u[k] = t[l] /\ IF k < i THEN l = k ELSE l >= i
    BY <2>1
  <2>3. CASE j = i
    <3>1. l \in i .. N
      BY <1>0, <1>5, <2>2, <2>3
    <3> QED
      BY <1>1, <1>3, <2>2, <2>3, <3>1
  <2>4. CASE j # i
    <3>1. j \in 1 .. i - 1 /\ j < l /\ j \in 1 .. N /\ j # m /\ j # i
      BY <1>0, <1>1, <1>5, <2>2, <2>4
    <3>2. ~Exceeds(t[j], t[l])
      BY <3>1 DEF Upto
    <3> QED
      BY <1>3, <2>2, <3>1, <3>2
  <2> QED
    BY <2>3, <2>4
<1>6. Upto(u, i)
  BY <1>3, <1>5 DEF Upto
<1> QED
  BY <1>3, <1>4, <1>6 DEF u, m

LEMMA SortIs ==
  ASSUME NEW s \in Seq(Listed), s # <<>>
  PROVE  sort(s) \in Seq(Listed) /\ Like(s, sort(s)) /\ Ordered(sort(s))
<1> DEFINE N == Len(s)
           S == {t \in Seq(Listed) : Len(t) = N}
           Turn(t, i) == swap(t, i, argmax(t, i))
           g == [n \in Nat |-> [t \in S |-> IF n + 1 \in 1 .. N - 1 THEN Turn(t, n + 1) ELSE t]]
           Unfolds(h) == h = [i \in 0 .. N - 1 |-> IF i = 0 THEN s ELSE Turn(h[i - 1], i)]
<1>0. N \in Nat /\ N > 0 /\ s \in S
  OBVIOUS
<1>1. sort(s) = (CHOOSE h : Unfolds(h))[N - 1]
  BY DEF sort
<1> HIDE DEF N
<1>2. ASSUME NEW t \in S, NEW i \in 1 .. N PROVE Turn(t, i) \in S
  <2>1. i \in 1 .. Len(t) /\ t \in Seq(Listed)
    BY <1>2
  <2>2. argmax(t, i) \in i .. Len(t)
    BY <2>1, ArgmaxIs
  <2>3. argmax(t, i) \in 1 .. Len(t)
    BY <2>1, <2>2
  <2> QED
    BY <2>1, <2>3, SwapIs
<1> HIDE DEF Turn
<1>3. g \in Steps(S)
  <2>1. ASSUME NEW n \in Nat, NEW t \in S
        PROVE  (IF n + 1 \in 1 .. N - 1 THEN Turn(t, n + 1) ELSE t) \in S
    <3>1. n + 1 \in 1 .. N - 1 => n + 1 \in 1 .. N
      BY <1>0
    <3> HIDE DEF S
    <3> QED
      BY <1>2, <3>1
  <2> HIDE DEF S
  <2> QED
    BY <2>1 DEF Steps
<1> HIDE DEF S
<1>4. PICK f \in [Nat -> S] : f[0] = s /\ \A n \in Nat : f[n + 1] = g[n][f[n]]
  <2> HIDE DEF g
  <2>1. \E f : Recurs(f, S, s, g)
    BY <1>0, <1>3, Recursion
  <2> QED
    BY <2>1 DEF Recurs
<1>5. \A n \in Nat : n + 1 \in 1 .. N - 1 => f[n + 1] = Turn(f[n], n + 1)
  BY <1>4
<1> HIDE DEF g
<1> DEFINE h == [i \in 0 .. N - 1 |-> f[i]]
<1>6. Unfolds(h)
  <2>1. ASSUME NEW i \in 0 .. N - 1
        PROVE  h[i] = IF i = 0 THEN s ELSE Turn(h[i - 1], i)
    <3>1. i # 0 => i - 1 \in Nat /\ i - 1 \in 0 .. N - 1 /\ (i - 1) + 1 = i /\ i \in 1 .. N - 1
      BY <1>0
    <3> QED
      BY <1>4, <1>5, <3>1
  <2>2. h = [i \in 0 .. N - 1 |-> h[i]]
    OBVIOUS
  <2> HIDE DEF h
  <2> QED
    BY <2>1, <2>2
<1> DEFINE turn == CHOOSE e : Unfolds(e)
<1>7. Unfolds(turn)
  <2> HIDE DEF h
  <2> QED
    BY <1>6
<1>8. sort(s) = turn[N - 1]
  BY <1>1
<1> HIDE DEF turn, h
<1>9. turn[0] = s /\ \A i \in 1 .. N - 1 : turn[i] = Turn(turn[i - 1], i)
  <2>1. 0 \in 0 .. N - 1 /\ \A i \in 1 .. N - 1 : i \in 0 .. N - 1 /\ i # 0
    BY <1>0
  <2> QED
    BY <1>7, <2>1
<1> HIDE DEF Unfolds
<1> DEFINE Good(i) == turn[i] \in Seq(Listed) /\ Like(s, turn[i]) /\ Upto(turn[i], i)
           T == {i \in 0 .. N - 1 : Good(i)}
<1>10. 0 \in T
  <2>1. Like(s, s)
    BY LikeIs
  <2>2. Upto(s, 0)
    BY DEF Upto
  <2> QED
    BY <1>0, <1>9, <2>1, <2>2
<1>11. ASSUME NEW n \in 0 .. (N - 1) - 1, n \in T PROVE n + 1 \in T
  <2>1. n + 1 \in 1 .. N - 1 /\ (n + 1) - 1 = n /\ n + 1 \in 0 .. N - 1 /\ n + 1 \in 1 .. N
    BY <1>0
  <2>2. turn[n + 1] = Turn(turn[n], n + 1)
    BY <1>9, <2>1
  <2>3. turn[n] \in Seq(Listed) /\ Like(s, turn[n]) /\ Upto(turn[n], (n + 1) - 1)
    BY <1>11, <2>1
  <2>4. Len(turn[n]) = N
    BY <2>3 DEF Like, N
  <2>5. Turn(turn[n], n + 1) \in Seq(Listed) /\ Like(turn[n], Turn(turn[n], n + 1))
        /\ Upto(Turn(turn[n], n + 1), n + 1)
    BY <2>1, <2>3, <2>4, TurnIs DEF Turn
  <2>6. Like(s, turn[n + 1])
    BY <2>2, <2>3, <2>5, LikeIs
  <2> QED
    BY <2>1, <2>2, <2>5, <2>6
<1> HIDE DEF T
<1>12. \A n \in 0 .. N - 1 : n \in T
  <2>1. N - 1 \in Nat
    BY <1>0
  <2> QED
    BY <1>10, <1>11, <2>1, InductionTo
<1>13. Good(N - 1)
  <2>1. N - 1 \in 0 .. N - 1
    BY <1>0
  <2> HIDE DEF Good
  <2> QED
    BY <1>12, <2>1 DEF T
<1>14. Ordered(turn[N - 1])
  <2> DEFINE t == turn[N - 1]
  <2>1. t \in Seq(Listed) /\ Upto(t, N - 1) /\ Len(t) = N
    BY <1>13 DEF Like, N
  <2> HIDE DEF t
  <2>2. \A i, j \in 1 .. N : i < j => i \in 1 .. N - 1
    BY <1>0
  <2>3. Ordered(t)
    BY <2>1, <2>2, OrderedIs DEF Upto
  <2> QED
    BY <2>3 DEF t
<1> QED
  BY <1>8, <1>13, <1>14

-----------------------------------------------------------------------------
(* The merge.                                                              *)

LEMMA OneTaken ==
  ASSUME NEW p \in Nat, NEW q \in Nat, NEW n \in Nat, NEW i \in 0 .. p,
         n - i \in 0 .. q, n < p + q
  PROVE  /\ i < p => i + 1 \in 0 .. p /\ (n + 1) - (i + 1) \in 0 .. q
         /\ ~(i < p /\ n - i = q) => (n + 1) - i \in 0 .. q
  OBVIOUS

LEMMA LeftsAre ==
  ASSUME NEW l \in Seq(Listed), NEW r \in Seq(Listed)
  PROVE  /\ Lefts(l, r)[0] = 0
         /\ \A k \in 1 .. Len(l) + Len(r) :
              Lefts(l, r)[k] = IF FromLeft(l, r, Lefts(l, r)[k - 1], k - 1 - Lefts(l, r)[k - 1])
                               THEN Lefts(l, r)[k - 1] + 1 ELSE Lefts(l, r)[k - 1]
         /\ \A k \in 0 .. Len(l) + Len(r) :
              Lefts(l, r)[k] \in 0 .. Len(l) /\ k - Lefts(l, r)[k] \in 0 .. Len(r)
<1> DEFINE N == Len(l) + Len(r)
           Onward(i, k) == IF FromLeft(l, r, i, k - 1 - i) THEN i + 1 ELSE i
           g == [n \in Nat |-> [i \in Nat |-> Onward(i, n + 1)]]
           Unfolds(h) == h = [k \in 0 .. N |-> IF k = 0 THEN 0 ELSE Onward(h[k - 1], k)]
<1>0. N \in Nat /\ Len(l) \in Nat /\ Len(r) \in Nat /\ N = Len(l) + Len(r)
  OBVIOUS
<1>1. Lefts(l, r) = CHOOSE h : Unfolds(h)
  BY DEF Lefts
<1> HIDE DEF N
<1>2. \A i \in Nat, k \in Nat : Onward(i, k) \in Nat
  OBVIOUS
<1> HIDE DEF Onward
<1>3. g \in Steps(Nat)
  <2>1. ASSUME NEW n \in Nat, NEW i \in Nat PROVE Onward(i, n + 1) \in Nat
    <3>1. n + 1 \in Nat
      OBVIOUS
    <3> QED
      BY <1>2, <3>1
  <2> QED
    BY <2>1 DEF Steps
<1>4. PICK f \in [Nat -> Nat] : f[0] = 0 /\ \A n \in Nat : f[n + 1] = g[n][f[n]]
  <2> HIDE DEF g
  <2>1. \E f : Recurs(f, Nat, 0, g)
    BY <1>3, Recursion
  <2> QED
    BY <2>1 DEF Recurs
<1>5. \A n \in Nat : f[n + 1] = Onward(f[n], n + 1)
  BY <1>4
<1> HIDE DEF g
<1> DEFINE h == [k \in 0 .. N |-> f[k]]
<1>6. Unfolds(h)
  <2>1. ASSUME NEW k \in 0 .. N
        PROVE  h[k] = IF k = 0 THEN 0 ELSE Onward(h[k - 1], k)
    <3>1. k # 0 => k - 1 \in Nat /\ k - 1 \in 0 .. N /\ (k - 1) + 1 = k
      BY <1>0
    <3> QED
      BY <1>4, <1>5, <3>1
  <2>2. h = [k \in 0 .. N |-> h[k]]
    OBVIOUS
  <2> HIDE DEF h
  <2> QED
    BY <2>1, <2>2
<1> DEFINE ls == Lefts(l, r)
<1>7. Unfolds(ls)
  <2> HIDE DEF h
  <2> QED
    BY <1>1, <1>6
<1> HIDE DEF ls, h
<1>8. ls[0] = 0 /\ \A k \in 1 .. N : ls[k] = Onward(ls[k - 1], k)
  <2>1. 0 \in 0 .. N /\ \A k \in 1 .. N : k \in 0 .. N /\ k # 0
    BY <1>0
  <2> QED
    BY <1>7, <2>1
<1> HIDE DEF Unfolds
<1> DEFINE p == Len(l)
           q == Len(r)
           T == {k \in 0 .. N : ls[k] \in 0 .. p /\ k - ls[k] \in 0 .. q}
<1>9. N \in Nat /\ p \in Nat /\ q \in Nat /\ N = p + q
  BY <1>0
<1> HIDE DEF p, q
<1>10. 0 \in T
  <2>1. ls[0] = 0
    BY <1>8
  <2>2. 0 - ls[0] = 0
    BY <2>1
  <2>3. 0 \in 0 .. N /\ 0 \in 0 .. p /\ 0 \in 0 .. q
    BY <1>9
  <2>4. ls[0] \in 0 .. p /\ 0 - ls[0] \in 0 .. q
    BY <2>1, <2>2, <2>3
  <2> QED
    BY <2>3, <2>4
<1>11. ASSUME NEW n \in 0 .. N - 1, n \in T PROVE n + 1 \in T
  <2>1. n + 1 \in 1 .. N /\ (n + 1) - 1 = n /\ n + 1 \in 0 .. N /\ n \in Nat /\ n < p + q
    BY <1>9
  <2>2. PICK i \in 0 .. p : i = ls[n] /\ n - i \in 0 .. q
    BY <1>11
  <2>3. ls[n + 1] = Onward(i, n + 1)
    BY <1>8, <2>1, <2>2
  <2>4. (n + 1) - 1 - i = n - i
    BY <2>1, <2>2
  <2>5. CASE FromLeft(l, r, i, n - i)
    <3>1. ls[n + 1] = i + 1 /\ i < p
      BY <2>3, <2>4, <2>5 DEF Onward, FromLeft, p
    <3>2. (n + 1) - (i + 1) \in 0 .. q /\ i + 1 \in 0 .. p
      BY <1>9, <2>1, <2>2, <3>1, OneTaken
    <3> QED
      BY <2>1, <2>2, <3>1, <3>2
  <2>6. CASE ~FromLeft(l, r, i, n - i)
    <3>1. ls[n + 1] = i
      BY <2>3, <2>4, <2>6 DEF Onward
    <3>2. i < p => n - i # q
      BY <2>6 DEF FromLeft, p, q
    <3>3. (n + 1) - i \in 0 .. q
      BY <1>9, <2>1, <2>2, <3>2, OneTaken
    <3> QED
      BY <2>1, <2>2, <3>1, <3>3
  <2> QED
    BY <2>5, <2>6
<1> HIDE DEF T
<1>12. \A k \in 0 .. N : k \in T
  BY <1>9, <1>10, <1>11, InductionTo
<1>13. \A k \in 0 .. N : ls[k] \in 0 .. p /\ k - ls[k] \in 0 .. q
  BY <1>12 DEF T
<1> QED
  BY <1>8, <1>13 DEF ls, N, Onward, p, q

\* The k-th merged movie is taken when i of the left and j of the right are gone.
Taken(l, r, k, i, j) ==
  /\ Lefts(l, r)[k - 1] = i /\ k - 1 = i + j
  /\ \/ /\ i < Len(l) /\ Lefts(l, r)[k] = i + 1 /\ merge(l, r)[k] = l[i + 1]
        /\ j < Len(r) => ~Exceeds(l[i + 1], r[j + 1])
     \/ /\ j < Len(r) /\ Lefts(l, r)[k] = i /\ merge(l, r)[k] = r[j + 1]
        /\ i < Len(l) => Exceeds(l[i + 1], r[j + 1])

LEMMA MergeStep ==
  ASSUME NEW l \in Seq(Listed), NEW r \in Seq(Listed), NEW k \in 1 .. Len(l) + Len(r)
  PROVE  \E i \in 0 .. Len(l), j \in 0 .. Len(r) : Taken(l, r, k, i, j)
<1> DEFINE ls == Lefts(l, r)
           p == Len(l)
           q == Len(r)
<1>1. p \in Nat /\ q \in Nat /\ k \in 1 .. p + q /\ k \in Int
  OBVIOUS
<1>2. merge(l, r)[k] = IF ls[k] > ls[k - 1] THEN l[ls[k]] ELSE r[k - ls[k]]
  BY <1>1 DEF merge
<1>3. /\ ls[k] = IF FromLeft(l, r, ls[k - 1], k - 1 - ls[k - 1]) THEN ls[k - 1] + 1 ELSE ls[k - 1]
      /\ ls[k - 1] \in 0 .. p /\ k - 1 - ls[k - 1] \in 0 .. q
      /\ ls[k] \in 0 .. p /\ k - ls[k] \in 0 .. q
  <2>1. k - 1 \in 0 .. p + q /\ k \in 0 .. p + q
    BY <1>1
  <2> QED
    BY <1>1, <2>1, LeftsAre
<1> HIDE DEF ls
<1>4. PICK i \in 0 .. p : i = ls[k - 1]
  BY <1>3
<1>5. PICK j \in 0 .. q : j = k - 1 - i
  BY <1>3, <1>4
<1>6. k - 1 = i + j
  BY <1>1, <1>5
<1>7. CASE FromLeft(l, r, i, j)
  <2>1. ls[k] = i + 1
    BY <1>3, <1>4, <1>5, <1>7
  <2>2. merge(l, r)[k] = l[i + 1]
    <3>1. i + 1 > i
      BY <1>1
    <3> QED
      BY <1>2, <1>4, <2>1, <3>1
  <2>3. i < p /\ (j < q => ~Exceeds(l[i + 1], r[j + 1]))
    <3>1. i < p /\ (j = q \/ ~Exceeds(l[i + 1], r[j + 1]))
      BY <1>7 DEF FromLeft
    <3>2. j < q => j # q
      BY <1>1
    <3> QED
      BY <3>1, <3>2
  <2> QED
    BY <1>4, <1>6, <2>1, <2>2, <2>3 DEF ls, Taken
<1>8. CASE ~FromLeft(l, r, i, j)
  <2>1. ls[k] = i
    BY <1>3, <1>4, <1>5, <1>8
  <2>2. k - i = j + 1 /\ ~(i > i)
    BY <1>1, <1>5
  <2>3. merge(l, r)[k] = r[j + 1]
    BY <1>2, <1>4, <2>1, <2>2
  <2>4. j + 1 \in 0 .. q
    BY <1>3, <2>1, <2>2
  <2>5. j < q
    BY <1>1, <2>4
  <2>6. i < p => Exceeds(l[i + 1], r[j + 1])
    <3>1. j # q
      BY <1>1, <2>5
    <3> QED
      BY <1>8, <3>1 DEF FromLeft
  <2> QED
    BY <1>4, <1>6, <2>1, <2>3, <2>5, <2>6 DEF ls, Taken
<1> QED
  BY <1>7, <1>8

LEMMA MergeType ==
  ASSUME NEW l \in Seq(Listed), NEW r \in Seq(Listed)
  PROVE  merge(l, r) \in Seq(Listed) /\ Len(merge(l, r)) = Len(l) + Len(r)
<1> DEFINE N == Len(l) + Len(r)
           ls == Lefts(l, r)
<1>1. N \in Nat /\ Len(l) \in Nat /\ Len(r) \in Nat
  OBVIOUS
<1>2. merge(l, r) = [k \in 1 .. N |-> IF ls[k] > ls[k - 1] THEN l[ls[k]] ELSE r[k - ls[k]]]
  BY DEF merge
<1>3. ASSUME NEW k \in 1 .. N PROVE merge(l, r)[k] \in Listed
  <2>1. \A i \in 0 .. Len(l) : i < Len(l) => l[i + 1] \in Listed
    OBVIOUS
  <2>2. \A j \in 0 .. Len(r) : j < Len(r) => r[j + 1] \in Listed
    OBVIOUS
  <2>3. PICK i \in 0 .. Len(l), j \in 0 .. Len(r) : Taken(l, r, k, i, j)
    BY MergeStep
  <2> QED
    BY <2>1, <2>2, <2>3 DEF Taken
<1> HIDE DEF N, ls
<1>4. merge(l, r) \in [1 .. N -> Listed]
  BY <1>2, <1>3
<1> QED
  BY <1>1, <1>4 DEF N

LEMMA MergeLike ==
  ASSUME NEW l \in Seq(Listed), NEW r \in Seq(Listed)
  PROVE  Like(l \o r, merge(l, r))
<1> DEFINE p == Len(l)
           q == Len(r)
           ls == Lefts(l, r)
           T == {b \in 0 .. p + q : \A a \in 0 .. b : ls[a] <= ls[b] /\ a - ls[a] <= b - ls[b]}
           place == [k \in 1 .. p + q |-> IF ls[k] > ls[k - 1] THEN ls[k] ELSE p + (k - ls[k])]
<1>1. p \in Nat /\ q \in Nat /\ p + q \in Nat
  OBVIOUS
<1>2. /\ \A k \in 0 .. p + q : ls[k] \in 0 .. p /\ k - ls[k] \in 0 .. q
      /\ ls[0] = 0
  BY LeftsAre
<1>3. ASSUME NEW k \in 1 .. p + q
      PROVE  \/ /\ ls[k] = ls[k - 1] + 1 /\ ls[k] \in 1 .. p /\ merge(l, r)[k] = l[ls[k]]
             \/ /\ ls[k] = ls[k - 1] /\ k - ls[k] \in 1 .. q /\ merge(l, r)[k] = r[k - ls[k]]
  <2>0. PICK i \in 0 .. p, j \in 0 .. q : Taken(l, r, k, i, j)
    BY MergeStep
  <2>1. /\ ls[k - 1] = i /\ k - 1 = i + j
        /\ \/ i < p /\ ls[k] = i + 1 /\ merge(l, r)[k] = l[i + 1]
           \/ j < q /\ ls[k] = i /\ merge(l, r)[k] = r[j + 1]
    BY <2>0 DEF Taken
  <2>2. CASE i < p /\ ls[k] = i + 1 /\ merge(l, r)[k] = l[i + 1]
    BY <1>1, <2>1, <2>2
  <2>3. CASE j < q /\ ls[k] = i /\ merge(l, r)[k] = r[j + 1]
    <3>1. k - i = j + 1
      BY <2>1
    <3>2. j + 1 \in 1 .. q
      BY <1>1, <2>3
    <3> QED
      BY <2>1, <2>3, <3>1, <3>2
  <2> QED
    BY <2>1, <2>2, <2>3
<1> HIDE DEF p, q, ls
<1>4. ASSUME NEW n \in 0 .. (p + q) - 1, n \in T PROVE n + 1 \in T
  <2>1. n + 1 \in 1 .. p + q /\ n + 1 \in 0 .. p + q /\ (n + 1) - 1 = n /\ n \in 0 .. p + q
    BY <1>1
  <2>2. PICK i \in 0 .. p : i = ls[n]
    BY <1>2, <2>1
  <2>3. PICK i1 \in 0 .. p : i1 = ls[n + 1]
    BY <1>2, <2>1
  <2>4. i1 = i + 1 \/ i1 = i
    BY <1>3, <2>1, <2>2, <2>3
  <2>5. ASSUME NEW a \in 0 .. n + 1
        PROVE  ls[a] <= ls[n + 1] /\ a - ls[a] <= (n + 1) - ls[n + 1]
    <3>1. CASE a = n + 1
      <4>1. i1 <= i1 /\ a - i1 <= (n + 1) - i1
        BY <1>1, <3>1
      <4> QED
        BY <2>3, <3>1, <4>1
    <3>2. CASE a # n + 1
      <4>1. a \in 0 .. n
        BY <2>1, <3>2
      <4>2. PICK c \in 0 .. p : c = ls[a]
        <5>1. a \in 0 .. p + q
          BY <1>1, <2>1, <4>1
        <5> QED
          BY <1>2, <5>1
      <4>3. c <= i /\ a - c <= n - i
        BY <1>4, <2>2, <4>1, <4>2
      <4>4. c <= i1 /\ a - c <= (n + 1) - i1
        BY <1>1, <2>1, <2>4, <4>1, <4>3
      <4> QED
        BY <2>3, <4>2, <4>4
    <3> QED
      BY <3>1, <3>2
  <2> QED
    BY <2>1, <2>5
<1>5. 0 \in T
  <2>1. \A a \in 0 .. 0 : a = 0
    OBVIOUS
  <2>2. ls[0] <= ls[0] /\ 0 - ls[0] <= 0 - ls[0]
    BY <1>2
  <2> QED
    BY <1>1, <2>1, <2>2
<1> HIDE DEF T
<1>6. \A b \in 0 .. p + q : b \in T
  BY <1>1, <1>4, <1>5, InductionTo
<1>7. \A b \in 0 .. p + q : \A a \in 0 .. b : ls[a] <= ls[b] /\ a - ls[a] <= b - ls[b]
  BY <1>6 DEF T
<1>8. ASSUME NEW k \in 1 .. p + q
      PROVE  \/ /\ ls[k] = ls[k - 1] + 1 /\ ls[k] \in 1 .. p /\ merge(l, r)[k] = l[ls[k]]
                /\ place[k] = ls[k]
             \/ /\ ls[k] = ls[k - 1] /\ k - ls[k] \in 1 .. q /\ merge(l, r)[k] = r[k - ls[k]]
                /\ place[k] = p + (k - ls[k])
  <2>1. k - 1 \in 0 .. p + q
    BY <1>1
  <2>2. PICK i \in 0 .. p : i = ls[k - 1]
    BY <1>2, <2>1
  <2>3. i + 1 > i /\ ~(i > i)
    BY <1>1
  <2> QED
    BY <1>3, <2>2, <2>3
<1> HIDE DEF place
<1>9. ASSUME NEW a \in 1 .. p + q, NEW b \in 1 .. p + q, a < b
      PROVE  place[a] # place[b]
  <2>1. a \in 0 .. p + q /\ b \in 0 .. p + q /\ b - 1 \in 0 .. p + q /\ a \in 0 .. b - 1
    BY <1>1, <1>9
  <2>2. PICK i \in 0 .. p, j \in 0 .. q : i = ls[a] /\ j = a - i
    BY <1>2, <2>1
  <2>3. PICK i1 \in 0 .. p, j1 \in 0 .. q : i1 = ls[b - 1] /\ j1 = (b - 1) - i1
    BY <1>2, <2>1
  <2>4. i <= i1 /\ j <= j1
    BY <1>7, <2>1, <2>2, <2>3
  <2>5. (i \in 1 .. p /\ place[a] = i) \/ (j \in 1 .. q /\ place[a] = p + j)
    BY <1>8, <2>2
  <2>6. (i1 + 1 \in 1 .. p /\ place[b] = i1 + 1)
        \/ (b - i1 \in 1 .. q /\ place[b] = p + (b - i1))
    BY <1>8, <2>3
  <2>7. b - i1 = j1 + 1
    BY <1>1, <2>3
  <2> QED
    BY <1>1, <2>4, <2>5, <2>6, <2>7
<1>10. \A a, b \in 1 .. p + q : place[a] = place[b] => a = b
  <2> SUFFICES ASSUME NEW a \in 1 .. p + q, NEW b \in 1 .. p + q, a # b
               PROVE  place[a] # place[b]
    OBVIOUS
  <2>1. a < b \/ b < a
    BY <1>1
  <2> QED
    BY <1>9, <2>1
<1>11. place \in [1 .. p + q -> 1 .. p + q]
  <2>1. ASSUME NEW k \in 1 .. p + q PROVE place[k] \in 1 .. p + q
    <3>1. \A i \in 1 .. p : i \in 1 .. p + q
      BY <1>1
    <3>2. \A j \in 1 .. q : p + j \in 1 .. p + q
      BY <1>1
    <3> QED
      BY <1>8, <3>1, <3>2
  <2> QED
    BY <2>1 DEF place
<1> DEFINE c == l \o r
<1>12. /\ c \in Seq(Listed) /\ Len(c) = p + q
       /\ \A i \in 1 .. p : c[i] = l[i]
       /\ \A j \in 1 .. q : c[p + j] = r[j]
  <2>1. c \in Seq(Listed) /\ Len(c) = p + q
        /\ \A i \in 1 .. p + q : c[i] = IF i <= p THEN l[i] ELSE r[i - p]
    BY Joined DEF p, q
  <2> HIDE DEF c
  <2>2. \A i \in 1 .. p : i \in 1 .. p + q /\ i <= p
    BY <1>1
  <2>3. \A j \in 1 .. q : p + j \in 1 .. p + q /\ ~(p + j <= p) /\ (p + j) - p = j
    BY <1>1
  <2> QED
    BY <2>1, <2>2, <2>3
<1> HIDE DEF c
<1>13. \A k \in 1 .. p + q : c[place[k]] = merge(l, r)[k]
  BY <1>8, <1>12
<1>14. merge(l, r) \in Seq(Listed) /\ Len(merge(l, r)) = Len(c)
  BY <1>12, MergeType DEF p, q
<1>15. Like(c, merge(l, r))
  <2>1. /\ place \in [1 .. Len(c) -> 1 .. Len(c)]
        /\ \A a, b \in 1 .. Len(c) : place[a] = place[b] => a = b
        /\ \A k \in 1 .. Len(c) : c[place[k]] = merge(l, r)[k]
    BY <1>10, <1>11, <1>12, <1>13
  <2> QED
    BY <1>12, <1>14, <2>1, LikeBy
<1> QED
  BY <1>15 DEF c

LEMMA MergeOrdered ==
  ASSUME NEW l \in Seq(Listed), NEW r \in Seq(Listed), Ordered(l), Ordered(r)
  PROVE  Ordered(merge(l, r))
<1> DEFINE p == Len(l)
           q == Len(r)
           ls == Lefts(l, r)
           m == merge(l, r)
           Good(k) == \A a \in 1 .. k :
                        /\ \A i \in ls[k] + 1 .. p : ~Exceeds(m[a], l[i])
                        /\ \A j \in k - ls[k] + 1 .. q : ~Exceeds(m[a], r[j])
           T == {k \in 0 .. p + q : Good(k)}
<1>1. p \in Nat /\ q \in Nat /\ p + q \in Nat
  OBVIOUS
<1>2. m \in Seq(Listed) /\ Len(m) = p + q
  BY MergeType
<1>3. /\ \A i \in 1 .. p : l[i] \in Listed
      /\ \A i, j \in 1 .. p : i < j => ~Exceeds(l[i], l[j])
  BY OrderedIs
<1>4. /\ \A i \in 1 .. q : r[i] \in Listed
      /\ \A i, j \in 1 .. q : i < j => ~Exceeds(r[i], r[j])
  BY OrderedIs
<1>5. ASSUME NEW k \in 1 .. p + q
      PROVE  \E i \in 0 .. p, j \in 0 .. q :
               /\ ls[k - 1] = i /\ k - 1 = i + j
               /\ \/ /\ i < p /\ ls[k] = i + 1 /\ m[k] = l[i + 1]
                     /\ j < q => ~Exceeds(l[i + 1], r[j + 1])
                  \/ /\ j < q /\ ls[k] = i /\ m[k] = r[j + 1]
                     /\ i < p => Exceeds(l[i + 1], r[j + 1])
  <2>1. PICK i \in 0 .. p, j \in 0 .. q : Taken(l, r, k, i, j)
    BY MergeStep
  <2> QED
    BY <2>1 DEF Taken
<1>6. \A k \in 1 .. p + q : m[k] \in Listed
  BY <1>2
<1> HIDE DEF p, q, ls, m
<1>7. 0 \in T
  BY <1>1
<1>8. ASSUME NEW n \in 0 .. (p + q) - 1, n \in T
      PROVE  n + 1 \in T /\ \A a \in 1 .. n : ~Exceeds(m[a], m[n + 1])
  <2> DEFINE k == n + 1
  <2>0. k \in 1 .. p + q /\ k - 1 = n /\ k \in 0 .. p + q /\ n \in 0 .. p + q
    BY <1>1
  <2> HIDE DEF k
  <2>1. PICK i \in 0 .. p, j \in 0 .. q :
               /\ ls[k - 1] = i /\ k - 1 = i + j
               /\ \/ /\ i < p /\ ls[k] = i + 1 /\ m[k] = l[i + 1]
                     /\ j < q => ~Exceeds(l[i + 1], r[j + 1])
                  \/ /\ j < q /\ ls[k] = i /\ m[k] = r[j + 1]
                     /\ i < p => Exceeds(l[i + 1], r[j + 1])
    BY <1>5, <2>0
  <2>2. n - i = j /\ ls[n] = i
    BY <2>0, <2>1
  <2>3. /\ \A a \in 1 .. n, d \in i + 1 .. p : ~Exceeds(m[a], l[d])
        /\ \A a \in 1 .. n, d \in j + 1 .. q : ~Exceeds(m[a], r[d])
    BY <1>8, <2>2
  <2>4. \A a \in 1 .. k : a \in 1 .. n \/ a = k
    BY <2>0
  <2>5. CASE /\ i < p /\ ls[k] = i + 1 /\ m[k] = l[i + 1]
             /\ j < q => ~Exceeds(l[i + 1], r[j + 1])
    <3>1. i + 1 \in 1 .. p /\ i + 1 \in i + 1 .. p /\ k - (i + 1) = j
      <4>1. i + 1 \in 1 .. p /\ i + 1 \in i + 1 .. p
        BY <1>1, <2>5
      <4>2. k \in Int /\ k = i + j + 1
        BY <1>1, <2>0, <2>1
      <4>3. k - (i + 1) = j
        BY <1>1, <4>2
      <4> QED
        BY <4>1, <4>3
    <3>2. ASSUME NEW d \in (i + 1) + 1 .. p PROVE ~Exceeds(m[k], l[d]) /\ d \in i + 1 .. p
      <4>1. d \in 1 .. p /\ i + 1 < d /\ d \in i + 1 .. p
        BY <1>1
      <4> QED
        BY <1>3, <2>5, <3>1, <4>1
    <3>3. ASSUME NEW d \in j + 1 .. q PROVE ~Exceeds(m[k], r[d])
      <4>1. d \in 1 .. q /\ j < q /\ j + 1 \in 1 .. q /\ (d = j + 1 \/ j + 1 < d)
        BY <1>1
      <4>2. ~Exceeds(l[i + 1], r[j + 1]) /\ (d # j + 1 => ~Exceeds(r[j + 1], r[d]))
        BY <1>4, <2>5, <4>1
      <4>3. l[i + 1] \in Listed /\ r[j + 1] \in Listed /\ r[d] \in Listed
        BY <1>3, <1>4, <3>1, <4>1
      <4> QED
        BY <2>5, <4>1, <4>2, <4>3, Order
    <3>4. /\ \A a \in 1 .. k : \A d \in (i + 1) + 1 .. p : ~Exceeds(m[a], l[d])
          /\ \A a \in 1 .. k : \A d \in j + 1 .. q : ~Exceeds(m[a], r[d])
      BY <2>3, <2>4, <3>2, <3>3
    <3>5. Good(k)
      BY <2>5, <3>1, <3>4
    <3>6. \A a \in 1 .. n : ~Exceeds(m[a], m[k])
      BY <2>3, <2>5, <3>1
    <3> HIDE DEF Good
    <3> QED
      BY <2>0, <3>5, <3>6 DEF k
  <2>6. CASE /\ j < q /\ ls[k] = i /\ m[k] = r[j + 1]
             /\ i < p => Exceeds(l[i + 1], r[j + 1])
    <3>1. j + 1 \in 1 .. q /\ j + 1 \in j + 1 .. q /\ k - i = j + 1
      BY <1>1, <2>0, <2>1, <2>6
    <3>2. ASSUME NEW d \in (j + 1) + 1 .. q PROVE ~Exceeds(m[k], r[d]) /\ d \in j + 1 .. q
      <4>1. d \in 1 .. q /\ j + 1 < d /\ d \in j + 1 .. q
        BY <1>1
      <4> QED
        BY <1>4, <2>6, <3>1, <4>1
    <3>3. ASSUME NEW d \in i + 1 .. p PROVE ~Exceeds(m[k], l[d])
      <4>1. d \in 1 .. p /\ i < p /\ i + 1 \in 1 .. p /\ (d = i + 1 \/ i + 1 < d)
        BY <1>1
      <4>2. Exceeds(l[i + 1], r[j + 1]) /\ (d # i + 1 => ~Exceeds(l[i + 1], l[d]))
        BY <1>3, <2>6, <4>1
      <4>3. l[i + 1] \in Listed /\ r[j + 1] \in Listed /\ l[d] \in Listed
        BY <1>3, <1>4, <3>1, <4>1
      <4>4. ~Exceeds(r[j + 1], l[i + 1])
        BY <4>2, <4>3, Order
      <4> QED
        BY <2>6, <4>1, <4>2, <4>3, <4>4, Order
    <3>4. /\ \A a \in 1 .. k : \A d \in i + 1 .. p : ~Exceeds(m[a], l[d])
          /\ \A a \in 1 .. k : \A d \in (j + 1) + 1 .. q : ~Exceeds(m[a], r[d])
      BY <2>3, <2>4, <3>2, <3>3
    <3>5. Good(k)
      BY <2>6, <3>1, <3>4
    <3>6. \A a \in 1 .. n : ~Exceeds(m[a], m[k])
      BY <2>3, <2>6, <3>1
    <3> HIDE DEF Good
    <3> QED
      BY <2>0, <3>5, <3>6 DEF k
  <2> QED
    BY <2>1, <2>5, <2>6
<1> HIDE DEF T
<1>9. \A n \in 0 .. p + q : n \in T
  BY <1>1, <1>7, <1>8, InductionTo
<1>10. ASSUME NEW a \in 1 .. p + q, NEW b \in 1 .. p + q, a < b
       PROVE  ~Exceeds(m[a], m[b])
  <2>1. b - 1 \in 0 .. (p + q) - 1 /\ b - 1 \in 0 .. p + q /\ a \in 1 .. b - 1 /\ (b - 1) + 1 = b
    BY <1>1, <1>10
  <2> QED
    BY <1>8, <1>9, <2>1
<1>11. Ordered(m)
  BY <1>2, <1>10, OrderedIs
<1> QED
  BY <1>11 DEF m

-----------------------------------------------------------------------------
(* The movies of a request.                                                *)

LEMMA OneMore ==
  ASSUME NEW n \in Nat, NEW A, A \subseteq 1 .. n
  PROVE  Cardinality(A \cup {n + 1}) = Cardinality(A) + 1
<1>1. IsFiniteSet(A)
  BY Places
<1>2. n + 1 \notin A
  OBVIOUS
<1> QED
  BY <1>1, <1>2, FS_AddElement

LEMMA CountAppend ==
  ASSUME NEW S, NEW s \in Seq(S), NEW y \in S, NEW x
  PROVE  /\ y = x => Count(Append(s, y), x) = Count(s, x) + 1
         /\ y # x => Count(Append(s, y), x) = Count(s, x)
<1> DEFINE n == Len(s)
           A == {i \in 1 .. n : s[i] = x}
<1>1. /\ n \in Nat /\ Len(Append(s, y)) = n + 1 /\ Append(s, y)[n + 1] = y
      /\ \A i \in 1 .. n : Append(s, y)[i] = s[i]
      /\ 1 .. n + 1 = (1 .. n) \cup {n + 1}
  OBVIOUS
<1> HIDE DEF n
<1>2. Count(Append(s, y), x) = Cardinality({i \in 1 .. n + 1 : Append(s, y)[i] = x})
  BY <1>1 DEF Count
<1>3. Count(s, x) = Cardinality(A) /\ A \subseteq 1 .. n
  BY DEF Count, n
<1>4. ASSUME y = x PROVE Count(Append(s, y), x) = Count(s, x) + 1
  <2>1. {i \in 1 .. n + 1 : Append(s, y)[i] = x} = A \cup {n + 1}
    BY <1>1, <1>4
  <2> HIDE DEF A
  <2> QED
    BY <1>1, <1>2, <1>3, <2>1, OneMore
<1>5. ASSUME y # x PROVE Count(Append(s, y), x) = Count(s, x)
  <2>1. {i \in 1 .. n + 1 : Append(s, y)[i] = x} = A
    BY <1>1, <1>5
  <2> HIDE DEF A
  <2> QED
    BY <1>2, <1>3, <2>1
<1> QED
  BY <1>4, <1>5

\* How the list of a request grows.
Grown(s, movies, req, n) ==
  IF Matches(movies[n], req) THEN Append(s, Scored(movies[n], req)) ELSE s

LEMMA FilterSteps ==
  ASSUME NEW movies, NEW req, Searchable(movies, req)
  PROVE  \E up : /\ Filter(movies, req) = up[Len(movies)]
                 /\ up[0] = <<>>
                 /\ \A n \in 0 .. Len(movies) : up[n] \in Seq(Listed)
                 /\ \A n \in 1 .. Len(movies) : up[n] = Grown(up[n - 1], movies, req, n)
<1> DEFINE N == Len(movies)
           G(s, n) == Grown(s, movies, req, n)
           S == Seq(Listed)
           g == [n \in Nat |-> [s \in S |-> IF n + 1 \in 1 .. N THEN G(s, n + 1) ELSE s]]
           Unfolds(h) == h = [n \in 0 .. N |->
                                IF n = 0 THEN <<>>
                                ELSE IF Matches(movies[n], req)
                                     THEN Append(h[n - 1], Scored(movies[n], req))
                                ELSE h[n - 1]]
           up == CHOOSE h : Unfolds(h)
<1>0. N \in Nat /\ \A n \in 1 .. N : Scored(movies[n], req) \in Listed
  BY DEF Searchable
<1>1. Filter(movies, req) = up[N]
  BY DEF Filter
<1> HIDE DEF N
<1>2. \A s \in S, n \in 1 .. N : G(s, n) \in S
  BY <1>0 DEF Grown
<1>3. <<>> \in S
  OBVIOUS
<1>4. \A h : Unfolds(h) <=> h = [n \in 0 .. N |-> IF n = 0 THEN <<>> ELSE G(h[n - 1], n)]
  BY DEF Grown
<1> HIDE DEF Unfolds, S, G
<1>5. g \in Steps(S)
  BY <1>2 DEF Steps
<1>6. PICK f \in [Nat -> S] : f[0] = <<>> /\ \A n \in Nat : f[n + 1] = g[n][f[n]]
  <2> HIDE DEF g
  <2>1. \E f : Recurs(f, S, <<>>, g)
    BY <1>3, <1>5, Recursion
  <2> QED
    BY <2>1 DEF Recurs
<1>7. ASSUME NEW n \in 1 .. N PROVE f[n] = G(f[n - 1], n)
  <2>1. n - 1 \in Nat /\ (n - 1) + 1 = n
    BY <1>0
  <2>2. f[n] = g[n - 1][f[n - 1]] /\ f[n - 1] \in S
    BY <1>6, <2>1
  <2> QED
    BY <2>1, <2>2
<1> HIDE DEF g
<1> DEFINE h == [k \in 0 .. N |-> f[k]]
<1>8. Unfolds(h)
  <2>1. ASSUME NEW k \in 0 .. N
        PROVE  h[k] = IF k = 0 THEN <<>> ELSE G(h[k - 1], k)
    <3>1. k # 0 => k \in 1 .. N /\ k - 1 \in 0 .. N
      BY <1>0
    <3> QED
      BY <1>6, <1>7, <3>1
  <2>2. h = [k \in 0 .. N |-> h[k]]
    OBVIOUS
  <2> HIDE DEF h
  <2>3. h = [n \in 0 .. N |-> IF n = 0 THEN <<>> ELSE G(h[n - 1], n)]
    BY <2>1, <2>2
  <2> QED
    BY <1>4, <2>3
<1>9. Unfolds(up)
  <2> HIDE DEF h
  <2> QED
    BY <1>8
<1> HIDE DEF up, h
<1>10. up[0] = <<>> /\ \A n \in 1 .. N : up[n] = G(up[n - 1], n)
  <2>1. up = [n \in 0 .. N |-> IF n = 0 THEN <<>> ELSE G(up[n - 1], n)]
    BY <1>4, <1>9
  <2>2. 0 \in 0 .. N /\ \A n \in 1 .. N : n \in 0 .. N /\ n # 0
    BY <1>0
  <2> QED
    BY <2>1, <2>2
<1> DEFINE T == {n \in 0 .. N : up[n] \in S}
<1>11. 0 \in T
  BY <1>0, <1>3, <1>10
<1>12. ASSUME NEW n \in 0 .. N - 1, n \in T PROVE n + 1 \in T
  <2>1. n + 1 \in 1 .. N /\ n + 1 \in 0 .. N /\ (n + 1) - 1 = n
    BY <1>0
  <2> QED
    BY <1>2, <1>10, <1>12, <2>1
<1> HIDE DEF T
<1>13. \A n \in 0 .. N : n \in T
  BY <1>0, <1>11, <1>12, InductionTo
<1>14. \A n \in 0 .. N : up[n] \in S
  BY <1>13 DEF T
<1> QED
  BY <1>1, <1>10, <1>14 DEF N, S, G

\* The list has each matching movie as often as the catalogue.
LEMMA FilterIs ==
  ASSUME NEW movies, NEW req, Searchable(movies, req)
  PROVE  LET s == Filter(movies, req)
         IN /\ s \in Seq(Listed)
            /\ Len(s) = Cardinality({n \in 1 .. Len(movies) : Matches(movies[n], req)})
            /\ \A x : Count(s, x) = Cardinality({n \in 1 .. Len(movies) :
                                       Matches(movies[n], req) /\ Scored(movies[n], req) = x})
<1> DEFINE N == Len(movies)
           M(n) == {k \in 1 .. n : Matches(movies[k], req)}
           P(n, x) == {k \in 1 .. n : Matches(movies[k], req) /\ Scored(movies[k], req) = x}
<1>0. N \in Nat /\ \A n \in 1 .. N : Scored(movies[n], req) \in Listed
  BY DEF Searchable
<1>1. PICK up : /\ Filter(movies, req) = up[N]
                /\ up[0] = <<>>
                /\ \A n \in 0 .. N : up[n] \in Seq(Listed)
                /\ \A n \in 1 .. N : up[n] = Grown(up[n - 1], movies, req, n)
  BY FilterSteps
<1> DEFINE Good(n) == /\ Len(up[n]) = Cardinality(M(n))
                      /\ \A x : Count(up[n], x) = Cardinality(P(n, x))
           T == {n \in 0 .. N : Good(n)}
<1> HIDE DEF N
<1>2. 0 \in T
  <2>1. M(0) = {} /\ \A x : P(0, x) = {}
    OBVIOUS
  <2>2. Cardinality({}) = 0
    BY FS_EmptySet
  <2>3. Len(<<>>) = 0 /\ 1 .. 0 = {}
    OBVIOUS
  <2>4. \A x : {i \in 1 .. Len(<<>>) : <<>>[i] = x} = {}
    BY <2>3
  <2>5. \A x : Count(<<>>, x) = 0
    BY <2>2, <2>4 DEF Count
  <2>6. Good(0)
    BY <1>1, <2>1, <2>2, <2>3, <2>5
  <2> QED
    BY <1>0, <2>6
<1>3. ASSUME NEW n \in 0 .. N - 1, n \in T PROVE n + 1 \in T
  <2> DEFINE y == Scored(movies[n + 1], req)
             s == up[n]
             t == up[n + 1]
  <2>1. n + 1 \in 1 .. N /\ n + 1 \in 0 .. N /\ (n + 1) - 1 = n /\ n \in 0 .. N /\ n \in Nat
        /\ 1 .. n + 1 = (1 .. n) \cup {n + 1}
    BY <1>0
  <2>2. s \in Seq(Listed) /\ y \in Listed
        /\ t = IF Matches(movies[n + 1], req) THEN Append(s, y) ELSE s
    BY <1>0, <1>1, <2>1 DEF Grown
  <2>3. Len(s) = Cardinality(M(n)) /\ \A x : Count(s, x) = Cardinality(P(n, x))
    BY <1>3
  <2>4. M(n) \subseteq 1 .. n /\ \A x : P(n, x) \subseteq 1 .. n
    OBVIOUS
  <2> DEFINE m == movies[n + 1]
  <2>5. CASE Matches(m, req)
    <3>1. M(n + 1) = M(n) \cup {n + 1}
      BY <2>1, <2>5
    <3>2. /\ \A x : y = x => P(n + 1, x) = P(n, x) \cup {n + 1}
          /\ \A x : y # x => P(n + 1, x) = P(n, x)
      BY <2>1, <2>5
    <3> HIDE DEF M, P, y
    <3>3. Len(t) = Len(s) + 1 /\ t = Append(s, y)
      BY <2>2, <2>5
    <3> HIDE DEF t, s, m
    <3>4. Len(t) = Cardinality(M(n + 1))
      BY <2>1, <2>3, <2>4, <3>1, <3>3, OneMore
    <3>5. ASSUME NEW x PROVE Count(t, x) = Cardinality(P(n + 1, x))
      <4>1. CASE y = x
        <5>1. Count(t, x) = Count(s, x) + 1
          BY <2>2, <3>3, <4>1, CountAppend
        <5>2. Cardinality(P(n, x) \cup {n + 1}) = Cardinality(P(n, x)) + 1
          BY <2>1, <2>4, OneMore
        <5> QED
          BY <2>3, <3>2, <4>1, <5>1, <5>2
      <4>2. CASE y # x
        <5>1. Count(t, x) = Count(s, x)
          BY <2>2, <3>3, <4>2, CountAppend
        <5> QED
          BY <2>3, <3>2, <4>2, <5>1
      <4> QED
        BY <4>1, <4>2
    <3>6. Good(n + 1)
      BY <3>4, <3>5 DEF t
    <3> QED
      BY <2>1, <3>6
  <2>6. CASE ~Matches(m, req)
    <3>1. M(n + 1) = M(n) /\ \A x : P(n + 1, x) = P(n, x)
      BY <2>1, <2>6
    <3>2. t = s
      BY <2>2, <2>6
    <3> HIDE DEF M, P, y
    <3>3. Good(n + 1)
      BY <2>3, <3>1, <3>2
    <3> QED
      BY <2>1, <3>3
  <2> QED
    BY <2>5, <2>6
<1> HIDE DEF T
<1>4. \A n \in 0 .. N : n \in T
  BY <1>0, <1>2, <1>3, InductionTo
<1>5. N \in 0 .. N /\ Good(N)
  BY <1>0, <1>4 DEF T
<1> QED
  BY <1>1, <1>5 DEF N

\* What is like the list of a request is an answer to it.
LEMMA LikeAnswers ==
  ASSUME NEW movies, NEW req, Searchable(movies, req), NEW s \in Seq(Listed),
         Like(Filter(movies, req), s)
  PROVE  Answers(s, movies, req)
<1> DEFINE f == Filter(movies, req)
<1>1. /\ Len(f) = Cardinality({n \in 1 .. Len(movies) : Matches(movies[n], req)})
      /\ \A x : Count(f, x) = Cardinality({n \in 1 .. Len(movies) :
                                 Matches(movies[n], req) /\ Scored(movies[n], req) = x})
  BY FilterIs
<1>2. Len(f) = Len(s) /\ \A x : Count(f, x) = Count(s, x)
  BY DEF Like
<1>3. DOMAIN movies = 1 .. Len(movies) /\ DOMAIN s = 1 .. Len(s)
  BY DEF Searchable
<1> HIDE DEF f
<1> QED
  BY <1>1, <1>2, <1>3 DEF Answers, Count

-----------------------------------------------------------------------------
(* Segments and their halves.                                              *)

Segs == [st : Nat, end : Nat]
Disjoint(g, h) == g.end <= h.st \/ h.end <= g.st
Within(g, h) == h.st <= g.st /\ g.end <= h.end
InHalf(g, h) == h.end - h.st >= 2 /\ (Within(g, LeftOf(h)) \/ Within(g, RightOf(h)))

LEMMA Halves ==
  ASSUME NEW g \in Segs, g.end - g.st >= 2
  PROVE  /\ LeftOf(g) \in Segs /\ LeftOf(g).st = g.st /\ LeftOf(g).end = Middle(g)
         /\ RightOf(g) \in Segs /\ RightOf(g).st = Middle(g) /\ RightOf(g).end = g.end
         /\ Middle(g) \in Nat /\ g.st < Middle(g) /\ Middle(g) < g.end
<1>1. PICK a \in Nat, b \in Nat : a = g.st /\ b = g.end /\ b - a >= 2
  BY DEF Segs
<1>2. (a + b) \div 2 \in Nat /\ a < (a + b) \div 2 /\ (a + b) \div 2 < b
  BY <1>1
<1>3. g = [st |-> a, end |-> b]
  BY <1>1 DEF Segs
<1>4. Middle(g) \in Nat /\ a < Middle(g) /\ Middle(g) < b
  BY <1>1, <1>2 DEF Middle
<1>5. /\ LeftOf(g) = [st |-> a, end |-> Middle(g)]
      /\ RightOf(g) = [st |-> Middle(g), end |-> b]
  BY <1>3 DEF LeftOf, RightOf
<1> QED
  BY <1>1, <1>4, <1>5 DEF Segs

LEMMA Nesting ==
  ASSUME NEW f \in Segs, NEW g \in Segs, NEW h \in Segs
  PROVE  /\ InHalf(g, h) => Within(g, h)
         /\ Within(f, g) /\ Disjoint(g, h) => Disjoint(f, h)
         /\ Within(f, g) /\ InHalf(g, h) => InHalf(f, h)
         /\ f.st < f.end /\ Within(f, g) => ~Disjoint(f, g)
         /\ f.st < f.end /\ Within(f, g) => ~InHalf(g, f)
         /\ Disjoint(f, g) <=> Disjoint(g, f)
         /\ g.end - g.st >= 2 =>
              /\ InHalf(LeftOf(g), g) /\ InHalf(RightOf(g), g)
              /\ Disjoint(LeftOf(g), RightOf(g))
<1>1. \A e \in Segs : e.st \in Nat /\ e.end \in Nat
  BY DEF Segs
<1>2. ASSUME NEW e \in Segs, e.end - e.st >= 2
      PROVE  /\ LeftOf(e).st = e.st /\ RightOf(e).end = e.end
             /\ LeftOf(e).end = Middle(e) /\ RightOf(e).st = Middle(e)
             /\ Middle(e) \in Nat /\ e.st < Middle(e) /\ Middle(e) < e.end
  BY <1>2, Halves
<1>3. InHalf(g, h) => Within(g, h)
  BY <1>1, <1>2 DEF InHalf, Within
<1>4. Within(f, g) /\ Disjoint(g, h) => Disjoint(f, h)
  BY <1>1 DEF Within, Disjoint
<1>5. Within(f, g) /\ InHalf(g, h) => InHalf(f, h)
  BY <1>1, <1>2 DEF Within, InHalf
<1>6. f.st < f.end /\ Within(f, g) => ~Disjoint(f, g)
  BY <1>1 DEF Within, Disjoint
<1>7. f.st < f.end /\ Within(f, g) => ~InHalf(g, f)
  BY <1>1, <1>2 DEF Within, InHalf
<1>8. Disjoint(f, g) <=> Disjoint(g, f)
  BY DEF Disjoint
<1>9. g.end - g.st >= 2 =>
        /\ InHalf(LeftOf(g), g) /\ InHalf(RightOf(g), g)
        /\ Disjoint(LeftOf(g), RightOf(g))
  BY <1>1, <1>2 DEF InHalf, Within, Disjoint
<1> QED
  BY <1>3, <1>4, <1>5, <1>6, <1>7, <1>8, <1>9

LEMMA Parts ==
  ASSUME NEW s \in Seq(Listed), NEW g \in Segs, g.st <= g.end, g.end <= Len(s)
  PROVE  Part(s, g) \in Seq(Listed) /\ Len(Part(s, g)) = g.end - g.st
<1>1. PICK a \in Nat, b \in Nat : a = g.st /\ b = g.end /\ a <= b /\ b <= Len(s)
  BY DEF Segs
<1>2. SubSeq(s, a + 1, b) \in Seq(Listed) /\ Len(SubSeq(s, a + 1, b)) = b - a
  BY <1>1, Segment
<1> QED
  BY <1>1, <1>2 DEF Part

LEMMA Whole ==
  ASSUME NEW s \in Seq(Listed)
  PROVE  Part(s, [st |-> 0, end |-> Len(s)]) = s
<1> DEFINE g == [st |-> 0, end |-> Len(s)]
<1>1. Part(s, g) = SubSeq(s, 1, Len(s))
  BY DEF Part
<1>2. SubSeq(s, 1, Len(s)) = s
  OBVIOUS
<1> QED
  BY <1>1, <1>2

\* The movies of a segment are written back in order.
LEMMA Writing ==
  ASSUME NEW s \in Seq(Listed), NEW g \in Segs, g.st <= g.end, g.end <= Len(s),
         NEW w \in Seq(Listed), Len(w) = g.end - g.st, Ordered(w)
  PROVE  LET o == Overlay(s, g.st, w)
         IN /\ o \in Seq(Listed) /\ Len(o) = Len(s) /\ Part(o, g) = w
            /\ Like(Part(s, g), w) => Like(s, o)
            /\ \A h \in Segs : h.st <= h.end /\ h.end <= Len(s) /\ Disjoint(h, g)
                 => Part(o, h) = Part(s, h)
            /\ \A h \in Segs : h.st <= h.end /\ Within(h, g) => Ordered(Part(o, h))
<1> DEFINE o == Overlay(s, g.st, w)
<1>1. PICK a \in Nat, b \in Nat : a = g.st /\ b = g.end /\ a <= b /\ b <= Len(s)
  BY DEF Segs
<1>2. Part(s, g) = SubSeq(s, a + 1, b) /\ Part(o, g) = SubSeq(o, a + 1, b)
  BY <1>1 DEF Part
<1>3. Len(w) = b - a /\ a + Len(w) = b /\ a + Len(w) <= Len(s)
  BY <1>1
<1>4. o = Overlay(s, a, w)
  BY <1>1
<1> HIDE DEF o
<1>5. /\ o \in Seq(Listed) /\ Len(o) = Len(s) /\ SubSeq(o, a + 1, b) = w
      /\ \A i \in 1 .. Len(s) : o[i] = IF i \in a + 1 .. b THEN w[i - a] ELSE s[i]
  <2>1. a + Len(w) <= Len(s)
    BY <1>3
  <2>2. /\ Overlay(s, a, w) \in Seq(Listed) /\ Len(Overlay(s, a, w)) = Len(s)
        /\ SubSeq(Overlay(s, a, w), a + 1, a + Len(w)) = w
        /\ \A i \in 1 .. Len(s) : Overlay(s, a, w)[i]
              = IF i \in a + 1 .. a + Len(w) THEN w[i - a] ELSE s[i]
    BY <2>1, OverlayIs
  <2>3. a + Len(w) = b
    BY <1>3
  <2> QED
    BY <1>4, <2>2, <2>3
<1>6. ASSUME Like(Part(s, g), w) PROVE Like(s, o)
  <2>1. PICK n \in Nat : n = Len(s) /\ b <= n
    BY <1>1
  <2>2. Like(SubSeq(s, a + 1, a + Len(w)), w)
    BY <1>2, <1>3, <1>6
  <2>3. 0 <= a /\ a + Len(w) <= n
    BY <1>1, <1>3, <2>1
  <2>4. Like(SubSeq(s, 0 + 1, n), SubSeq(o, 0 + 1, n))
    <3>1. 0 \in Nat /\ n <= Len(s)
      BY <2>1
    <3> QED
      BY <1>3, <1>4, <2>2, <2>3, <3>1, OverlayLike
  <2>5. SubSeq(s, 0 + 1, n) = s /\ SubSeq(o, 0 + 1, n) = o
    BY <1>5, <2>1
  <2> QED
    BY <2>4, <2>5
<1>7. ASSUME NEW h \in Segs, h.st <= h.end, h.end <= Len(s), Disjoint(h, g)
      PROVE  Part(o, h) = Part(s, h)
  <2>1. PICK c \in Nat, d \in Nat : c = h.st /\ d = h.end /\ c <= d /\ d <= Len(s)
    BY <1>7 DEF Segs
  <2>2. d <= a \/ b <= c
    BY <1>1, <1>7, <2>1 DEF Disjoint
  <2>3. \A i \in c + 1 .. d : i \in 1 .. Len(s) /\ i \notin a + 1 .. b
    BY <1>1, <2>1, <2>2
  <2>4. \A i \in c + 1 .. d : o[i] = s[i]
    BY <1>5, <2>3
  <2>5. c <= d /\ d <= Len(s) /\ o \in Seq(Listed) /\ Len(o) = Len(s)
    BY <1>5, <2>1
  <2>6. SubSeq(o, c + 1, d) = SubSeq(s, c + 1, d)
    BY <2>4, <2>5, SameSegment
  <2> QED
    BY <2>1, <2>6 DEF Part
<1>8. ASSUME NEW h \in Segs, h.st <= h.end, Within(h, g)
      PROVE  Ordered(Part(o, h))
  <2>1. PICK c \in Nat, d \in Nat : c = h.st /\ d = h.end /\ c <= d
    BY <1>8 DEF Segs
  <2>2. a <= c /\ d <= b
    BY <1>1, <1>8, <2>1 DEF Within
  <2>3. Ordered(SubSeq(o, c + 1, d))
    BY <1>1, <1>5, <2>1, <2>2, OrderedSegment
  <2> QED
    BY <2>1, <2>3 DEF Part
<1> QED
  BY <1>2, <1>5, <1>6, <1>7, <1>8 DEF o
=============================================================================
