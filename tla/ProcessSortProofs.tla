------------------------- MODULE ProcessSortProofs -------------------------
(***************************************************************************)
(* The processes of pserver leave the mapping, and the file, as they have  *)
(* to be, for any catalogue, request and limits of the splitting.          *)
(***************************************************************************)
EXTENDS ProcessSort, SortingProofs

Stages == {"none", "new", "wait", "merge", "sorted", "writing", "exited", "reaped"}

-----------------------------------------------------------------------------
(* Processes and their numbers.                                            *)

Left(n) == 2 * n
Right(n) == 2 * n + 1

LEMMA Numbers ==
  /\ 1 \in Nums
  /\ \A n \in Nums : n < LastSplit =>
       /\ Left(n) \in Nums /\ Right(n) \in Nums /\ Kids(n) = {Left(n), Right(n)}
       /\ Left(n) # n /\ Right(n) # n /\ Left(n) # Right(n) /\ Left(n) # 1 /\ Right(n) # 1
  /\ \A m, n \in Nums : m # n =>
       /\ Left(m) # Left(n) /\ Left(m) # Right(n) /\ Right(m) # Right(n)
<1>0. LastSplit \in Nat \ {0}
  BY ProcessSortAssumption
<1>1. 1 \in Nums
  BY <1>0 DEF Nums
<1>2. \A n \in Nums : n < LastSplit =>
        /\ 2 * n \in Nums /\ 2 * n + 1 \in Nums /\ 2 * n # n /\ 2 * n + 1 # n
        /\ 2 * n # 2 * n + 1 /\ 2 * n # 1 /\ 2 * n + 1 # 1
  BY <1>0 DEF Nums
<1>3. \A m, n \in Nums : m # n => 2 * m # 2 * n /\ 2 * m # 2 * n + 1 /\ 2 * m + 1 # 2 * n + 1
  BY <1>0 DEF Nums
<1> QED
  BY <1>1, <1>2, <1>3 DEF Left, Right, Kids

-----------------------------------------------------------------------------
(* The inductive invariant.                                                *)

Has(n) == pc[n] # "none"

Types ==
  /\ movies \in Catalogues /\ req \in Requests
  /\ Movies = Filter(movies, req) /\ Movies \in Seq(Listed)
  /\ Mmap \in Seq(Listed) /\ Len(Mmap) = Len(Movies)
  /\ pc \in [Nums -> Stages] /\ seg \in [Nums -> Segs]
  /\ crashed \in BOOLEAN

\* The segment of n holds its part of the list.
Kept(n) == Like(Part(Movies, seg[n]), Part(Mmap, seg[n]))

\* A process's segment is one of the list, and only a list without a movie has
\* an empty one.
Fits(n) == Has(n) =>
  /\ seg[n].end <= Len(Movies)
  /\ seg[n].st < seg[n].end \/ (n = 1 /\ Movies = <<>> /\ seg[n].st = seg[n].end)

\* A process that has forked has two children, which have the halves; what a
\* reaped one has left in the mapping is still there.
Family(n) ==
  /\ pc[n] \in {"wait", "merge"} =>
       /\ n < LastSplit /\ seg[n].end - seg[n].st >= 2
       /\ Has(Left(n)) /\ seg[Left(n)] = LeftOf(seg[n])
       /\ Has(Right(n)) /\ seg[Right(n)] = RightOf(seg[n])
       /\ pc[n] = "merge" => pc[Left(n)] = "reaped" /\ pc[Right(n)] = "reaped"
       /\ pc[Left(n)] = "reaped" => Kept(Left(n))
       /\ pc[Right(n)] = "reaped" => Kept(Right(n))
  /\ pc[n] \in {"none", "new"} /\ n < LastSplit => ~Has(Left(n)) /\ ~Has(Right(n))

\* m works for n, which waits until it has been reaped.
Under(m, n) ==
  /\ InHalf(seg[m], seg[n]) /\ pc[n] # "new"
  /\ pc[n] # "wait" => pc[m] = "reaped"

Related(m, n) == Disjoint(seg[m], seg[n]) \/ Under(m, n) \/ Under(n, m)

Kin == \A m, n \in Nums : m # n /\ Has(m) /\ Has(n) => Related(m, n)

\* What is sorted stays in order.
Sorted(n) ==
  /\ pc[n] \in {"sorted", "writing", "exited", "reaped"} => Ordered(Part(Mmap, seg[n]))
  /\ pc[n] \in {"sorted", "writing", "exited"} => Kept(n)

\* The first process has the whole list and is not reaped; it writes alone.
Root ==
  /\ Has(1) /\ pc[1] # "reaped" /\ seg[1] = [st |-> 0, end |-> Len(Movies)]
  /\ pc[1] = "writing" => out = <<>>
  /\ pc[1] = "exited" => out = Mmap
  /\ out \in {<<>>, Garbled} \/ Len(out) = Len(Movies)

IInv == Types /\ (\A n \in Nums : Fits(n) /\ Family(n) /\ Sorted(n)) /\ Kin /\ Root

-----------------------------------------------------------------------------
(* The invariant holds at first, and after each step.                      *)

LEMMA InitIInv == Init => IInv
<1> SUFFICES ASSUME Init PROVE IInv
  OBVIOUS
<1> DEFINE f == Filter(movies, req)
<1>0. 1 \in Nums /\ Searchable(movies, req) /\ Movies = f
  BY Numbers, ProcessSortAssumption DEF Init
<1>1. f \in Seq(Listed)
  BY <1>0, FilterIs
<1> HIDE DEF f
<1>2. Mmap \in Seq(Listed) /\ Len(Mmap) = Len(Movies) /\ Len(Movies) \in Nat
  <2>1. Blank \in Listed
    BY DEF Blank, Listed
  <2> QED
    BY <1>0, <1>1, <2>1 DEF Init
<1>3. /\ pc = [n \in Nums |-> IF n = 1 THEN "new" ELSE "none"]
      /\ seg = [n \in Nums |-> [st |-> 0, end |-> IF n = 1 THEN Len(Movies) ELSE 0]]
      /\ movies \in Catalogues /\ req \in Requests /\ out = <<>> /\ crashed = FALSE
  BY DEF Init
<1>4. Types
  <2>1. [st |-> 0, end |-> 0] \in Segs /\ [st |-> 0, end |-> Len(Movies)] \in Segs
    BY <1>2 DEF Segs
  <2>2. pc \in [Nums -> Stages]
    BY <1>3 DEF Stages
  <2>3. seg \in [Nums -> Segs]
    BY <1>3, <2>1
  <2> QED
    BY <1>0, <1>1, <1>2, <1>3, <2>2, <2>3 DEF Types, f
<1>5. /\ pc[1] = "new" /\ seg[1] = [st |-> 0, end |-> Len(Movies)]
      /\ \A n \in Nums : n # 1 => pc[n] = "none"
  BY <1>0, <1>3
<1>6. ASSUME NEW n \in Nums PROVE Fits(n)
  <2>1. Movies \in Seq(Listed)
    BY <1>0, <1>1
  <2>2. Len(Movies) <= Len(Movies) /\ (0 < Len(Movies) \/ (Movies = <<>> /\ 0 = Len(Movies)))
    BY <2>1
  <2> QED
    BY <1>5, <2>2 DEF Fits, Has
<1>7. ASSUME NEW n \in Nums PROVE Family(n)
  <2>1. n < LastSplit => Left(n) \in Nums /\ Right(n) \in Nums /\ Left(n) # 1 /\ Right(n) # 1
    BY Numbers
  <2> QED
    BY <1>5, <2>1 DEF Family, Has
<1>8. \A n \in Nums : Sorted(n)
  BY <1>5 DEF Sorted
<1>9. Kin
  BY <1>5 DEF Kin, Has
<1>10. Root
  BY <1>3, <1>5 DEF Root, Has
<1> QED
  BY <1>4, <1>6, <1>7, <1>8, <1>9, <1>10 DEF IInv

LEMMA Typed ==
  ASSUME Types, NEW n \in Nums
  PROVE  /\ seg[n] \in Segs /\ seg[n].st \in Nat /\ seg[n].end \in Nat /\ pc[n] \in Stages
         /\ Movies \in Seq(Listed) /\ Mmap \in Seq(Listed) /\ Len(Mmap) = Len(Movies)
  BY DEF Types, Segs

\* A process that has not exited and been reaped has a movie, or is the first.
LEMMA Filled ==
  ASSUME IInv, NEW n \in Nums, NEW m \in Nums, Has(n), Has(m),
         seg[m].end - seg[m].st >= 2 \/ n # 1
  PROVE  seg[n].st < seg[n].end
<1>1. /\ Fits(n) /\ Fits(m) /\ seg[m].st \in Nat /\ seg[m].end \in Nat
      /\ seg[n].st \in Nat /\ seg[n].end \in Nat
  BY Typed DEF IInv
<1>2. CASE n # 1
  BY <1>1, <1>2 DEF Fits
<1>3. CASE seg[m].end - seg[m].st >= 2
  <2>1. Movies # <<>>
    <3>1. Len(<<>>) = 0 /\ seg[m].end <= Len(Movies)
      BY <1>1 DEF Fits
    <3> QED
      BY <1>1, <1>3, <3>1
  <2> QED
    BY <1>1, <2>1 DEF Fits
<1> QED
  BY <1>2, <1>3

\* Whatever lies within the half of a process's child has been reaped before it.
LEMMA Below ==
  ASSUME IInv, NEW n \in Nums, NEW k \in Nums, NEW u \in Nums, Has(n), Has(u), Has(k),
         seg[n].end - seg[n].st >= 2,
         Within(seg[u], seg[k]), u # k
  PROVE  Under(u, k)
<1>1. Related(u, k) /\ seg[u] \in Segs /\ seg[k] \in Segs
  BY Typed DEF IInv, Kin
<1>2. seg[u].st < seg[u].end
  BY Filled
<1>3. ~Disjoint(seg[u], seg[k]) /\ ~InHalf(seg[k], seg[u])
  BY <1>1, <1>2, Nesting
<1> QED
  BY <1>1, <1>3 DEF Related, Under

\* The first process goes on only when all others have been reaped.
LEMMA RootLast ==
  ASSUME IInv, NEW n \in Nums, n # 1, Has(n), pc[n] # "reaped"
  PROVE  pc[1] = "wait"
<1>1. /\ Types /\ 1 \in Nums /\ Root /\ Has(1) /\ Fits(n)
      /\ seg[1] = [st |-> 0, end |-> Len(Movies)]
  BY Numbers DEF IInv, Root
<1>2. /\ seg[n] \in Segs /\ seg[1] \in Segs /\ seg[n].st \in Nat /\ seg[n].end \in Nat
      /\ Len(Movies) \in Nat /\ seg[1].st = 0 /\ seg[1].end = Len(Movies)
  BY <1>1, Typed
<1>3. seg[n].st < seg[n].end /\ seg[n].end <= Len(Movies)
  BY <1>1, Filled DEF Fits
<1>4. Within(seg[n], seg[1])
  BY <1>2, <1>3 DEF Within
<1>5. ~Disjoint(seg[n], seg[1]) /\ ~InHalf(seg[1], seg[n])
  BY <1>2, <1>3, <1>4, Nesting
<1>6. Related(n, 1)
  BY <1>1 DEF IInv, Kin
<1>7. Under(n, 1)
  BY <1>5, <1>6 DEF Related, Under
<1> QED
  BY <1>7 DEF Under

\* Who may work while n writes to its segment of the mapping.
LEMMA Others ==
  ASSUME IInv, NEW n \in Nums, NEW u \in Nums, u # n, Has(u), pc[n] \in {"new", "merge"}
  PROVE  \/ Disjoint(seg[u], seg[n])
         \/ pc[n] = "merge" /\ pc[u] = "reaped" /\ InHalf(seg[u], seg[n])
         \/ InHalf(seg[n], seg[u]) /\ pc[u] = "wait"
<1>1. Related(u, n)
  BY DEF IInv, Kin, Has
<1> QED
  BY <1>1 DEF Related, Under

\* What a reaped child has left for its parent is apart from what n writes.
LEMMA KidsApart ==
  ASSUME IInv, NEW n \in Nums, pc[n] \in {"new", "merge"},
         NEW m \in Nums, m # n, pc[m] \in {"wait", "merge"},
         NEW k \in {Left(m), Right(m)}, pc[k] = "reaped"
  PROVE  Disjoint(seg[k], seg[n])
<1>1. /\ m < LastSplit /\ seg[m].end - seg[m].st >= 2
      /\ Left(m) \in Nums /\ seg[Left(m)] = LeftOf(seg[m])
      /\ Right(m) \in Nums /\ seg[Right(m)] = RightOf(seg[m])
  BY Numbers DEF IInv, Family
<1>2. /\ k \in Nums /\ seg[k] \in Segs /\ seg[m] \in Segs /\ seg[n] \in Segs
      /\ Has(n) /\ Has(m) /\ Has(k) /\ k # n
  BY <1>1, Typed DEF IInv, Has
<1>3. /\ InHalf(seg[k], seg[m]) /\ Within(seg[k], seg[m])
      /\ Disjoint(LeftOf(seg[m]), RightOf(seg[m])) /\ Disjoint(RightOf(seg[m]), LeftOf(seg[m]))
  BY <1>1, <1>2, Nesting DEF Disjoint
<1>4. \/ Disjoint(seg[k], seg[n])
      \/ InHalf(seg[k], seg[n])
  BY <1>2, Others
<1>5. CASE InHalf(seg[k], seg[n])
  <2>1. Disjoint(seg[m], seg[n]) \/ InHalf(seg[n], seg[m])
    BY <1>2, Others
  <2>2. CASE Disjoint(seg[m], seg[n])
    BY <1>2, <1>3, <2>2, Nesting
  <2>3. CASE InHalf(seg[n], seg[m])
    <3>1. PICK j \in {Left(m), Right(m)} : Within(seg[n], seg[j])
      BY <1>1, <2>3 DEF InHalf
    <3>2. seg[n].st < seg[n].end /\ seg[j] \in Segs
      BY <1>1, <1>2, Filled, Typed DEF IInv
    <3>3. CASE j = k
      BY <1>2, <1>5, <3>1, <3>2, <3>3, Nesting
    <3>4. CASE j # k
      <4>1. Disjoint(seg[j], seg[k])
        BY <1>1, <1>3, <3>4
      <4>2. Disjoint(seg[n], seg[k])
        BY <1>2, <3>1, <3>2, <4>1, Nesting
      <4> QED
        BY <4>2 DEF Disjoint
    <3> QED
      BY <3>3, <3>4
  <2> QED
    BY <2>1, <2>2, <2>3
<1> QED
  BY <1>4, <1>5

\* The sorted or the merged segment is written.
LEMMA Written ==
  ASSUME IInv, NEW n \in Nums, pc[n] \in {"new", "merge"},
         NEW w \in Seq(Listed), Like(Part(Movies, seg[n]), w), Ordered(w),
         Mmap' = Overlay(Mmap, seg[n].st, w), pc' = [pc EXCEPT ![n] = "sorted"],
         UNCHANGED <<input, seg, out, crashed>>
  PROVE  IInv'
<1> DEFINE s == Mmap
           o == Overlay(s, seg[n].st, w)
<1>0. Types /\ Root /\ Kin /\ \A u \in Nums : Fits(u) /\ Family(u) /\ Sorted(u)
  BY DEF IInv
<1>1. /\ s \in Seq(Listed) /\ Movies \in Seq(Listed) /\ Len(s) = Len(Movies)
      /\ seg[n] \in Segs /\ Has(n)
  BY <1>0, Typed DEF Has
<1>2. seg[n].st <= seg[n].end /\ seg[n].end <= Len(s)
  <2>1. seg[n].st \in Nat /\ seg[n].end \in Nat
    BY <1>0, Typed
  <2> QED
    BY <1>0, <1>1, <2>1 DEF Fits
<1>3. /\ o \in Seq(Listed) /\ Len(o) = Len(s) /\ Part(o, seg[n]) = w
      /\ \A h \in Segs : h.st <= h.end /\ h.end <= Len(s) /\ Disjoint(h, seg[n])
           => Part(o, h) = Part(s, h)
      /\ \A h \in Segs : h.st <= h.end /\ Within(h, seg[n]) => Ordered(Part(o, h))
  <2>1. Len(w) = seg[n].end - seg[n].st
    BY <1>1, <1>2, Parts DEF Like
  <2> QED
    BY <1>1, <1>2, <2>1, Writing
<1>4. Mmap' = o
  OBVIOUS
<1> HIDE DEF o
<1>5. pc'[n] = "sorted" /\ \A u \in Nums : u # n => pc'[u] = pc[u]
  BY <1>0 DEF Types
<1>6. /\ movies' = movies /\ req' = req /\ Movies' = Movies /\ seg' = seg /\ out' = out
      /\ crashed' = crashed
  BY DEF input
<1>7. Types'
  <2>1. "sorted" \in Stages
    BY DEF Stages
  <2> QED
    BY <1>0, <1>1, <1>3, <1>4, <1>6, <2>1 DEF Types
<1>8. ASSUME NEW u \in Nums PROVE Fits(u)' /\ (Has(u)' <=> Has(u))
  BY <1>0, <1>1, <1>5, <1>6 DEF Fits, Has
<1>9. ASSUME NEW u \in Nums, Has(u)
      PROVE  seg[u] \in Segs /\ seg[u].st <= seg[u].end /\ seg[u].end <= Len(s)
  <2>1. seg[u] \in Segs /\ seg[u].st \in Nat /\ seg[u].end \in Nat
    BY <1>0, Typed
  <2> QED
    BY <1>0, <1>1, <1>9, <2>1 DEF Fits
<1>10. ASSUME NEW u \in Nums PROVE Family(u)'
  <2>1. CASE u = n
    BY <1>5, <2>1 DEF Family
  <2>2. CASE u # n /\ pc[u] \in {"wait", "merge"}
    <3>1. /\ u < LastSplit /\ Family(u) /\ pc'[u] = pc[u]
          /\ Left(u) \in Nums /\ Right(u) \in Nums
      BY <1>0, <1>5, <2>2, Numbers DEF Family
    <3>2. ASSUME NEW k \in {Left(u), Right(u)}, pc'[k] = "reaped"
          PROVE  Kept(k)'
      <4>1. k \in Nums /\ pc[k] = "reaped" /\ Has(k)
        BY <1>5, <3>1, <3>2 DEF Has
      <4>2. Disjoint(seg[k], seg[n])
        BY <2>2, <4>1, KidsApart
      <4>3. Part(o, seg[k]) = Part(s, seg[k])
        BY <1>3, <1>9, <4>1, <4>2
      <4>4. Kept(k)
        BY <2>2, <3>1, <4>1 DEF Family
      <4> QED
        BY <1>4, <1>6, <4>3, <4>4 DEF Kept
    <3>3. pc[n] # "reaped" /\ pc'[u] \in {"wait", "merge"} /\ pc'[u] \notin {"none", "new"}
      BY <2>2, <3>1
    <3>4. \A k \in Nums : pc[k] = "reaped" => pc'[k] = "reaped"
      BY <1>5
    <3> QED
      BY <1>6, <1>8, <2>2, <3>1, <3>2, <3>3, <3>4 DEF Family
  <2>3. CASE u # n /\ pc[u] \notin {"wait", "merge"}
    <3>1. u < LastSplit => Left(u) \in Nums /\ Right(u) \in Nums
      BY Numbers
    <3> QED
      BY <1>0, <1>5, <1>8, <2>3, <3>1 DEF Family
  <2> QED
    BY <2>1, <2>2, <2>3
<1>11. ASSUME NEW u \in Nums PROVE Sorted(u)'
  <2>1. CASE u = n
    BY <1>3, <1>4, <1>5, <1>6, <2>1 DEF Sorted, Kept
  <2>2. CASE u # n /\ pc[u] \in {"sorted", "writing", "exited", "reaped"}
    <3>1. Has(u) /\ Sorted(u) /\ pc'[u] = pc[u]
      BY <1>0, <1>5, <2>2 DEF Has
    <3>2. seg[u] \in Segs /\ seg[u].st <= seg[u].end /\ seg[u].end <= Len(s)
      BY <1>9, <3>1
    <3>3. \/ Disjoint(seg[u], seg[n])
          \/ pc[u] = "reaped" /\ InHalf(seg[u], seg[n])
      BY <2>2, <3>1, Others
    <3>4. CASE Disjoint(seg[u], seg[n])
      <4>1. Part(o, seg[u]) = Part(s, seg[u])
        BY <1>3, <3>2, <3>4
      <4> QED
        BY <1>4, <1>6, <3>1, <4>1 DEF Sorted, Kept
    <3>5. CASE pc[u] = "reaped" /\ InHalf(seg[u], seg[n])
      <4>1. Within(seg[u], seg[n])
        BY <1>1, <3>2, <3>5, Nesting
      <4>2. Ordered(Part(o, seg[u]))
        BY <1>3, <3>2, <4>1
      <4> QED
        BY <1>4, <1>6, <3>1, <3>5, <4>2 DEF Sorted
    <3> QED
      BY <3>3, <3>4, <3>5
  <2>3. CASE u # n /\ pc[u] \notin {"sorted", "writing", "exited", "reaped"}
    BY <1>5, <2>3 DEF Sorted
  <2> QED
    BY <2>1, <2>2, <2>3
<1>12. Kin'
  <2> SUFFICES ASSUME NEW u \in Nums, NEW v \in Nums, u # v, Has(u)', Has(v)'
               PROVE  Related(u, v)'
    BY DEF Kin
  <2>1. Has(u) /\ Has(v) /\ Related(u, v)
    BY <1>0, <1>8 DEF Kin
  <2>2. CASE u # n /\ v # n
    BY <1>5, <1>6, <2>1, <2>2 DEF Related, Under
  <2>3. ASSUME NEW x \in Nums, x # n, Has(x)
        PROVE  Related(x, n)' /\ Related(n, x)'
    <3>1. \/ Disjoint(seg[x], seg[n])
          \/ pc[x] = "reaped" /\ InHalf(seg[x], seg[n])
          \/ InHalf(seg[n], seg[x]) /\ pc[x] = "wait"
      BY <2>3, Others
    <3>2. Disjoint(seg[x], seg[n]) => Disjoint(seg[n], seg[x])
      BY DEF Disjoint
    <3> QED
      BY <1>5, <1>6, <2>3, <3>1, <3>2 DEF Related, Under
  <2>4. CASE u = n
    BY <2>1, <2>3, <2>4
  <2>5. CASE v = n
    BY <2>1, <2>3, <2>5
  <2> QED
    BY <2>2, <2>4, <2>5
<1>13. Root'
  <2>1. pc'[1] # "exited"
    <3>1. CASE n = 1
      BY <1>5, <3>1
    <3>2. CASE n # 1
      <4>1. pc[1] = "wait"
        BY <1>1, <3>2, RootLast
      <4> QED
        BY <1>5, <3>2, <4>1, Numbers
    <3> QED
      BY <3>1, <3>2
  <2>2. 1 \in Nums /\ pc'[1] # "reaped" /\ (pc'[1] = "writing" => pc[1] = "writing")
    BY <1>0, <1>5, Numbers DEF Root
  <2> QED
    BY <1>0, <1>6, <1>8, <2>1, <2>2 DEF Root
<1> QED
  BY <1>7, <1>8, <1>10, <1>11, <1>12, <1>13 DEF IInv

\* A step of n that leaves the mapping as it is.
LEMMA Moved ==
  ASSUME IInv, NEW n \in Nums, pc[n] \in {"new", "sorted", "writing"},
         NEW b \in {"sorted", "writing", "exited"}, pc' = [pc EXCEPT ![n] = b],
         UNCHANGED <<input, Mmap, seg, crashed>>, Sorted(n)', Root'
  PROVE  IInv'
<1>0. Types /\ Kin /\ \A u \in Nums : Fits(u) /\ Family(u) /\ Sorted(u)
  BY DEF IInv
<1>1. pc'[n] = b /\ \A u \in Nums : u # n => pc'[u] = pc[u]
  BY <1>0 DEF Types
<1>2. /\ movies' = movies /\ req' = req /\ Movies' = Movies /\ seg' = seg /\ Mmap' = Mmap
      /\ crashed' = crashed
  BY DEF input
<1>3. \A u \in Nums : (Has(u)' <=> Has(u)) /\ (pc'[u] = "reaped" <=> pc[u] = "reaped")
  BY <1>1 DEF Has
<1>4. Types'
  <2>1. b \in Stages
    BY DEF Stages
  <2> QED
    BY <1>0, <1>2, <2>1 DEF Types
<1>5. \A u \in Nums : Fits(u)'
  BY <1>0, <1>2, <1>3 DEF Fits
<1>6. ASSUME NEW u \in Nums PROVE Family(u)'
  <2>1. u < LastSplit => Left(u) \in Nums /\ Right(u) \in Nums
    BY Numbers
  <2>2. CASE u = n
    BY <1>1, <2>2 DEF Family
  <2>3. CASE u # n
    <3>1. pc'[u] = pc[u] /\ Family(u) /\ \A k \in Nums : Kept(k)' <=> Kept(k)
      BY <1>0, <1>1, <1>2, <2>3 DEF Kept
    <3> QED
      BY <1>2, <1>3, <2>1, <3>1 DEF Family
  <2> QED
    BY <2>2, <2>3
<1>7. ASSUME NEW u \in Nums PROVE Sorted(u)'
  <2>1. CASE u = n
    BY <2>1
  <2>2. CASE u # n
    BY <1>0, <1>1, <1>2, <2>2 DEF Sorted, Kept
  <2> QED
    BY <2>1, <2>2
<1>8. Kin'
  <2> SUFFICES ASSUME NEW u \in Nums, NEW v \in Nums, u # v, Has(u)', Has(v)'
               PROVE  Related(u, v)'
    BY DEF Kin
  <2>1. Related(u, v)
    BY <1>0, <1>3 DEF Kin
  <2>2. ASSUME NEW x \in Nums, NEW y \in Nums, x # y, Under(x, y) PROVE Under(x, y)'
    <3>1. CASE y = n
      <4>1. InHalf(seg[x], seg[y]) /\ pc[y] # "new" /\ pc[x] = "reaped"
        BY <2>2, <3>1 DEF Under
      <4> QED
        BY <1>1, <1>2, <1>3, <2>2, <3>1, <4>1 DEF Under
    <3>2. CASE y # n
      BY <1>1, <1>2, <1>3, <2>2, <3>2 DEF Under
    <3> QED
      BY <3>1, <3>2
  <2> QED
    BY <1>2, <2>1, <2>2 DEF Related
<1> QED
  BY <1>4, <1>5, <1>6, <1>7, <1>8 DEF IInv

LEMMA SortNothingStep == \A n \in Nums : IInv /\ SortNothing(n) => IInv'
<1> SUFFICES ASSUME NEW n \in Nums, IInv, SortNothing(n) PROVE IInv'
  OBVIOUS
<1>0. Types /\ Root /\ Fits(n) /\ Has(n) /\ pc[n] = "new" /\ Movies = <<>>
  BY DEF IInv, SortNothing, Has
<1>1. CASE crashed' = TRUE /\ UNCHANGED pc
  <2>1. /\ movies' = movies /\ req' = req /\ Movies' = Movies /\ Mmap' = Mmap /\ pc' = pc
        /\ seg' = seg /\ out' = out /\ crashed' \in BOOLEAN
    BY <1>1 DEF SortNothing, input
  <2>2. Types'
    BY <1>0, <2>1 DEF Types
  <2>3. \A u \in Nums : Fits(u)' /\ Family(u)' /\ Sorted(u)'
    BY <2>1 DEF IInv, Fits, Family, Sorted, Has, Kept
  <2>4. Kin' /\ Root'
    BY <2>1 DEF IInv, Kin, Has, Related, Under, Root
  <2> QED
    BY <2>2, <2>3, <2>4 DEF IInv
<1>2. CASE pc' = [pc EXCEPT ![n] = "sorted"] /\ UNCHANGED crashed
  <2>1. /\ Movies' = Movies /\ Mmap' = Mmap /\ seg' = seg /\ out' = out
        /\ UNCHANGED <<input, Mmap, seg, crashed>>
    BY <1>2 DEF SortNothing, input
  <2>2. /\ Movies \in Seq(Listed) /\ Mmap \in Seq(Listed) /\ Len(Mmap) = Len(Movies)
        /\ seg[n] \in Segs /\ seg[n].st \in Nat /\ seg[n].end \in Nat /\ Len(Movies) = 0
    BY <1>0, Typed
  <2>3. /\ seg[n].st <= seg[n].end /\ seg[n].end <= Len(Movies) /\ n = 1
        /\ seg[n].end - seg[n].st = 0
    BY <1>0, <2>2 DEF Fits
  <2>4. /\ Part(Mmap, seg[n]) \in Seq(Listed) /\ Len(Part(Mmap, seg[n])) = 0
        /\ Part(Movies, seg[n]) \in Seq(Listed) /\ Len(Part(Movies, seg[n])) = 0
    BY <2>2, <2>3, Parts
  <2>5. Part(Mmap, seg[n]) = <<>> /\ Part(Movies, seg[n]) = <<>>
    BY <2>4
  <2>6. Ordered(<<>>)
    <3>1. <<>> \in Seq(Listed) /\ 1 .. Len(<<>>) = {}
      OBVIOUS
    <3> QED
      BY <3>1, OrderedIs
  <2>7. Sorted(n)'
    BY <2>1, <2>5, <2>6, LikeIs DEF Sorted, Kept
  <2>8. pc'[1] = "sorted"
    BY <1>0, <1>2, <2>3 DEF Types
  <2>9. Root'
    BY <1>0, <2>1, <2>8 DEF Root, Has
  <2> QED
    BY <1>0, <1>2, <2>1, <2>7, <2>9, Moved
<1> QED
  BY <1>1, <1>2 DEF SortNothing

LEMMA SortLeafStep == \A n \in Nums : IInv /\ SortLeaf(n) => IInv'
<1> SUFFICES ASSUME NEW n \in Nums, IInv, SortLeaf(n) PROVE IInv'
  OBVIOUS
<1> DEFINE p == Part(Movies, seg[n])
<1>0. Types /\ Fits(n) /\ Has(n) /\ pc[n] = "new" /\ Movies # <<>>
  BY DEF IInv, SortLeaf, Has
<1>1. /\ Mmap' = Overlay(Mmap, seg[n].st, sort(p)) /\ pc' = [pc EXCEPT ![n] = "sorted"]
      /\ UNCHANGED <<input, seg, out, crashed>>
  BY DEF SortLeaf
<1>2. Movies \in Seq(Listed) /\ seg[n] \in Segs /\ seg[n].st \in Nat /\ seg[n].end \in Nat
  BY <1>0, Typed
<1>3. p \in Seq(Listed) /\ p # <<>>
  <2>1. seg[n].st <= seg[n].end /\ seg[n].end <= Len(Movies) /\ seg[n].end - seg[n].st # 0
    BY <1>0, <1>2 DEF Fits
  <2>2. p \in Seq(Listed) /\ Len(p) # 0
    BY <1>2, <2>1, Parts
  <2> QED
    BY <2>2
<1> HIDE DEF p
<1>4. sort(p) \in Seq(Listed) /\ Like(p, sort(p)) /\ Ordered(sort(p))
  BY <1>3, SortIs
<1>5. Like(Part(Movies, seg[n]), sort(p))
  BY <1>4 DEF p
<1> QED
  BY <1>0, <1>1, <1>4, <1>5, Written

LEMMA ForkStep == \A n \in Nums : IInv /\ Fork(n) => IInv'
<1> SUFFICES ASSUME NEW n \in Nums, IInv, Fork(n) PROVE IInv'
  OBVIOUS
<1> DEFINE l == Left(n)
           r == Right(n)
           g == seg[n]
<1>0. /\ Types /\ \A u \in Nums : Fits(u) /\ Family(u) /\ Sorted(u)
      /\ pc[n] = "new" /\ Has(n) /\ Kin /\ Root
  BY DEF IInv, Fork, Has
<1>1. n < LastSplit /\ g \in Segs /\ g.st \in Nat /\ g.end \in Nat /\ g.end - g.st >= 2
  <2>1. n \in Nat /\ LastSplit \in Nat /\ Threshold \in Nat \ {0}
    BY ProcessSortAssumption DEF Nums
  <2>2. ~(n >= LastSplit) /\ ~(g.end - g.st <= Threshold)
    BY DEF Fork, Small
  <2>3. g \in Segs /\ g.st \in Nat /\ g.end \in Nat
    BY <1>0, Typed
  <2> QED
    BY <2>1, <2>2, <2>3
<1>2. l \in Nums /\ r \in Nums /\ l # n /\ r # n /\ l # r /\ l # 1 /\ r # 1
  BY <1>1, Numbers
<1>3. /\ pc' = [pc EXCEPT ![n] = "wait", ![l] = "new", ![r] = "new"]
      /\ seg' = [seg EXCEPT ![l] = LeftOf(g), ![r] = RightOf(g)]
      /\ movies' = movies /\ req' = req /\ Movies' = Movies /\ Mmap' = Mmap
      /\ out' = out /\ crashed' = crashed
  BY DEF Fork, input, Left, Right
<1>4. ~Has(l) /\ ~Has(r) /\ pc[l] = "none" /\ pc[r] = "none"
  BY <1>0, <1>1 DEF Family, Has
<1>5. /\ LeftOf(g) \in Segs /\ LeftOf(g).st = g.st /\ LeftOf(g).end = Middle(g)
      /\ RightOf(g) \in Segs /\ RightOf(g).st = Middle(g) /\ RightOf(g).end = g.end
      /\ Middle(g) \in Nat /\ g.st < Middle(g) /\ Middle(g) < g.end
  BY <1>1, Halves
<1>6. /\ InHalf(LeftOf(g), g) /\ InHalf(RightOf(g), g)
      /\ Disjoint(LeftOf(g), RightOf(g)) /\ Disjoint(RightOf(g), LeftOf(g))
      /\ Within(LeftOf(g), g) /\ Within(RightOf(g), g)
  BY <1>1, <1>5, Nesting
<1>7. /\ \A u \in Nums : u # n => Left(u) # l /\ Left(u) # r /\ Right(u) # l /\ Right(u) # r
      /\ Left(n) = l /\ Right(n) = r
  BY Numbers
<1> HIDE DEF l, r, g
<1>8. /\ pc'[n] = "wait" /\ pc'[l] = "new" /\ pc'[r] = "new"
      /\ \A u \in Nums : u # n /\ u # l /\ u # r => pc'[u] = pc[u]
      /\ seg'[l] = LeftOf(g) /\ seg'[r] = RightOf(g)
      /\ \A u \in Nums : u # l /\ u # r => seg'[u] = seg[u]
      /\ seg'[n] = g /\ seg[n] = g
  BY <1>0, <1>2, <1>3 DEF Types, g
<1>9. Types'
  <2>1. "wait" \in Stages /\ "new" \in Stages
    BY DEF Stages
  <2> QED
    BY <1>0, <1>3, <1>5, <2>1 DEF Types
<1>10. \A u \in Nums : u # l /\ u # r =>
         (Has(u)' <=> Has(u)) /\ (pc'[u] = "reaped" <=> pc[u] = "reaped")
         /\ (Kept(u)' <=> Kept(u))
  BY <1>0, <1>3, <1>8 DEF Has, Kept
<1>11. ASSUME NEW u \in Nums PROVE Fits(u)'
  <2>1. Fits(u) /\ g.end <= Len(Movies) /\ Movies \in Seq(Listed)
    <3>1. Fits(n) /\ Has(n) /\ Movies \in Seq(Listed) /\ Fits(u)
      BY <1>0, Typed
    <3> QED
      BY <1>8, <3>1 DEF Fits
  <2>2. CASE u = l
    <3>1. LeftOf(g).st < LeftOf(g).end /\ LeftOf(g).end <= Len(Movies)
      BY <1>1, <1>5, <2>1
    <3> QED
      BY <1>3, <1>8, <2>2, <3>1 DEF Fits
  <2>3. CASE u = r
    <3>1. RightOf(g).st < RightOf(g).end /\ RightOf(g).end <= Len(Movies)
      BY <1>1, <1>5, <2>1
    <3> QED
      BY <1>3, <1>8, <2>3, <3>1 DEF Fits
  <2>4. CASE u # l /\ u # r
    BY <1>3, <1>8, <1>10, <2>1, <2>4 DEF Fits
  <2> QED
    BY <2>2, <2>3, <2>4
<1>12. ASSUME NEW u \in Nums PROVE Family(u)'
  <2>1. Family(u)
    BY <1>0
  <2>2. CASE u = n
    BY <1>1, <1>7, <1>8, <2>2 DEF Family, Has
  <2>3. CASE u = l \/ u = r
    <3>1. u # n /\ pc[u] = "none" /\ pc'[u] = "new"
      BY <1>2, <1>4, <1>8, <2>3
    <3>2. u < LastSplit => /\ Left(u) \in Nums /\ Left(u) # l /\ Left(u) # r
                           /\ Right(u) \in Nums /\ Right(u) # l /\ Right(u) # r
                           /\ ~Has(Left(u)) /\ ~Has(Right(u))
      BY <1>7, <2>1, <3>1, Numbers DEF Family
    <3>3. u < LastSplit => ~Has(Left(u))' /\ ~Has(Right(u))'
      BY <1>10, <3>2
    <3> QED
      BY <3>1, <3>3 DEF Family
  <2>4. CASE u # n /\ u # l /\ u # r
    <3>1. pc'[u] = pc[u] /\ seg'[u] = seg[u]
      BY <1>8, <2>4
    <3>2. u < LastSplit =>
            /\ Left(u) \in Nums /\ Left(u) # l /\ Left(u) # r
            /\ Right(u) \in Nums /\ Right(u) # l /\ Right(u) # r
      BY <1>7, <2>4, Numbers
    <3>3. \A v \in Nums : v # l /\ v # r =>
            /\ (Has(v)' <=> Has(v)) /\ seg'[v] = seg[v]
            /\ (pc'[v] = "reaped" <=> pc[v] = "reaped") /\ (Kept(v)' <=> Kept(v))
      BY <1>8, <1>10
    <3> QED
      BY <2>1, <3>1, <3>2, <3>3 DEF Family
  <2> QED
    BY <2>2, <2>3, <2>4
<1>13. ASSUME NEW u \in Nums PROVE Sorted(u)'
  <2>1. CASE u = n \/ u = l \/ u = r
    BY <1>8, <2>1 DEF Sorted
  <2>2. CASE u # n /\ u # l /\ u # r
    BY <1>0, <1>3, <1>8, <1>10, <2>2 DEF Sorted
  <2> QED
    BY <2>1, <2>2
<1>14. ASSUME NEW u \in Nums, u # n, u # l, u # r, Has(u), NEW k \in {n, l, r}
       PROVE  Related(u, k)' /\ Related(k, u)'
  <2>1. pc'[u] = pc[u] /\ seg'[u] = seg[u] /\ seg[u] \in Segs
    BY <1>0, <1>8, <1>14 DEF Types
  <2>2. Within(seg'[k], g) /\ seg'[k] \in Segs
    <3>1. Within(g, g)
      BY <1>1 DEF Within
    <3> QED
      BY <1>1, <1>5, <1>6, <1>8, <3>1
  <2>3. Disjoint(seg[u], g) \/ (InHalf(g, seg[u]) /\ pc[u] = "wait")
    BY <1>0, <1>8, <1>14, Others
  <2>4. CASE Disjoint(seg[u], g)
    <3>1. Disjoint(seg'[k], seg[u])
      BY <1>1, <2>1, <2>2, <2>4, Nesting
    <3>2. Disjoint(seg[u], seg'[k])
      BY <2>1, <2>2, <3>1, Nesting
    <3> QED
      BY <2>1, <3>1, <3>2 DEF Related
  <2>5. CASE InHalf(g, seg[u]) /\ pc[u] = "wait"
    <3>1. InHalf(seg'[k], seg[u])
      BY <1>1, <2>1, <2>2, <2>5, Nesting
    <3>2. Under(k, u)'
      BY <2>1, <2>5, <3>1 DEF Under
    <3> QED
      BY <3>2 DEF Related
  <2> QED
    BY <2>3, <2>4, <2>5
<1>15. /\ Related(l, r)' /\ Related(r, l)' /\ Related(l, n)' /\ Related(n, l)'
       /\ Related(r, n)' /\ Related(n, r)'
  <2>1. Under(l, n)' /\ Under(r, n)'
    BY <1>6, <1>8 DEF Under
  <2>2. Disjoint(seg'[l], seg'[r]) /\ Disjoint(seg'[r], seg'[l])
    BY <1>6, <1>8
  <2> QED
    BY <2>1, <2>2 DEF Related
<1>16. Kin'
  <2> SUFFICES ASSUME NEW u \in Nums, NEW v \in Nums, u # v, Has(u)', Has(v)'
               PROVE  Related(u, v)'
    BY DEF Kin
  <2>1. CASE u \in {n, l, r} /\ v \in {n, l, r}
    BY <1>15, <2>1
  <2>2. CASE u \in {n, l, r} /\ v \notin {n, l, r}
    <3>1. Has(v)
      BY <1>10, <2>2
    <3> QED
      BY <1>14, <2>2, <3>1
  <2>3. CASE u \notin {n, l, r} /\ v \in {n, l, r}
    <3>1. Has(u)
      BY <1>10, <2>3
    <3> QED
      BY <1>14, <2>3, <3>1
  <2>4. CASE u \notin {n, l, r} /\ v \notin {n, l, r}
    <3>1. Has(u) /\ Has(v) /\ Related(u, v)
      BY <1>0, <1>10, <2>4 DEF Kin
    <3> QED
      BY <1>8, <2>4, <3>1 DEF Related, Under
  <2> QED
    BY <2>1, <2>2, <2>3, <2>4
<1>17. Root'
  <2>1. 1 \in Nums /\ 1 # l /\ 1 # r
    BY <1>2, Numbers
  <2>2. Has(1)' /\ pc'[1] # "reaped" /\ seg'[1] = seg[1]
    BY <1>0, <1>8, <1>10, <2>1 DEF Root
  <2>3. pc'[1] \in {"writing", "exited"} => pc'[1] = pc[1]
    BY <1>8, <2>1
  <2> QED
    BY <1>0, <1>3, <2>2, <2>3 DEF Root
<1> QED
  BY <1>9, <1>11, <1>12, <1>13, <1>16, <1>17 DEF IInv

\* When both children have been reaped, so have all processes below them.
LEMMA WaitStep == \A n \in Nums : IInv /\ Wait(n) => IInv'
<1> SUFFICES ASSUME NEW n \in Nums, IInv, Wait(n) PROVE IInv'
  OBVIOUS
<1>0. /\ Types /\ \A u \in Nums : Fits(u) /\ Family(u) /\ Sorted(u)
      /\ pc[n] = "wait" /\ Has(n) /\ Kin /\ Root
  BY DEF IInv, Wait, Has
<1>1. /\ n < LastSplit /\ seg[n].end - seg[n].st >= 2
      /\ Left(n) \in Nums /\ Has(Left(n)) /\ seg[Left(n)] = LeftOf(seg[n])
      /\ Right(n) \in Nums /\ Has(Right(n)) /\ seg[Right(n)] = RightOf(seg[n])
      /\ Kids(n) = {Left(n), Right(n)}
      /\ Left(n) # n /\ Right(n) # n /\ Left(n) # Right(n) /\ Left(n) # 1 /\ Right(n) # 1
  BY <1>0, Numbers DEF Family
<1>2. PICK c \in Kids(n) : /\ pc[c] = "exited"
                           /\ pc' = [pc EXCEPT ![c] = "reaped", ![n] = AfterWait(n, c)]
  BY DEF Wait
<1> DEFINE b == AfterWait(n, c)
<1>3. b = "wait" \/ b = "merge"
  BY DEF AfterWait
<1>4. b = "merge" => \A d \in Kids(n) \ {c} : pc[d] = "reaped"
  BY DEF AfterWait
<1> HIDE DEF b
<1>5. /\ pc'[c] = "reaped" /\ pc'[n] = b /\ \A u \in Nums : u # n /\ u # c => pc'[u] = pc[u]
      /\ c \in Nums /\ c # n /\ c # 1 /\ Has(c) /\ c \in {Left(n), Right(n)}
  BY <1>0, <1>1, <1>2 DEF Types, b, Has
<1>6. /\ movies' = movies /\ req' = req /\ Movies' = Movies /\ seg' = seg /\ Mmap' = Mmap
      /\ out' = out /\ crashed' = crashed
  BY DEF Wait, input
<1>7. \A u \in Nums : /\ Has(u)' <=> Has(u)
                      /\ pc[u] = "reaped" => pc'[u] = "reaped"
                      /\ Kept(u)' <=> Kept(u)
  BY <1>0, <1>2, <1>3, <1>5, <1>6 DEF Has, Kept
<1>8. Types'
  <2>1. b \in Stages /\ "reaped" \in Stages
    BY <1>3 DEF Stages
  <2>2. pc' \in [Nums -> Stages]
    BY <1>0, <1>2, <2>1 DEF Types, b
  <2> QED
    BY <1>0, <1>6, <2>2 DEF Types
<1>9. \A u \in Nums : Fits(u)'
  BY <1>0, <1>6, <1>7 DEF Fits
<1>10. ASSUME NEW u \in Nums PROVE Family(u)'
  <2>0. u < LastSplit => Left(u) \in Nums /\ Right(u) \in Nums
    BY Numbers
  <2>1. CASE u = n
    <3>1. Kept(c)
      BY <1>0, <1>2, <1>5 DEF Sorted
    <3>2. \A d \in {Left(n), Right(n)} : d # c => pc'[d] = pc[d]
      BY <1>1, <1>5
    <3>3. \A d \in {Left(n), Right(n)} : pc'[d] = "reaped" => Kept(d)
      BY <1>0, <1>5, <3>1, <3>2 DEF Family
    <3>4. b = "merge" => \A d \in {Left(n), Right(n)} : pc'[d] = "reaped"
      BY <1>1, <1>4, <1>5, <3>2
    <3> QED
      BY <1>1, <1>3, <1>5, <1>6, <1>7, <2>1, <3>3, <3>4 DEF Family
  <2>2. CASE u = c
    BY <1>5, <2>2 DEF Family
  <2>3. CASE u # n /\ u # c
    <3>1. pc'[u] = pc[u] /\ Family(u)
      BY <1>0, <1>5, <2>3
    <3>2. u < LastSplit => Left(u) # c /\ Right(u) # c
      BY <1>5, <2>3, Numbers
    <3>3. \A k \in Nums : k # c => (pc'[k] = "reaped" => pc[k] = "reaped")
      BY <1>3, <1>5
    <3> QED
      BY <1>6, <1>7, <2>0, <3>1, <3>2, <3>3 DEF Family
  <2> QED
    BY <2>1, <2>2, <2>3
<1>11. ASSUME NEW u \in Nums PROVE Sorted(u)'
  <2>1. CASE u = n
    BY <1>3, <1>5, <2>1 DEF Sorted
  <2>2. CASE u = c
    BY <1>0, <1>2, <1>5, <1>6, <2>2 DEF Sorted
  <2>3. CASE u # n /\ u # c
    BY <1>0, <1>5, <1>6, <1>7, <2>3 DEF Sorted
  <2> QED
    BY <2>1, <2>2, <2>3
<1>12. ASSUME NEW u \in Nums, u # n, Under(u, n), Has(u), b = "merge"
       PROVE  pc'[u] = "reaped"
  <2>1. PICK k \in {Left(n), Right(n)} : Within(seg[u], seg[k])
    BY <1>1, <1>12 DEF Under, InHalf
  <2>2. k \in Nums /\ Has(k) /\ pc[k] \in {"exited", "reaped"} /\ pc'[k] = "reaped"
    BY <1>1, <1>2, <1>4, <1>5, <1>7, <1>12
  <2>3. CASE u = k
    BY <2>2, <2>3
  <2>4. CASE u # k
    <3>1. Under(u, k)
      BY <1>0, <1>1, <1>12, <2>1, <2>2, <2>4, Below
    <3>2. pc[u] = "reaped"
      BY <2>2, <3>1 DEF Under
    <3> QED
      BY <1>7, <3>2
  <2> QED
    BY <2>3, <2>4
<1>13. Kin'
  <2> SUFFICES ASSUME NEW u \in Nums, NEW v \in Nums, u # v, Has(u)', Has(v)'
               PROVE  Related(u, v)'
    BY DEF Kin
  <2>1. Related(u, v)
    BY <1>0, <1>7 DEF Kin
  <2>2. ASSUME NEW x \in Nums, NEW y \in Nums, x # y, Under(x, y), Has(x)
        PROVE  Under(x, y)'
    <3>1. InHalf(seg[x], seg[y]) /\ pc[y] # "new" /\ (pc[y] # "wait" => pc[x] = "reaped")
      BY <2>2 DEF Under
    <3>2. CASE y = n
      <4>1. b = "merge" => pc'[x] = "reaped"
        BY <1>12, <2>2, <3>2
      <4> QED
        BY <1>3, <1>5, <1>6, <3>1, <3>2, <4>1 DEF Under
    <3>3. CASE y = c
      BY <1>2, <1>5, <1>6, <1>7, <3>1, <3>3 DEF Under
    <3>4. CASE y # n /\ y # c
      BY <1>5, <1>6, <1>7, <3>1, <3>4 DEF Under
    <3> QED
      BY <3>2, <3>3, <3>4
  <2>3. Has(u) /\ Has(v)
    BY <1>7
  <2> QED
    BY <1>6, <2>1, <2>2, <2>3 DEF Related
<1>14. Root'
  <2>1. 1 \in Nums /\ pc[1] # "reaped"
    BY <1>0, Numbers DEF Root
  <2>2. pc'[1] # "reaped" /\ (pc'[1] \in {"writing", "exited"} => pc'[1] = pc[1])
    BY <1>3, <1>5, <2>1
  <2> QED
    BY <1>0, <1>6, <1>7, <2>1, <2>2 DEF Root
<1> QED
  BY <1>8, <1>9, <1>10, <1>11, <1>13, <1>14 DEF IInv

LEMMA MergeHalves == \A n \in Nums : IInv /\ Merge(n) => IInv'
<1> SUFFICES ASSUME NEW n \in Nums, IInv, Merge(n) PROVE IInv'
  OBVIOUS
<1> DEFINE s == Mmap
           t == Movies
           g == seg[n]
           x == Part(s, LeftOf(g))
           y == Part(s, RightOf(g))
           w == merge(x, y)
<1>0. /\ Types /\ Fits(n) /\ Family(n) /\ Has(n) /\ pc[n] = "merge"
      /\ \A u \in Nums : Sorted(u)
  BY DEF IInv, Merge, Has
<1>1. /\ Mmap' = Overlay(Mmap, seg[n].st, w) /\ pc' = [pc EXCEPT ![n] = "sorted"]
      /\ UNCHANGED <<input, seg, out, crashed>>
  BY DEF Merge
<1>2. /\ n < LastSplit /\ g.end - g.st >= 2
      /\ seg[Left(n)] = LeftOf(g) /\ seg[Right(n)] = RightOf(g)
      /\ pc[Left(n)] = "reaped" /\ pc[Right(n)] = "reaped"
      /\ Left(n) \in Nums /\ Right(n) \in Nums
      /\ Kept(Left(n)) /\ Kept(Right(n))
  BY <1>0, Numbers DEF Family
<1>3. /\ Ordered(x) /\ Ordered(y)
      /\ Like(Part(t, LeftOf(g)), x) /\ Like(Part(t, RightOf(g)), y)
  <2>1. Sorted(Left(n)) /\ Sorted(Right(n))
    BY <1>0, <1>2
  <2> QED
    BY <1>2, <2>1 DEF Sorted, Kept
<1>4. /\ s \in Seq(Listed) /\ t \in Seq(Listed) /\ Len(s) = Len(t)
      /\ g \in Segs /\ g.st \in Nat /\ g.end \in Nat /\ g.end <= Len(t)
  BY <1>0, Typed DEF Fits
<1>5. PICK a \in Nat, b \in Nat, c \in Nat :
        /\ a = g.st /\ b = Middle(g) /\ c = g.end /\ a < b /\ b < c
        /\ LeftOf(g).st = a /\ LeftOf(g).end = b /\ RightOf(g).st = b /\ RightOf(g).end = c
  BY <1>2, <1>4, Halves
<1>6. /\ x = SubSeq(s, a + 1, b) /\ y = SubSeq(s, b + 1, c) /\ Part(t, g) = SubSeq(t, a + 1, c)
      /\ Part(t, LeftOf(g)) = SubSeq(t, a + 1, b) /\ Part(t, RightOf(g)) = SubSeq(t, b + 1, c)
  BY <1>5 DEF Part
<1>7. /\ a <= b /\ b <= c /\ b <= Len(s) /\ c <= Len(s) /\ b <= Len(t) /\ c <= Len(t)
  BY <1>4, <1>5
<1> HIDE DEF s, t, g, x, y, w
<1>8. /\ x \in Seq(Listed) /\ y \in Seq(Listed)
      /\ Part(t, LeftOf(g)) \in Seq(Listed) /\ Part(t, RightOf(g)) \in Seq(Listed)
  <2>1. SubSeq(s, a + 1, b) \in Seq(Listed) /\ SubSeq(t, a + 1, b) \in Seq(Listed)
    BY <1>4, <1>7, Segment
  <2>2. SubSeq(s, b + 1, c) \in Seq(Listed) /\ SubSeq(t, b + 1, c) \in Seq(Listed)
    BY <1>4, <1>7, Segment
  <2> QED
    BY <1>6, <2>1, <2>2
<1>9. Part(t, g) = Part(t, LeftOf(g)) \o Part(t, RightOf(g))
  <2>0. t \in Seq(Listed)
    BY <1>4
  <2>1. SubSeq(t, a + 1, c) = SubSeq(t, a + 1, b) \o SubSeq(t, b + 1, c)
    BY <1>7, <2>0, CutInTwo
  <2> QED
    BY <1>6, <2>1
<1>10. w \in Seq(Listed) /\ Like(x \o y, w) /\ Ordered(w)
  BY <1>3, <1>8, MergeType, MergeLike, MergeOrdered DEF w
<1>11. Like(Part(t, g), w)
  <2>1. Like(Part(t, LeftOf(g)) \o Part(t, RightOf(g)), x \o y)
    BY <1>3, <1>8, LikeConcat
  <2> QED
    BY <1>9, <1>10, <2>1, LikeIs
<1> QED
  BY <1>0, <1>1, <1>10, <1>11, Written DEF t, g

\* Only the first process writes when it has to be right: all others are gone.
LEMMA OpenStep == \A n \in Nums : IInv /\ Open(n) => IInv'
<1> SUFFICES ASSUME NEW n \in Nums, IInv, Open(n) PROVE IInv'
  OBVIOUS
<1>0. Types /\ Sorted(n) /\ Root /\ Has(n) /\ pc[n] = "sorted"
  BY DEF IInv, Open, Has
<1>1. /\ pc' = [pc EXCEPT ![n] = "writing"] /\ out' = <<>> /\ Movies' = Movies /\ seg' = seg
      /\ Mmap' = Mmap /\ UNCHANGED <<input, Mmap, seg, crashed>>
  BY DEF Open, input
<1>2. pc'[n] = "writing" /\ \A u \in Nums : u # n => pc'[u] = pc[u]
  BY <1>0, <1>1 DEF Types
<1>3. Sorted(n)'
  BY <1>0, <1>1, <1>2 DEF Sorted, Kept
<1>4. Root'
  <2>1. 1 \in Nums /\ (n # 1 => pc[1] = "wait")
    BY <1>0, Numbers, RootLast
  <2>2. Has(1)' /\ pc'[1] \notin {"reaped", "exited"}
    BY <1>2, <2>1 DEF Has
  <2> QED
    BY <1>0, <1>1, <2>2 DEF Root
<1> QED
  BY <1>0, <1>1, <1>3, <1>4, Moved

LEMMA CloseStep == \A n \in Nums : IInv /\ Close(n) => IInv'
<1> SUFFICES ASSUME NEW n \in Nums, IInv, Close(n) PROVE IInv'
  OBVIOUS
<1>0. Types /\ Sorted(n) /\ Root /\ Has(n) /\ pc[n] = "writing" /\ Len(Mmap) = Len(Movies)
  BY DEF IInv, Close, Has, Types
<1>1. /\ pc' = [pc EXCEPT ![n] = "exited"] /\ Movies' = Movies /\ seg' = seg
      /\ out' = IF out = <<>> THEN Mmap ELSE Garbled
      /\ Mmap' = Mmap /\ UNCHANGED <<input, Mmap, seg, crashed>>
  BY DEF Close, input
<1>2. pc'[n] = "exited" /\ \A u \in Nums : u # n => pc'[u] = pc[u]
  BY <1>0, <1>1 DEF Types
<1>3. Sorted(n)'
  BY <1>0, <1>1, <1>2 DEF Sorted, Kept
<1>4. Root'
  <2>1. 1 \in Nums /\ (n # 1 => pc[1] = "wait")
    BY <1>0, Numbers, RootLast
  <2>2. CASE n = 1
    <3>1. out' = Mmap
      BY <1>0, <1>1, <2>2 DEF Root
    <3> QED
      BY <1>0, <1>1, <1>2, <2>2, <3>1 DEF Root, Has
  <2>3. CASE n # 1
    <3>1. pc'[1] = "wait"
      BY <1>2, <2>1, <2>3
    <3>2. out' \in {<<>>, Garbled} \/ Len(out') = Len(Movies)
      BY <1>0, <1>1
    <3> QED
      BY <1>0, <1>1, <3>1, <3>2 DEF Root, Has
  <2> QED
    BY <2>2, <2>3
<1> QED
  BY <1>0, <1>1, <1>3, <1>4, Moved

LEMMA NextIInv == IInv /\ [Next]_vars => IInv'
<1> SUFFICES ASSUME IInv, [Next]_vars PROVE IInv'
  OBVIOUS
<1>1. ASSUME NEW n \in Nums, Process(n) PROVE IInv'
  BY <1>1, SortNothingStep, SortLeafStep, ForkStep, WaitStep, MergeHalves, OpenStep, CloseStep
  DEF Process
<1>2. CASE UNCHANGED vars
  <2>1. /\ movies' = movies /\ req' = req /\ Movies' = Movies /\ Mmap' = Mmap /\ pc' = pc
        /\ seg' = seg /\ out' = out /\ crashed' = crashed
    BY <1>2 DEF vars, input
  <2>2. Types'
    BY <2>1 DEF IInv, Types
  <2>3. \A u \in Nums : Fits(u)' /\ Family(u)' /\ Sorted(u)'
    BY <2>1 DEF IInv, Fits, Family, Sorted, Has, Kept
  <2>4. Kin' /\ Root'
    BY <2>1 DEF IInv, Kin, Has, Related, Under, Root
  <2> QED
    BY <2>2, <2>3, <2>4 DEF IInv
<1> QED
  BY <1>1, <1>2 DEF Next

LEMMA Inductive == Spec => []IInv
BY InitIInv, NextIInv, PTL DEF Spec

-----------------------------------------------------------------------------
(* What follows.                                                           *)

\* The variables have their types, each process has a segment of the list, and
\* only a list without a movie has an empty one.
THEOREM ProcessSortTypes == Spec => []TypeOK
<1>1. IInv => TypeOK
  <2> SUFFICES ASSUME IInv PROVE TypeOK
    OBVIOUS
  <2>1. Types /\ Root /\ \A n \in Nums : Fits(n)
    BY DEF IInv
  <2>2. \A n \in Nums : 0 <= seg[n].st
    BY <2>1, Typed
  <2> QED
    BY <2>1, <2>2 DEF TypeOK, Types, Root, Stages, Fits, Has
<1> QED
  BY <1>1, Inductive, PTL

\* What a process has sorted is in the shared mapping, in order, until its
\* parent merges it, whatever the others do at that time (server.c:108-140).
THEOREM SegmentsStay == Spec => []SegmentDone
<1>1. IInv => SegmentDone
  <2> SUFFICES ASSUME IInv, NEW n \in Nums,
                      \/ pc[n] \in {"sorted", "writing", "exited"}
                      \/ /\ pc[n] = "reaped"
                         /\ \E m \in Nums : n \in Kids(m) /\ pc[m] \in {"wait", "merge"}
               PROVE  /\ Ordered(Part(Mmap, seg[n]))
                      /\ SameMovies(Part(Mmap, seg[n]), Part(Movies, seg[n]))
    BY DEF SegmentDone
  <2>0. Kept(n)
    <3>1. CASE pc[n] \in {"sorted", "writing", "exited"}
      BY <3>1 DEF IInv, Sorted
    <3>2. CASE /\ pc[n] = "reaped"
               /\ \E m \in Nums : n \in Kids(m) /\ pc[m] \in {"wait", "merge"}
      <4>1. PICK m \in Nums : n \in Kids(m) /\ pc[m] \in {"wait", "merge"}
        BY <3>2
      <4>2. Family(m)
        BY DEF IInv
      <4>3. m < LastSplit
        BY <4>1, <4>2 DEF Family
      <4>4. n \in {Left(m), Right(m)}
        BY <4>1, <4>3, Numbers
      <4> QED
        BY <3>2, <4>1, <4>2, <4>4 DEF Family
    <3> QED
      BY <3>1, <3>2
  <2> DEFINE u == Part(Mmap, seg[n])
             v == Part(Movies, seg[n])
  <2>1. Types /\ Fits(n) /\ Has(n) /\ Ordered(u) /\ Like(v, u)
    BY <2>0 DEF IInv, Sorted, Kept, Has
  <2>2. /\ Mmap \in Seq(Listed) /\ Movies \in Seq(Listed) /\ Len(Mmap) = Len(Movies)
        /\ seg[n] \in Segs /\ seg[n].st \in Nat /\ seg[n].end \in Nat
    BY <2>1, Typed
  <2>3. seg[n].st <= seg[n].end /\ seg[n].end <= Len(Movies)
    BY <2>1, <2>2 DEF Fits
  <2>4. u \in Seq(Listed) /\ v \in Seq(Listed)
    BY <2>2, <2>3, Parts
  <2> HIDE DEF u, v
  <2>5. DOMAIN u = 1 .. Len(u) /\ DOMAIN v = 1 .. Len(v)
    BY <2>4
  <2>6. SameMovies(u, v)
    BY <2>1, <2>5 DEF SameMovies, Like, Count
  <2> QED
    BY <2>1, <2>6 DEF u, v
<1> QED
  BY <1>1, Inductive, PTL

\* Although every process of the tree empties and writes the file, what is left
\* of it at the end is the list of the request in order (server.c:79-86).
THEOREM LastWriterRight == Spec => []FileRight
<1>1. IInv => FileRight
  <2> SUFFICES ASSUME IInv, pc[1] = "exited"
               PROVE  Ordered(out) /\ Answers(out, movies, req)
    BY DEF FileRight
  <2>1. Types /\ Root /\ Sorted(1) /\ Searchable(movies, req)
    BY Numbers, ProcessSortAssumption DEF IInv, Types
  <2>2. /\ out = Mmap /\ seg[1] = [st |-> 0, end |-> Len(Movies)]
        /\ Mmap \in Seq(Listed) /\ Movies \in Seq(Listed) /\ Len(Mmap) = Len(Movies)
        /\ Movies = Filter(movies, req)
    BY <2>1 DEF Root, Types
  <2>3. Part(Mmap, seg[1]) = Mmap /\ Part(Movies, seg[1]) = Movies
    BY <2>2, Whole
  <2>4. Ordered(Mmap) /\ Like(Movies, Mmap)
    BY <2>1, <2>3 DEF Sorted, Kept
  <2>5. Answers(Mmap, movies, req)
    BY <2>1, <2>2, <2>4, LikeAnswers
  <2> QED
    BY <2>2, <2>4, <2>5
<1> QED
  BY <1>1, Inductive, PTL
=============================================================================
