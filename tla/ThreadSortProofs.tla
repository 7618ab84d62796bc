-------------------------- MODULE ThreadSortProofs --------------------------
(***************************************************************************)
(* No two threads of tserver touch a movie at the same time, and each file *)
(* has the movies of its request in order, for any catalogue, requests and *)
(* limits of the splitting.                                                *)
(***************************************************************************)
EXTENDS ThreadSort, SortingProofs

Stages == {"none", "new", "joinLeft", "joinRight", "merge", "copy", "done"}

-----------------------------------------------------------------------------
(* Threads and their numbers.                                              *)

LEMMA Numbers ==
  /\ \A t \in Threads : t[1] \in Reqs /\ t[2] \in Nums /\ t = <<t[1], t[2]>>
  /\ \A r \in Reqs : <<r, 1>> \in Threads
  /\ \A t \in Threads : t[2] < LastSplit =>
       /\ Left(t) \in Threads /\ Left(t)[1] = t[1] /\ Left(t)[2] # 1
       /\ Right(t) \in Threads /\ Right(t)[1] = t[1] /\ Right(t)[2] # 1
       /\ Left(t) # t /\ Right(t) # t /\ Left(t) # Right(t)
  /\ \A t, u \in Threads : t # u =>
       /\ Left(t) # Left(u) /\ Left(t) # Right(u) /\ Right(t) # Right(u)
<1>0. LastSplit \in Nat \ {0} /\ num_of_reqs \in Nat
  BY ThreadSortAssumption
<1>1. \A t \in Threads : t[1] \in Reqs /\ t[2] \in Nums /\ t = <<t[1], t[2]>>
  BY DEF Threads
<1>2. 1 \in Nums
  BY <1>0 DEF Nums
<1>3. \A r \in Reqs : <<r, 1>> \in Threads
  BY <1>2 DEF Threads
<1>4. \A n \in Nums : n < LastSplit =>
        2 * n \in Nums /\ 2 * n + 1 \in Nums /\ 2 * n # n /\ 2 * n + 1 # n /\ 2 * n # 1
        /\ 2 * n + 1 # 1 /\ 2 * n # 2 * n + 1
  BY <1>0 DEF Nums
<1>5. \A m, n \in Nums : m # n => 2 * m # 2 * n /\ 2 * m # 2 * n + 1 /\ 2 * m + 1 # 2 * n + 1
  BY <1>0 DEF Nums
<1>6. ASSUME NEW t \in Threads, t[2] < LastSplit
      PROVE  /\ Left(t) \in Threads /\ Left(t)[1] = t[1] /\ Left(t)[2] # 1
             /\ Right(t) \in Threads /\ Right(t)[1] = t[1] /\ Right(t)[2] # 1
             /\ Left(t) # t /\ Right(t) # t /\ Left(t) # Right(t)
  <2>1. PICK r \in Reqs, n \in Nums : t = <<r, n>> /\ r = t[1] /\ n = t[2]
    BY <1>1
  <2>2. Left(t) = <<r, 2 * n>> /\ Right(t) = <<r, 2 * n + 1>>
    BY <2>1 DEF Left, Right
  <2>3. /\ 2 * n \in Nums /\ 2 * n + 1 \in Nums /\ 2 * n # n /\ 2 * n + 1 # n /\ 2 * n # 1
        /\ 2 * n + 1 # 1 /\ 2 * n # 2 * n + 1
    BY <1>4, <1>6, <2>1
  <2>4. /\ Left(t) \in Threads /\ Left(t)[1] = r /\ Left(t)[2] = 2 * n
        /\ Right(t) \in Threads /\ Right(t)[1] = r /\ Right(t)[2] = 2 * n + 1
    BY <2>2, <2>3 DEF Threads
  <2> QED
    BY <2>1, <2>3, <2>4
<1>7. ASSUME NEW t \in Threads, NEW u \in Threads, t # u
      PROVE  Left(t) # Left(u) /\ Left(t) # Right(u) /\ Right(t) # Right(u)
  <2>1. PICK r \in Reqs, n \in Nums : t = <<r, n>> /\ r = t[1] /\ n = t[2]
    BY <1>1
  <2>2. PICK q \in Reqs, m \in Nums : u = <<q, m>> /\ q = u[1] /\ m = u[2]
    BY <1>1
  <2>3. /\ Left(t) = <<r, 2 * n>> /\ Right(t) = <<r, 2 * n + 1>>
        /\ Left(u) = <<q, 2 * m>> /\ Right(u) = <<q, 2 * m + 1>>
    BY <2>1, <2>2 DEF Left, Right
  <2>4. r # q \/ n # m
    BY <1>7, <2>1, <2>2
  <2>5. CASE r # q
    BY <2>3, <2>5
  <2>6. CASE n # m
    <3>1. 2 * n # 2 * m /\ 2 * n # 2 * m + 1 /\ 2 * n + 1 # 2 * m + 1
      BY <1>5, <2>6
    <3> HIDE <2>1, <2>2
    <3> QED
      BY <2>3, <3>1
  <2> QED
    BY <2>4, <2>5, <2>6
<1> QED
  BY <1>1, <1>3, <1>6, <1>7

-----------------------------------------------------------------------------
(* The inductive invariant.                                                *)

Has(t) == pc[t] # "none"

Types ==
  /\ movies \in Catalogues /\ reqs \in [Reqs -> Requests]
  /\ crashed \in BOOLEAN
  /\ next \in 0 .. 2 * num_of_reqs
  /\ pc \in [Threads -> Stages] /\ seg \in [Threads -> Segs]
  /\ Movies \in [Reqs -> Seq(Listed)] /\ out \in [Reqs -> Seq(Listed)]
  /\ tmp \in [Threads -> Seq(Listed)]

\* A thread's segment is one of the array, and only a list without a movie has
\* an empty one.
Fits(t) ==
  /\ Has(t) => /\ seg[t].end <= Len(Movies[t[1]])
               /\ \/ seg[t].st < seg[t].end
                  \/ t[2] = 1 /\ Movies[t[1]] = <<>> /\ seg[t].st = seg[t].end
  /\ Len(tmp[t]) = IF pc[t] = "copy" THEN seg[t].end - seg[t].st ELSE 0

\* A thread that has split has two others, which have the halves.
Family(t) ==
  /\ pc[t] \in {"joinLeft", "joinRight", "merge", "copy"} =>
       /\ t[2] < LastSplit /\ seg[t].end - seg[t].st >= 2
       /\ Has(Left(t)) /\ seg[Left(t)] = LeftOf(seg[t])
       /\ Has(Right(t)) /\ seg[Right(t)] = RightOf(seg[t])
       /\ pc[t] # "joinLeft" => pc[Left(t)] = "done"
       /\ pc[t] \in {"merge", "copy"} => pc[Right(t)] = "done"
  /\ pc[t] \in {"none", "new"} /\ t[2] < LastSplit => ~Has(Left(t)) /\ ~Has(Right(t))

\* t works for u, which waits until it has ended.
Under(t, u) ==
  /\ InHalf(seg[t], seg[u]) /\ pc[u] # "new"
  /\ pc[u] \in {"merge", "copy", "done"} => pc[t] = "done"

Related(t, u) == Disjoint(seg[t], seg[u]) \/ Under(t, u) \/ Under(u, t)

Kin == \A t, u \in Threads : t # u /\ t[1] = u[1] /\ Has(t) /\ Has(u) => Related(t, u)

\* What is done is in order, and so is what will be copied back.
Sorted(t) ==
  /\ pc[t] = "done" => Ordered(Part(Movies[t[1]], seg[t]))
  /\ pc[t] = "copy" => Ordered(tmp[t]) /\ Like(Part(Movies[t[1]], seg[t]), tmp[t])

\* The threads exchange the movies of the request, but lose and repeat none.
Asked(r) ==
  IF next <= r THEN \A n \in Nums : pc[<<r, n>>] = "none"
  ELSE /\ Has(<<r, 1>>) /\ seg[<<r, 1>>] = [st |-> 0, end |-> Len(Movies[r])]
       /\ Like(Filter(movies, reqs[r]), Movies[r])

IInv ==
  /\ Types
  /\ \A t \in Threads : Fits(t) /\ Family(t) /\ Sorted(t)
  /\ Kin
  /\ \A r \in Reqs : Asked(r)
  /\ FilesRight

-----------------------------------------------------------------------------
(* The invariant holds at first, and after each step.                      *)

LEMMA InitIInv == Init => IInv
<1> SUFFICES ASSUME Init PROVE IInv
  OBVIOUS
<1>1. num_of_reqs \in Nat
  BY ThreadSortAssumption
<1>2. Types
  <2>1. [st |-> 0, end |-> 0] \in Segs /\ <<>> \in Seq(Listed) /\ 0 \in 0 .. 2 * num_of_reqs
    BY <1>1 DEF Segs
  <2> QED
    BY <2>1 DEF Init, Types, Stages
<1>3. ASSUME NEW t \in Threads PROVE pc[t] = "none" /\ tmp[t] = <<>>
  BY DEF Init
<1>4. \A t \in Threads : Fits(t) /\ Family(t) /\ Sorted(t)
  BY <1>3, Numbers DEF Fits, Family, Sorted, Has
<1>5. Kin
  BY <1>3 DEF Kin, Has
<1>6. \A r \in Reqs : Asked(r)
  <2>1. \A r \in Reqs : next <= r
    BY <1>1 DEF Init, Reqs
  <2>2. \A r \in Reqs, n \in Nums : <<r, n>> \in Threads
    BY DEF Threads
  <2> QED
    BY <1>3, <2>1, <2>2 DEF Asked
<1>7. FilesRight
  <2>1. \A r \in Reqs : ~(next > num_of_reqs + r)
    BY <1>1 DEF Init, Reqs
  <2> QED
    BY <2>1 DEF FilesRight
<1> QED
  BY <1>2, <1>4, <1>5, <1>6, <1>7 DEF IInv

LEMMA Typed ==
  ASSUME Types, NEW t \in Threads
  PROVE  /\ t[1] \in Reqs /\ seg[t] \in Segs /\ seg[t].st \in Nat /\ seg[t].end \in Nat
         /\ Movies[t[1]] \in Seq(Listed) /\ tmp[t] \in Seq(Listed) /\ pc[t] \in Stages
<1>1. t[1] \in Reqs /\ seg[t] \in Segs
  BY Numbers DEF Types
<1> QED
  BY <1>1 DEF Types, Segs

\* Who may work while t sorts its segment or copies it back.
LEMMA Others ==
  ASSUME IInv, NEW t \in Threads, NEW u \in Threads, t # u, t[1] = u[1],
         pc[t] = "new" \/ pc[t] = "copy", Has(u)
  PROVE  \/ Disjoint(seg[u], seg[t])
         \/ pc[t] = "copy" /\ pc[u] = "done" /\ InHalf(seg[u], seg[t])
         \/ InHalf(seg[t], seg[u]) /\ pc[u] \notin {"new", "merge", "copy", "done"}
<1>1. Related(t, u) /\ seg[t] \in Segs /\ seg[u] \in Segs
  BY Typed DEF IInv, Kin, Has
<1>2. Disjoint(seg[t], seg[u]) => Disjoint(seg[u], seg[t])
  BY <1>1, Nesting
<1> QED
  BY <1>1, <1>2 DEF Related, Under

\* Either the sorted or the merged segment is written, and t ends.
LEMMA Written ==
  ASSUME IInv, NEW t \in Threads, pc[t] = "new" \/ pc[t] = "copy",
         NEW w \in Seq(Listed), Like(Part(Movies[t[1]], seg[t]), w), Ordered(w),
         Movies' = [Movies EXCEPT ![t[1]] = Overlay(@, seg[t].st, w)],
         tmp' = [tmp EXCEPT ![t] = <<>>], pc' = [pc EXCEPT ![t] = "done"],
         UNCHANGED <<input, seg, next, out, crashed>>
  PROVE  IInv'
<1> DEFINE s == Movies[t[1]]
           o == Overlay(s, seg[t].st, w)
<1>0. Types /\ \A u \in Threads : Fits(u) /\ Family(u) /\ Sorted(u)
  BY DEF IInv
<1>1. t[1] \in Reqs /\ s \in Seq(Listed) /\ seg[t] \in Segs /\ Has(t)
  BY <1>0, Typed DEF Has
<1>2. seg[t].st <= seg[t].end /\ seg[t].end <= Len(s)
  <2>1. seg[t].st \in Nat /\ seg[t].end \in Nat
    BY <1>0, Typed
  <2> QED
    BY <1>0, <1>1, <2>1 DEF Fits
<1>3. /\ o \in Seq(Listed) /\ Len(o) = Len(s) /\ Like(s, o) /\ Part(o, seg[t]) = w
      /\ \A h \in Segs : h.st <= h.end /\ h.end <= Len(s) /\ Disjoint(h, seg[t])
           => Part(o, h) = Part(s, h)
      /\ \A h \in Segs : h.st <= h.end /\ Within(h, seg[t]) => Ordered(Part(o, h))
  <2>1. Len(w) = seg[t].end - seg[t].st
    BY <1>1, <1>2, Parts DEF Like
  <2> QED
    BY <1>1, <1>2, <2>1, Writing
<1> HIDE DEF o
<1>4. /\ Movies'[t[1]] = o
      /\ \A r \in Reqs : r # t[1] => Movies'[r] = Movies[r]
      /\ \A r \in Reqs : Len(Movies'[r]) = Len(Movies[r]) /\ Movies'[r] \in Seq(Listed)
      /\ \A r \in Reqs : Movies'[r] = <<>> <=> Movies[r] = <<>>
  <2>1. Movies'[t[1]] = o /\ \A r \in Reqs : r # t[1] => Movies'[r] = Movies[r]
    BY <1>0, <1>1 DEF Types, o
  <2>2. \A r \in Reqs : Len(Movies'[r]) = Len(Movies[r]) /\ Movies'[r] \in Seq(Listed)
    BY <1>0, <1>1, <1>3, <2>1 DEF Types
  <2>3. \A r \in Reqs : Movies'[r] = <<>> <=> Movies[r] = <<>>
    <3>1. \A r \in Reqs : Movies[r] \in Seq(Listed)
      BY <1>0 DEF Types
    <3>2. \A q \in Seq(Listed) : q = <<>> <=> Len(q) = 0
      OBVIOUS
    <3> QED
      BY <2>2, <3>1, <3>2
  <2> QED
    BY <2>1, <2>2, <2>3
<1>5. /\ pc'[t] = "done" /\ tmp'[t] = <<>>
      /\ \A u \in Threads : u # t => pc'[u] = pc[u] /\ tmp'[u] = tmp[u]
  BY <1>0 DEF Types
<1>6. /\ movies' = movies /\ reqs' = reqs /\ seg' = seg /\ next' = next /\ out' = out
      /\ crashed' = crashed
  BY DEF input
<1>7. Types'
  <2>1. "done" \in Stages /\ <<>> \in Seq(Listed)
    BY DEF Stages
  <2>2. Movies' \in [Reqs -> Seq(Listed)]
    BY <1>0, <1>1, <1>3 DEF Types, o
  <2> QED
    BY <1>0, <1>6, <2>1, <2>2 DEF Types
<1>8. ASSUME NEW u \in Threads PROVE Fits(u)'
  <2>1. u[1] \in Reqs /\ Fits(u)
    BY <1>0, Typed
  <2>2. CASE u = t
    <3>1. Len(tmp'[t]) = 0
      BY <1>5
    <3> QED
      BY <1>1, <1>4, <1>5, <1>6, <2>1, <2>2, <3>1 DEF Fits, Has
  <2>3. CASE u # t
    BY <1>4, <1>5, <1>6, <2>1, <2>3 DEF Fits, Has
  <2> QED
    BY <2>2, <2>3
<1>9. ASSUME NEW u \in Threads PROVE Family(u)'
  <2>0. \A v \in Threads : (Has(v)' <=> Has(v)) /\ (pc[v] = "done" => pc'[v] = "done")
    BY <1>1, <1>5 DEF Has
  <2>1. CASE pc'[u] \in {"joinLeft", "joinRight", "merge", "copy"}
    <3>1. u # t /\ pc'[u] = pc[u]
      BY <1>5, <2>1
    <3>2. Family(u) /\ u[2] < LastSplit
      BY <1>0, <2>1, <3>1 DEF Family
    <3>3. Left(u) \in Threads /\ Right(u) \in Threads
      BY <3>2, Numbers
    <3> QED
      BY <1>6, <2>0, <2>1, <3>1, <3>2, <3>3 DEF Family
  <2>2. CASE pc'[u] \in {"none", "new"}
    <3>1. u # t /\ pc'[u] = pc[u] /\ Family(u)
      BY <1>0, <1>5, <2>2
    <3>2. u[2] < LastSplit => Left(u) \in Threads /\ Right(u) \in Threads
      BY Numbers
    <3> QED
      BY <2>0, <2>2, <3>1, <3>2 DEF Family
  <2>3. CASE pc'[u] = "done"
    BY <2>3 DEF Family
  <2>4. pc'[u] \in Stages
    BY <1>7 DEF Types
  <2> QED
    BY <2>1, <2>2, <2>3, <2>4 DEF Stages
<1>10. ASSUME NEW u \in Threads PROVE Sorted(u)'
  <2>1. CASE u = t
    BY <1>3, <1>4, <1>5, <1>6, <2>1 DEF Sorted
  <2>2. CASE u # t /\ u[1] # t[1]
    BY <1>0, <1>4, <1>5, <1>6, <2>2, Typed DEF Sorted
  <2>3. CASE u # t /\ u[1] = t[1] /\ pc[u] \in {"done", "copy"}
    <3>1. Has(u) /\ seg[u] \in Segs /\ seg[u].st \in Nat /\ seg[u].end \in Nat
      BY <1>0, <2>3, Typed DEF Has
    <3>2. seg[u].st <= seg[u].end /\ seg[u].end <= Len(s)
      BY <1>0, <2>3, <3>1 DEF Fits
    <3>3. \/ Disjoint(seg[u], seg[t])
          \/ pc[u] = "done" /\ InHalf(seg[u], seg[t])
      BY <2>3, <3>1, Others
    <3>4. CASE Disjoint(seg[u], seg[t])
      <4>1. Part(o, seg[u]) = Part(s, seg[u])
        BY <1>3, <3>1, <3>2, <3>4
      <4> QED
        BY <1>0, <1>4, <1>5, <1>6, <2>3, <4>1 DEF Sorted
    <3>5. CASE pc[u] = "done" /\ InHalf(seg[u], seg[t])
      <4>1. Within(seg[u], seg[t])
        BY <1>1, <3>1, <3>5, Nesting
      <4>2. Ordered(Part(o, seg[u]))
        BY <1>3, <3>1, <3>2, <4>1
      <4> QED
        BY <1>4, <1>5, <1>6, <2>3, <3>5, <4>2 DEF Sorted
    <3> QED
      BY <3>3, <3>4, <3>5
  <2>4. CASE u # t /\ pc[u] \notin {"done", "copy"}
    BY <1>5, <2>4 DEF Sorted
  <2> QED
    BY <2>1, <2>2, <2>3, <2>4
<1>11. Kin'
  <2> SUFFICES ASSUME NEW u \in Threads, NEW v \in Threads, u # v, u[1] = v[1],
                      Has(u)', Has(v)'
               PROVE  Related(u, v)'
    BY DEF Kin
  <2>1. Has(u) /\ Has(v)
    BY <1>1, <1>5 DEF Has
  <2>2. Related(u, v)
    BY <2>1 DEF IInv, Kin
  <2>3. CASE u # t /\ v # t
    BY <1>5, <1>6, <2>2, <2>3 DEF Related, Under
  <2>4. ASSUME NEW x \in Threads, x # t, x[1] = t[1], Has(x)
        PROVE  Related(x, t)' /\ Related(t, x)'
    <3>1. \/ Disjoint(seg[x], seg[t])
          \/ pc[x] = "done" /\ InHalf(seg[x], seg[t])
          \/ InHalf(seg[t], seg[x]) /\ pc[x] \notin {"new", "merge", "copy", "done"}
      BY <2>4, Others
    <3>2. Disjoint(seg[x], seg[t]) => Disjoint(seg[t], seg[x])
      BY DEF Disjoint
    <3> QED
      BY <1>5, <1>6, <2>4, <3>1, <3>2 DEF Related, Under
  <2>5. CASE u = t
    BY <2>1, <2>4, <2>5
  <2>6. CASE v = t
    BY <2>1, <2>4, <2>6
  <2> QED
    BY <2>3, <2>5, <2>6
<1>12. ASSUME NEW r \in Reqs PROVE Asked(r)'
  <2>1. Asked(r)
    BY DEF IInv
  <2>2. CASE next <= r
    <3>1. \A n \in Nums : <<r, n>> \in Threads /\ pc[<<r, n>>] = "none"
      BY <2>1, <2>2 DEF Asked, Threads
    <3> QED
      BY <1>1, <1>5, <1>6, <2>2, <3>1 DEF Asked, Has
  <2>3. CASE ~(next <= r)
    <3>1. Has(<<r, 1>>)' /\ seg'[<<r, 1>>] = [st |-> 0, end |-> Len(Movies'[r])]
      <4>1. <<r, 1>> \in Threads
        BY Numbers
      <4>2. Has(<<r, 1>>) /\ seg[<<r, 1>>] = [st |-> 0, end |-> Len(Movies[r])]
        BY <2>1, <2>3 DEF Asked
      <4> QED
        BY <1>4, <1>5, <1>6, <4>1, <4>2 DEF Has
    <3>2. Like(Filter(movies, reqs[r]), Movies'[r])
      <4>1. Like(Filter(movies, reqs[r]), Movies[r])
        BY <2>1, <2>3 DEF Asked
      <4>2. Like(Movies[r], Movies'[r])
        BY <1>3, <1>4, LikeIs
      <4> QED
        BY <4>1, <4>2, LikeIs
    <3> QED
      BY <1>6, <2>3, <3>1, <3>2 DEF Asked
  <2> QED
    BY <2>2, <2>3
<1>13. FilesRight'
  <2>1. FilesRight
    BY DEF IInv
  <2> QED
    BY <1>6, <2>1 DEF FilesRight
<1> QED
  BY <1>7, <1>8, <1>9, <1>10, <1>11, <1>12, <1>13 DEF IInv

\* A step of t that leaves the array as it is.
LEMMA Moved ==
  ASSUME IInv, NEW t \in Threads, Has(t), pc[t] # "done",
         NEW b \in Stages \ {"none", "new"}, pc' = [pc EXCEPT ![t] = b],
         NEW w \in Seq(Listed), tmp' = [tmp EXCEPT ![t] = w],
         Len(w) = IF b = "copy" THEN seg[t].end - seg[t].st ELSE 0,
         UNCHANGED <<input, Movies, seg, next, out, crashed>>,
         Family(t)', Sorted(t)',
         \A u \in Threads : u # t /\ u[1] = t[1] /\ Has(u) /\ Under(u, t)
           => b = "joinRight" \/ pc[u] = "done",
         b # "joinLeft"
  PROVE  IInv'
<1>0. Types /\ \A u \in Threads : Fits(u) /\ Family(u) /\ Sorted(u)
  BY DEF IInv
<1>1. /\ pc'[t] = b /\ tmp'[t] = w
      /\ \A u \in Threads : u # t => pc'[u] = pc[u] /\ tmp'[u] = tmp[u]
  BY <1>0 DEF Types
<1>2. /\ movies' = movies /\ reqs' = reqs /\ seg' = seg /\ next' = next /\ out' = out
      /\ crashed' = crashed /\ Movies' = Movies
  BY DEF input
<1>3. \A u \in Threads : (Has(u)' <=> Has(u)) /\ (pc[u] = "done" => pc'[u] = "done")
  BY <1>1 DEF Has
<1>4. Types'
  BY <1>0, <1>2 DEF Types
<1>5. ASSUME NEW u \in Threads PROVE Fits(u)'
  BY <1>0, <1>1, <1>2, <1>3 DEF Fits
<1>6. ASSUME NEW u \in Threads, u # t PROVE Family(u)'
  <2>1. Family(u) /\ pc'[u] = pc[u]
    BY <1>0, <1>1, <1>6
  <2>2. u[2] < LastSplit => Left(u) \in Threads /\ Right(u) \in Threads
    BY Numbers
  <2> QED
    BY <1>2, <1>3, <2>1, <2>2 DEF Family
<1>7. ASSUME NEW u \in Threads, u # t PROVE Sorted(u)'
  BY <1>0, <1>1, <1>2, <1>7 DEF Sorted
<1>8. Kin'
  <2> SUFFICES ASSUME NEW u \in Threads, NEW v \in Threads, u # v, u[1] = v[1],
                      Has(u)', Has(v)'
               PROVE  Related(u, v)'
    BY DEF Kin
  <2>1. Has(u) /\ Has(v)
    BY <1>3
  <2>2. Related(u, v)
    BY <2>1 DEF IInv, Kin
  <2>3. CASE u # t /\ v # t
    BY <1>1, <1>2, <2>2, <2>3 DEF Related, Under
  <2>4. ASSUME NEW x \in Threads, x # t, x[1] = t[1], Has(x), Related(x, t) \/ Related(t, x)
        PROVE  Related(x, t)' /\ Related(t, x)'
    <3>1. Disjoint(seg[x], seg[t]) \/ Under(x, t) \/ Under(t, x)
      BY <2>4 DEF Related, Disjoint
    <3>2. CASE Disjoint(seg[x], seg[t])
      BY <1>2, <3>2 DEF Related, Disjoint
    <3>3. CASE Under(x, t)
      <4>1. Under(x, t)'
        BY <1>1, <1>2, <2>4, <3>3 DEF Under
      <4> QED
        BY <4>1 DEF Related
    <3>4. CASE Under(t, x)
      <4>1. Under(t, x)'
        BY <1>1, <1>2, <2>4, <3>4 DEF Under
      <4> QED
        BY <4>1 DEF Related
    <3> QED
      BY <3>1, <3>2, <3>3, <3>4
  <2>5. CASE u = t
    BY <2>1, <2>2, <2>4, <2>5
  <2>6. CASE v = t
    BY <2>1, <2>2, <2>4, <2>6
  <2> QED
    BY <2>3, <2>5, <2>6
<1>9. ASSUME NEW r \in Reqs PROVE Asked(r)'
  <2>1. Asked(r) /\ <<r, 1>> \in Threads /\ \A n \in Nums : <<r, n>> \in Threads
    BY Numbers DEF IInv, Threads
  <2> QED
    BY <1>2, <1>3, <2>1 DEF Asked, Has
<1>10. FilesRight'
  <2>1. FilesRight
    BY DEF IInv
  <2> QED
    BY <1>2, <2>1 DEF FilesRight
<1> QED
  BY <1>4, <1>5, <1>6, <1>7, <1>8, <1>9, <1>10 DEF IInv

LEMMA CreateStep == IInv /\ Create => IInv'
<1> SUFFICES ASSUME IInv, Create PROVE IInv'
  OBVIOUS
<1> DEFINE t == <<next, 1>>
           f == Filter(movies, reqs[next])
<1>0. /\ Types /\ \A u \in Threads : Fits(u) /\ Family(u) /\ Sorted(u)
      /\ num_of_reqs \in Nat
  BY ThreadSortAssumption DEF IInv
<1>1. /\ next \in Reqs /\ next \in Nat /\ next + 1 \in 0 .. 2 * num_of_reqs
      /\ ~(next + 1 > num_of_reqs)
  BY <1>0 DEF Create, Reqs
<1>2. t \in Threads /\ t[1] = next /\ t[2] = 1
  BY <1>1, Numbers
<1>3. \A n \in Nums : pc[<<next, n>>] = "none"
  <2>1. Asked(next) /\ next <= next
    BY <1>1 DEF IInv
  <2> QED
    BY <2>1 DEF Asked
<1>4. f \in Seq(Listed)
  <2>1. Searchable(movies, reqs[next])
    BY <1>0, <1>1, ThreadSortAssumption DEF Types
  <2> QED
    BY <2>1, FilterIs
<1>5. ASSUME NEW u \in Threads, u[1] = next PROVE pc[u] = "none"
  <2>1. u = <<u[1], u[2]>> /\ u[2] \in Nums
    BY Numbers
  <2> QED
    BY <1>3, <1>5, <2>1
<1> HIDE DEF f
<1>6. /\ Movies' = [Movies EXCEPT ![next] = f]
      /\ Movies'[next] = f /\ \A r \in Reqs : r # next => Movies'[r] = Movies[r]
  BY <1>0, <1>1 DEF Create, Types, f
<1> DEFINE g == [st |-> 0, end |-> Len(f)]
<1>7. g \in Segs /\ g.st = 0 /\ g.end = Len(f) /\ (g.end = 0 <=> f = <<>>) /\ g.end \in Nat
  BY <1>4 DEF Segs
<1>8. seg' = [seg EXCEPT ![t] = g] /\ pc' = [pc EXCEPT ![t] = "new"]
  BY <1>6 DEF Create
<1> HIDE DEF g, t
<1>9. /\ seg'[t] = g /\ \A u \in Threads : u # t => seg'[u] = seg[u]
      /\ pc'[t] = "new" /\ \A u \in Threads : u # t => pc'[u] = pc[u]
  BY <1>0, <1>2, <1>8 DEF Types
<1>10. /\ next' = next + 1 /\ movies' = movies /\ reqs' = reqs /\ tmp' = tmp /\ out' = out
       /\ crashed' = crashed
  BY DEF Create, input
<1>11. Types'
  <2>1. "new" \in Stages
    BY DEF Stages
  <2> QED
    BY <1>0, <1>1, <1>4, <1>6, <1>7, <1>8, <1>10, <2>1 DEF Types
<1>12. ASSUME NEW u \in Threads PROVE Fits(u)'
  <2>1. Fits(u) /\ u[1] \in Reqs
    BY <1>0, Numbers
  <2>2. CASE u = t
    <3>1. pc[t] = "none" /\ Fits(t)
      BY <1>0, <1>2, <1>5
    <3>2. Len(tmp[t]) = 0
      BY <3>1 DEF Fits
    <3>3. g.end <= Len(f) /\ (g.st < g.end \/ (g.st = g.end /\ f = <<>>))
      BY <1>7
    <3> QED
      BY <1>2, <1>6, <1>9, <1>10, <2>2, <3>2, <3>3 DEF Fits
  <2>3. CASE u # t /\ u[1] = next
    <3>1. pc[u] = "none" /\ pc'[u] = "none"
      BY <1>5, <1>9, <2>3
    <3> QED
      BY <1>10, <2>1, <3>1 DEF Fits, Has
  <2>4. CASE u # t /\ u[1] # next
    BY <1>6, <1>9, <1>10, <2>1, <2>4 DEF Fits, Has
  <2> QED
    BY <2>2, <2>3, <2>4
<1>13. ASSUME NEW u \in Threads PROVE Family(u)'
  <2>1. u[2] < LastSplit => /\ Left(u) \in Threads /\ Left(u)[1] = u[1] /\ Left(u) # t
                            /\ Right(u) \in Threads /\ Right(u)[1] = u[1] /\ Right(u) # t
    BY <1>2, Numbers
  <2>2. Family(u)
    BY <1>0
  <2>3. CASE u = t
    <3>1. u[2] < LastSplit => ~Has(Left(u))' /\ ~Has(Right(u))'
      BY <1>2, <1>5, <1>9, <2>1, <2>3 DEF Has
    <3> QED
      BY <1>9, <2>3, <3>1 DEF Family
  <2>4. CASE u # t
    BY <1>9, <2>1, <2>2, <2>4 DEF Family, Has
  <2> QED
    BY <2>3, <2>4
<1>14. ASSUME NEW u \in Threads PROVE Sorted(u)'
  <2>1. CASE u = t
    BY <1>9, <2>1 DEF Sorted
  <2>2. CASE u # t /\ u[1] = next
    <3>1. pc'[u] = "none"
      BY <1>5, <1>9, <2>2
    <3> QED
      BY <3>1 DEF Sorted
  <2>3. CASE u # t /\ u[1] # next
    <3>1. u[1] \in Reqs /\ Sorted(u)
      BY <1>0, Numbers
    <3> QED
      BY <1>6, <1>9, <1>10, <2>3, <3>1 DEF Sorted
  <2> QED
    BY <2>1, <2>2, <2>3
<1>15. Kin'
  <2> SUFFICES ASSUME NEW u \in Threads, NEW v \in Threads, u # v, u[1] = v[1],
                      Has(u)', Has(v)'
               PROVE  Related(u, v)'
    BY DEF Kin
  <2>1. u # t /\ v # t
    BY <1>2, <1>5, <1>9 DEF Has
  <2>2. Has(u) /\ Has(v)
    BY <1>9, <2>1 DEF Has
  <2>3. Related(u, v)
    BY <2>2 DEF IInv, Kin
  <2> QED
    BY <1>9, <2>1, <2>3 DEF Related, Under
<1>16. ASSUME NEW r \in Reqs PROVE Asked(r)'
  <2>1. Asked(r) /\ r \in Nat /\ <<r, 1>> \in Threads /\ \A n \in Nums : <<r, n>> \in Threads
    BY Numbers DEF IInv, Threads, Reqs
  <2>2. CASE r = next
    <3>1. ~(next + 1 <= r)
      BY <1>1, <2>2
    <3>2. Like(f, f)
      BY LikeIs
    <3> QED
      BY <1>6, <1>9, <1>10, <2>2, <3>1, <3>2 DEF Asked, Has, f, g, t
  <2>3. CASE r # next
    <3>1. (next + 1 <= r <=> next <= r) /\ \A n \in Nums : <<r, n>> # t
      BY <1>1, <2>1, <2>3 DEF t
    <3>2. <<r, 1>> # t
      BY <2>3 DEF t
    <3> QED
      BY <1>6, <1>9, <1>10, <2>1, <2>3, <3>1, <3>2 DEF Asked, Has
  <2> QED
    BY <2>2, <2>3
<1>17. FilesRight'
  <2>1. \A r \in Reqs : ~(next' > num_of_reqs + r)
    BY <1>0, <1>1, <1>10 DEF Reqs
  <2> QED
    BY <2>1 DEF FilesRight
<1> QED
  BY <1>11, <1>12, <1>13, <1>14, <1>15, <1>16, <1>17 DEF IInv

LEMMA CollectStep == IInv /\ Collect => IInv'
<1> SUFFICES ASSUME IInv, Collect PROVE IInv'
  OBVIOUS
<1> DEFINE r == next - num_of_reqs
           t == <<r, 1>>
<1>0. /\ Types /\ \A u \in Threads : Fits(u) /\ Family(u) /\ Sorted(u)
      /\ num_of_reqs \in Nat /\ next \in Nat /\ Kin
  BY ThreadSortAssumption DEF IInv, Types
<1>1. r \in Reqs /\ r \in Nat /\ ~(next <= r) /\ next = num_of_reqs + r
  BY <1>0 DEF Collect, Reqs
<1>2. /\ pc[t] = "done" /\ out' = [out EXCEPT ![r] = Movies[r]] /\ next' = next + 1
      /\ movies' = movies /\ reqs' = reqs /\ Movies' = Movies /\ pc' = pc /\ seg' = seg
      /\ tmp' = tmp /\ crashed' = crashed
  BY DEF Collect, input
<1>3. t \in Threads /\ t[1] = r
  BY <1>1, Numbers
<1> HIDE DEF r
<1>4. Types'
  <2>1. next + 1 \in 0 .. 2 * num_of_reqs
    BY <1>0, <1>1 DEF Reqs
  <2> QED
    BY <1>0, <1>1, <1>2, <2>1 DEF Types
<1>5. \A u \in Threads : Fits(u)' /\ Family(u)' /\ Sorted(u)'
  BY <1>0, <1>2 DEF Fits, Family, Sorted, Has
<1>6. Kin'
  BY <1>0, <1>2 DEF Kin, Has, Related, Under
<1>7. ASSUME NEW q \in Reqs PROVE Asked(q)'
  <2>1. Asked(q) /\ ~(next <= q) /\ ~(next + 1 <= q)
    BY <1>0, <1>1 DEF IInv, Reqs
  <2> QED
    BY <1>2, <2>1 DEF Asked, Has
<1>8. FilesRight'
  <2>1. Asked(r) /\ Sorted(t) /\ Movies[r] \in Seq(Listed)
    BY <1>0, <1>1, <1>3 DEF IInv, Types
  <2>2. seg[t] = [st |-> 0, end |-> Len(Movies[r])] /\ Like(Filter(movies, reqs[r]), Movies[r])
    BY <1>1, <2>1 DEF Asked
  <2>3. Ordered(Movies[r])
    <3>1. Ordered(Part(Movies[r], seg[t]))
      BY <1>2, <1>3, <2>1 DEF Sorted
    <3> QED
      BY <2>1, <2>2, <3>1, Whole
  <2>4. Answers(Movies[r], movies, reqs[r])
    <3>1. Searchable(movies, reqs[r])
      BY <1>0, <1>1, ThreadSortAssumption DEF Types
    <3> QED
      BY <2>1, <2>2, <3>1, LikeAnswers
  <2>5. ASSUME NEW q \in Reqs, next' > num_of_reqs + q
        PROVE  Ordered(out'[q]) /\ Answers(out'[q], movies', reqs'[q])
    <3>1. CASE q = r
      <4>1. out'[q] = Movies[r]
        BY <1>0, <1>1, <1>2, <3>1 DEF Types
      <4> QED
        BY <1>2, <2>3, <2>4, <3>1, <4>1
    <3>2. CASE q # r
      <4>1. next > num_of_reqs + q
        <5>1. q \in Nat /\ next + 1 > num_of_reqs + q
          BY <1>2, <2>5 DEF Reqs
        <5> QED
          BY <1>0, <1>1, <3>2, <5>1
      <4>2. FilesRight /\ out'[q] = out[q]
        BY <1>0, <1>2, <3>2 DEF IInv, Types
      <4> QED
        BY <1>2, <4>1, <4>2 DEF FilesRight
    <3> QED
      BY <3>1, <3>2
  <2> QED
    BY <2>5 DEF FilesRight
<1> QED
  BY <1>4, <1>5, <1>6, <1>7, <1>8 DEF IInv

LEMMA SortNothingStep == \A t \in Threads : IInv /\ SortNothing(t) => IInv'
<1> SUFFICES ASSUME NEW t \in Threads, IInv, SortNothing(t) PROVE IInv'
  OBVIOUS
<1>0. Types /\ Fits(t) /\ Has(t) /\ pc[t] = "new"
  BY DEF IInv, SortNothing, Has
<1>1. CASE crashed' = TRUE /\ UNCHANGED pc
  <2>1. /\ movies' = movies /\ reqs' = reqs /\ Movies' = Movies /\ pc' = pc /\ seg' = seg
        /\ tmp' = tmp /\ next' = next /\ out' = out /\ crashed' \in BOOLEAN
    BY <1>1 DEF SortNothing, input
  <2>2. Types'
    BY <1>0, <2>1 DEF Types
  <2>3. \A u \in Threads : Fits(u)' /\ Family(u)' /\ Sorted(u)'
    BY <2>1 DEF IInv, Fits, Family, Sorted, Has
  <2>4. Kin' /\ \A r \in Reqs : Asked(r)'
    BY <2>1 DEF IInv, Kin, Has, Related, Under, Asked
  <2>5. FilesRight'
    BY <2>1 DEF IInv, FilesRight
  <2> QED
    BY <2>2, <2>3, <2>4, <2>5 DEF IInv
<1>2. CASE pc' = [pc EXCEPT ![t] = "done"] /\ UNCHANGED crashed
  <2>1. /\ movies' = movies /\ reqs' = reqs /\ Movies' = Movies /\ seg' = seg
        /\ tmp' = tmp /\ next' = next /\ out' = out /\ seg[t].st = seg[t].end
        /\ UNCHANGED <<input, Movies, seg, next, out, crashed>>
    BY <1>2 DEF SortNothing, input
  <2>2. tmp[t] \in Seq(Listed) /\ Len(tmp[t]) = 0 /\ tmp' = [tmp EXCEPT ![t] = tmp[t]]
    BY <1>0, <2>1, Typed DEF Fits, Types
  <2>3. pc'[t] = "done"
    BY <1>0, <1>2 DEF Types
  <2>4. Family(t)'
    BY <2>3 DEF Family
  <2>5. /\ Movies[t[1]] \in Seq(Listed) /\ seg[t] \in Segs
        /\ seg[t].st \in Nat /\ seg[t].end \in Nat
    BY <1>0, Typed
  <2>6. Sorted(t)'
    <3>1. seg[t].st <= seg[t].end /\ seg[t].end <= Len(Movies[t[1]])
          /\ seg[t].end - seg[t].st = 0
      BY <1>0, <2>1, <2>5 DEF Fits
    <3>2. Part(Movies[t[1]], seg[t]) \in Seq(Listed) /\ Len(Part(Movies[t[1]], seg[t])) = 0
      BY <2>5, <3>1, Parts
    <3>3. ASSUME NEW s \in Seq(Listed), Len(s) = 0 PROVE Ordered(s)
      <4>1. 1 .. Len(s) = {}
        BY <3>3
      <4> QED
        BY <4>1, OrderedIs
    <3>4. Ordered(Part(Movies[t[1]], seg[t]))
      BY <3>2, <3>3
    <3> QED
      BY <2>1, <2>3, <3>4 DEF Sorted
  <2>7. \A u \in Threads : ~Under(u, t)
    BY <2>1, <2>5 DEF Under, InHalf
  <2>8. "done" \in Stages \ {"none", "new"}
    BY DEF Stages
  <2> QED
    BY <1>0, <1>2, <2>1, <2>2, <2>4, <2>6, <2>7, <2>8, Moved
<1> QED
  BY <1>1, <1>2 DEF SortNothing

LEMMA SortLeafStep == \A t \in Threads : IInv /\ SortLeaf(t) => IInv'
<1> SUFFICES ASSUME NEW t \in Threads, IInv, SortLeaf(t) PROVE IInv'
  OBVIOUS
<1> DEFINE p == Part(Movies[t[1]], seg[t])
<1>0. Types /\ Fits(t) /\ Has(t) /\ pc[t] = "new"
  BY DEF IInv, SortLeaf, Has
<1>1. /\ Movies' = [Movies EXCEPT ![t[1]] = Overlay(@, seg[t].st, sort(Part(@, seg[t])))]
      /\ pc' = [pc EXCEPT ![t] = "done"] /\ seg[t].st # seg[t].end /\ tmp' = tmp
      /\ UNCHANGED <<input, seg, next, out, crashed>>
  BY DEF SortLeaf
<1>2. /\ Movies[t[1]] \in Seq(Listed) /\ seg[t] \in Segs
      /\ seg[t].st \in Nat /\ seg[t].end \in Nat /\ tmp \in [Threads -> Seq(Listed)]
  BY <1>0, Typed DEF Types
<1>3. tmp' = [tmp EXCEPT ![t] = <<>>]
  <2>1. Len(tmp[t]) = 0
    BY <1>0 DEF Fits
  <2>2. tmp[t] = <<>>
    BY <1>2, <2>1
  <2> QED
    BY <1>1, <1>2, <2>2
<1>4. p \in Seq(Listed) /\ p # <<>>
  <2>1. seg[t].st <= seg[t].end /\ seg[t].end <= Len(Movies[t[1]]) /\ seg[t].end - seg[t].st # 0
    BY <1>0, <1>1, <1>2 DEF Fits
  <2>2. p \in Seq(Listed) /\ Len(p) # 0
    BY <1>2, <2>1, Parts
  <2> QED
    BY <2>2
<1>5. Movies' = [Movies EXCEPT ![t[1]] = Overlay(@, seg[t].st, sort(p))]
  BY <1>1
<1> HIDE DEF p
<1>6. sort(p) \in Seq(Listed) /\ Like(p, sort(p)) /\ Ordered(sort(p))
  BY <1>4, SortIs
<1>7. Like(Part(Movies[t[1]], seg[t]), sort(p))
  BY <1>6 DEF p
<1> QED
  BY <1>0, <1>1, <1>3, <1>5, <1>6, <1>7, Written

LEMMA SplitStep == \A t \in Threads : IInv /\ Split(t) => IInv'
<1> SUFFICES ASSUME NEW t \in Threads, IInv, Split(t) PROVE IInv'
  OBVIOUS
<1> DEFINE l == Left(t)
           r == Right(t)
           g == seg[t]
<1>0. /\ Types /\ \A u \in Threads : Fits(u) /\ Family(u) /\ Sorted(u)
      /\ pc[t] = "new" /\ Has(t) /\ Kin
  BY DEF IInv, Split, Has
<1>1. t[2] < LastSplit /\ g \in Segs /\ g.st \in Nat /\ g.end \in Nat /\ g.end - g.st >= 2
  <2>1. t[2] \in Nat /\ LastSplit \in Nat /\ Threshold \in Nat \ {0}
    BY ThreadSortAssumption, Numbers DEF Nums
  <2>2. ~(t[2] >= LastSplit) /\ ~(g.end - g.st <= Threshold)
    BY DEF Split, Small
  <2>3. g \in Segs /\ g.st \in Nat /\ g.end \in Nat
    BY <1>0, Typed
  <2> QED
    BY <2>1, <2>2, <2>3
<1>2. /\ l \in Threads /\ l[1] = t[1] /\ l[2] # 1 /\ r \in Threads /\ r[1] = t[1] /\ r[2] # 1
      /\ l # t /\ r # t /\ l # r
  BY <1>1, Numbers
<1>3. /\ pc' = [pc EXCEPT ![t] = "joinLeft", ![l] = "new", ![r] = "new"]
      /\ seg' = [seg EXCEPT ![l] = LeftOf(g), ![r] = RightOf(g)]
      /\ movies' = movies /\ reqs' = reqs /\ Movies' = Movies /\ tmp' = tmp /\ next' = next
      /\ out' = out /\ crashed' = crashed
  BY DEF Split, input
<1>4. ~Has(l) /\ ~Has(r) /\ pc[l] = "none" /\ pc[r] = "none"
  BY <1>0, <1>1 DEF Family, Has
<1>5. /\ LeftOf(g) \in Segs /\ LeftOf(g).st = g.st /\ LeftOf(g).end = Middle(g)
      /\ RightOf(g) \in Segs /\ RightOf(g).st = Middle(g) /\ RightOf(g).end = g.end
      /\ Middle(g) \in Nat /\ g.st < Middle(g) /\ Middle(g) < g.end
  BY <1>1, Halves
<1>6. /\ InHalf(LeftOf(g), g) /\ InHalf(RightOf(g), g)
      /\ Disjoint(LeftOf(g), RightOf(g)) /\ Disjoint(RightOf(g), LeftOf(g))
      /\ Within(LeftOf(g), g) /\ Within(RightOf(g), g)
  BY <1>1, <1>5, Nesting
<1>x. /\ \A u \in Threads : u # t => Left(u) # l /\ Left(u) # r /\ Right(u) # l /\ Right(u) # r
      /\ Left(t) = l /\ Right(t) = r
  BY Numbers
<1> HIDE DEF l, r, g
<1>7. /\ pc'[t] = "joinLeft" /\ pc'[l] = "new" /\ pc'[r] = "new"
      /\ \A u \in Threads : u # t /\ u # l /\ u # r => pc'[u] = pc[u]
      /\ seg'[l] = LeftOf(g) /\ seg'[r] = RightOf(g)
      /\ \A u \in Threads : u # l /\ u # r => seg'[u] = seg[u]
      /\ seg'[t] = g /\ seg[t] = g
  BY <1>0, <1>2, <1>3 DEF Types, g
<1>8. Types'
  <2>1. "joinLeft" \in Stages /\ "new" \in Stages
    BY DEF Stages
  <2> QED
    BY <1>0, <1>3, <1>5, <2>1 DEF Types
<1>9. \A u \in Threads : u # l /\ u # r => (Has(u)' <=> Has(u))
  BY <1>0, <1>7 DEF Has
<1>10. ASSUME NEW u \in Threads PROVE Fits(u)'
  <2>1. Fits(u) /\ Fits(t) /\ g.end <= Len(Movies[t[1]]) /\ Movies[t[1]] \in Seq(Listed)
    <3>1. Fits(t) /\ Has(t) /\ Movies[t[1]] \in Seq(Listed) /\ Fits(u)
      BY <1>0, Typed
    <3> QED
      BY <1>7, <3>1 DEF Fits
  <2>2. ASSUME pc[u] = "none" PROVE Len(tmp[u]) = 0
    BY <2>1, <2>2 DEF Fits
  <2>3. CASE u = l
    <3>1. LeftOf(g).st < LeftOf(g).end /\ LeftOf(g).end <= Len(Movies[t[1]])
      BY <1>1, <1>5, <2>1
    <3> QED
      BY <1>2, <1>3, <1>4, <1>7, <2>2, <2>3, <3>1 DEF Fits
  <2>4. CASE u = r
    <3>1. RightOf(g).st < RightOf(g).end /\ RightOf(g).end <= Len(Movies[t[1]])
      BY <1>1, <1>5, <2>1
    <3> QED
      BY <1>2, <1>3, <1>4, <1>7, <2>2, <2>4, <3>1 DEF Fits
  <2>5. CASE u # l /\ u # r
    <3>1. pc'[u] = "copy" <=> pc[u] = "copy"
      BY <1>0, <1>7, <2>5
    <3> QED
      BY <1>3, <1>7, <1>9, <2>1, <2>5, <3>1 DEF Fits
  <2> QED
    BY <2>3, <2>4, <2>5
<1>11. ASSUME NEW u \in Threads PROVE Family(u)'
  <2>1. Family(u)
    BY <1>0
  <2>2. CASE u = t
    BY <1>1, <1>6, <1>7, <1>x, <2>2 DEF Family, Has, g
  <2>3. CASE u = l \/ u = r
    <3>1. u # t /\ pc[u] = "none" /\ pc'[u] = "new"
      BY <1>2, <1>4, <1>7, <2>3
    <3>2. u[2] < LastSplit => /\ Left(u) \in Threads /\ Left(u) # l /\ Left(u) # r
                              /\ Right(u) \in Threads /\ Right(u) # l /\ Right(u) # r
                              /\ ~Has(Left(u)) /\ ~Has(Right(u))
      BY <1>x, <2>1, <3>1, Numbers DEF Family
    <3>3. u[2] < LastSplit => ~Has(Left(u))' /\ ~Has(Right(u))'
      BY <1>9, <3>2
    <3> QED
      BY <3>1, <3>3 DEF Family
  <2>4. CASE u # t /\ u # l /\ u # r
    <3>1. pc'[u] = pc[u] /\ seg'[u] = seg[u]
      BY <1>7, <2>4
    <3>2. u[2] < LastSplit =>
            /\ Left(u) \in Threads /\ Left(u) # l /\ Left(u) # r
            /\ Right(u) \in Threads /\ Right(u) # l /\ Right(u) # r
      BY <1>x, <2>4, Numbers
    <3>3. \A v \in Threads : v # l /\ v # r =>
            (Has(v)' <=> Has(v)) /\ seg'[v] = seg[v] /\ (pc[v] = "done" => pc'[v] = "done")
      BY <1>0, <1>7, <1>9
    <3> QED
      BY <2>1, <3>1, <3>2, <3>3 DEF Family
  <2> QED
    BY <2>2, <2>3, <2>4
<1>12. ASSUME NEW u \in Threads PROVE Sorted(u)'
  <2>1. CASE u = t \/ u = l \/ u = r
    BY <1>7, <2>1 DEF Sorted
  <2>2. CASE u # t /\ u # l /\ u # r
    BY <1>0, <1>3, <1>7, <2>2 DEF Sorted
  <2> QED
    BY <2>1, <2>2
<1>13. ASSUME NEW u \in Threads, u # t, u # l, u # r, u[1] = t[1], Has(u)
       PROVE  Disjoint(seg[u], g) \/ (InHalf(g, seg[u]) /\ pc[u] \notin {"new", "merge", "copy", "done"})
  <2>1. Related(u, t)
    BY <1>0, <1>13 DEF Kin
  <2>2. Disjoint(seg[u], g) \/ Under(t, u)
    BY <1>0, <1>7, <2>1 DEF Related, Under
  <2> QED
    BY <1>0, <1>7, <2>2 DEF Under
<1>14. ASSUME NEW u \in Threads, u # t, u # l, u # r, u[1] = t[1], Has(u),
              NEW k \in {t, l, r}
       PROVE  Related(u, k)' /\ Related(k, u)'
  <2>1. pc'[u] = pc[u] /\ seg'[u] = seg[u] /\ seg[u] \in Segs
    BY <1>0, <1>7, <1>14 DEF Types
  <2>2. Within(seg'[k], g) /\ seg'[k] \in Segs
    <3>1. Within(g, g)
      BY <1>1 DEF Within
    <3> QED
      BY <1>1, <1>5, <1>6, <1>7, <3>1
  <2>3. CASE Disjoint(seg[u], g)
    <3>1. Disjoint(seg'[k], seg[u])
      BY <1>1, <2>1, <2>2, <2>3, Nesting
    <3>2. Disjoint(seg[u], seg'[k])
      BY <2>1, <2>2, <3>1, Nesting
    <3> QED
      BY <2>1, <3>1, <3>2 DEF Related
  <2>4. CASE InHalf(g, seg[u]) /\ pc[u] \notin {"new", "merge", "copy", "done"}
    <3>1. InHalf(seg'[k], seg[u])
      BY <1>1, <2>1, <2>2, <2>4, Nesting
    <3>2. Under(k, u)'
      BY <2>1, <2>4, <3>1 DEF Under
    <3> QED
      BY <3>2 DEF Related
  <2> QED
    BY <1>13, <1>14, <2>3, <2>4
<1>15. /\ Related(l, r)' /\ Related(r, l)' /\ Related(l, t)' /\ Related(t, l)'
       /\ Related(r, t)' /\ Related(t, r)'
  <2>1. Under(l, t)' /\ Under(r, t)'
    BY <1>6, <1>7 DEF Under
  <2>2. Disjoint(seg'[l], seg'[r]) /\ Disjoint(seg'[r], seg'[l])
    BY <1>6, <1>7
  <2> QED
    BY <2>1, <2>2 DEF Related
<1>16. Kin'
  <2> SUFFICES ASSUME NEW u \in Threads, NEW v \in Threads, u # v, u[1] = v[1],
                      Has(u)', Has(v)'
               PROVE  Related(u, v)'
    BY DEF Kin
  <2>1. CASE u \in {t, l, r} /\ v \in {t, l, r}
    BY <1>15, <2>1
  <2>2. CASE u \in {t, l, r} /\ v \notin {t, l, r}
    <3>1. v[1] = t[1] /\ Has(v)
      BY <1>2, <1>9, <2>2
    <3> QED
      BY <1>14, <2>2, <3>1
  <2>3. CASE u \notin {t, l, r} /\ v \in {t, l, r}
    <3>1. u[1] = t[1] /\ Has(u)
      BY <1>2, <1>9, <2>3
    <3> QED
      BY <1>14, <2>3, <3>1
  <2>4. CASE u \notin {t, l, r} /\ v \notin {t, l, r}
    <3>1. Has(u) /\ Has(v) /\ Related(u, v)
      BY <1>0, <1>9, <2>4 DEF Kin
    <3> QED
      BY <1>7, <2>4, <3>1 DEF Related, Under
  <2> QED
    BY <2>1, <2>2, <2>3, <2>4
<1>17. ASSUME NEW q \in Reqs PROVE Asked(q)'
  <2>1. Asked(q) /\ <<q, 1>> \in Threads /\ \A n \in Nums : <<q, n>> \in Threads
    BY Numbers DEF IInv, Threads
  <2>2. <<q, 1>> # l /\ <<q, 1>> # r
    BY <1>2
  <2>3. CASE next <= q
    <3>1. \A n \in Nums : pc[<<q, n>>] = "none"
      BY <2>1, <2>3 DEF Asked
    <3>2. t[1] # q
      <4>1. t = <<t[1], t[2]>> /\ t[2] \in Nums
        BY Numbers
      <4> QED
        BY <1>0, <3>1, <4>1
    <3>3. \A n \in Nums : <<q, n>> # t /\ <<q, n>> # l /\ <<q, n>> # r
      BY <1>2, <3>2
    <3>4. \A n \in Nums : pc'[<<q, n>>] = "none"
      BY <1>7, <2>1, <3>1, <3>3
    <3> QED
      BY <1>3, <2>3, <3>4 DEF Asked
  <2>4. CASE ~(next <= q)
    <3>1. /\ Has(<<q, 1>>) /\ seg[<<q, 1>>] = [st |-> 0, end |-> Len(Movies[q])]
          /\ Like(Filter(movies, reqs[q]), Movies[q])
      BY <2>1, <2>4 DEF Asked
    <3>2. Has(<<q, 1>>)' /\ seg'[<<q, 1>>] = seg[<<q, 1>>]
      BY <1>7, <1>9, <2>1, <2>2, <3>1
    <3> QED
      BY <1>3, <2>4, <3>1, <3>2 DEF Asked
  <2> QED
    BY <2>3, <2>4
<1>18. FilesRight'
  BY <1>3 DEF IInv, FilesRight
<1> QED
  BY <1>8, <1>10, <1>11, <1>12, <1>16, <1>17, <1>18 DEF IInv

LEMMA JoinLeftStep == \A t \in Threads : IInv /\ JoinLeft(t) => IInv'
<1> SUFFICES ASSUME NEW t \in Threads, IInv, JoinLeft(t) PROVE IInv'
  OBVIOUS
<1>0. Types /\ Fits(t) /\ Family(t) /\ Has(t) /\ pc[t] = "joinLeft" /\ pc[Left(t)] = "done"
  BY DEF IInv, JoinLeft, Has
<1>1. /\ pc' = [pc EXCEPT ![t] = "joinRight"] /\ UNCHANGED <<input, Movies, seg, next, out, crashed>>
      /\ tmp' = tmp
  BY DEF JoinLeft
<1>2. tmp[t] \in Seq(Listed) /\ Len(tmp[t]) = 0 /\ tmp' = [tmp EXCEPT ![t] = tmp[t]]
  BY <1>0, <1>1, Typed DEF Fits, Types
<1>3. pc'[t] = "joinRight" /\ \A u \in Threads : u # t => pc'[u] = pc[u]
  BY <1>0, <1>1 DEF Types
<1>4. /\ t[2] < LastSplit
      /\ Left(t) \in Threads /\ Right(t) \in Threads /\ Left(t) # t /\ Right(t) # t
  BY <1>0, Numbers DEF Family
<1>5. Family(t)'
  BY <1>0, <1>1, <1>3, <1>4 DEF Family, Has
<1>6. Sorted(t)'
  BY <1>3 DEF Sorted
<1>7. "joinRight" \in Stages \ {"none", "new"}
  BY DEF Stages
<1> QED
  BY <1>0, <1>1, <1>2, <1>5, <1>6, <1>7, Moved

\* When both have ended, so have all that worked for them.
LEMMA JoinRightStep == \A t \in Threads : IInv /\ JoinRight(t) => IInv'
<1> SUFFICES ASSUME NEW t \in Threads, IInv, JoinRight(t) PROVE IInv'
  OBVIOUS
<1>0. /\ Types /\ Fits(t) /\ Family(t) /\ Has(t) /\ Kin
      /\ pc[t] = "joinRight" /\ pc[Left(t)] = "done" /\ pc[Right(t)] = "done"
  BY DEF IInv, JoinRight, Has, Family
<1>1. /\ pc' = [pc EXCEPT ![t] = "merge"] /\ UNCHANGED <<input, Movies, seg, next, out, crashed>>
      /\ tmp' = tmp
  BY DEF JoinRight
<1>2. tmp[t] \in Seq(Listed) /\ Len(tmp[t]) = 0 /\ tmp' = [tmp EXCEPT ![t] = tmp[t]]
  BY <1>0, <1>1, Typed DEF Fits, Types
<1>3. pc'[t] = "merge" /\ \A u \in Threads : u # t => pc'[u] = pc[u]
  BY <1>0, <1>1 DEF Types
<1>4. /\ t[2] < LastSplit /\ seg[t].end - seg[t].st >= 2
      /\ seg[Left(t)] = LeftOf(seg[t]) /\ seg[Right(t)] = RightOf(seg[t])
      /\ Left(t) \in Threads /\ Right(t) \in Threads /\ Left(t) # t /\ Right(t) # t
      /\ Left(t)[1] = t[1] /\ Right(t)[1] = t[1]
  BY <1>0, Numbers DEF Family
<1>5. Family(t)'
  BY <1>0, <1>1, <1>3, <1>4 DEF Family, Has
<1>6. Sorted(t)'
  BY <1>3 DEF Sorted
<1>7. "merge" \in Stages \ {"none", "new"}
  BY DEF Stages
<1>8. ASSUME NEW u \in Threads, u # t, u[1] = t[1], Has(u), Under(u, t)
      PROVE  pc[u] = "done"
  <2>1. /\ seg[u] \in Segs /\ seg[t] \in Segs /\ Fits(u)
        /\ seg[u].st \in Nat /\ seg[u].end \in Nat /\ seg[t].st \in Nat /\ seg[t].end \in Nat
    BY <1>0, Typed DEF IInv
  <2>2. seg[u].st < seg[u].end
    <3>1. seg[u].st < seg[u].end \/ Movies[t[1]] = <<>>
      BY <1>8, <2>1 DEF Fits
    <3>2. seg[t].end <= Len(Movies[t[1]])
      BY <1>0 DEF Fits
    <3>3. Movies[t[1]] # <<>>
      <4>1. Len(<<>>) = 0
        OBVIOUS
      <4> QED
        BY <1>4, <2>1, <3>2, <4>1
    <3> QED
      BY <3>1, <3>3
  <2>3. PICK k \in {Left(t), Right(t)} : Within(seg[u], seg[k])
    BY <1>4, <1>8 DEF Under, InHalf
  <2>4. k \in Threads /\ k[1] = t[1] /\ pc[k] = "done" /\ Has(k) /\ seg[k] \in Segs
    BY <1>0, <1>4, Typed DEF Has
  <2>5. CASE u = k
    BY <2>4, <2>5
  <2>6. CASE u # k
    <3>1. Related(u, k)
      BY <1>0, <1>8, <2>4, <2>6 DEF Kin
    <3>2. ~Disjoint(seg[u], seg[k])
      BY <2>1, <2>2, <2>3, <2>4, Nesting
    <3>3. ~InHalf(seg[k], seg[u])
      BY <2>1, <2>2, <2>3, <2>4, Nesting
    <3> QED
      BY <2>4, <3>1, <3>2, <3>3 DEF Related, Under
  <2> QED
    BY <2>5, <2>6
<1> QED
  BY <1>0, <1>1, <1>2, <1>5, <1>6, <1>7, <1>8, Moved

LEMMA MergeLists == \A t \in Threads : IInv /\ Merge(t) => IInv'
<1> SUFFICES ASSUME NEW t \in Threads, IInv, Merge(t) PROVE IInv'
  OBVIOUS
<1> DEFINE s == Movies[t[1]]
           g == seg[t]
           x == Part(s, LeftOf(g))
           y == Part(s, RightOf(g))
           w == merge(x, y)
<1>0. /\ Types /\ Fits(t) /\ Family(t) /\ Has(t) /\ pc[t] = "merge"
      /\ \A u \in Threads : Sorted(u)
  BY DEF IInv, Merge, Has
<1>1. /\ pc' = [pc EXCEPT ![t] = "copy"] /\ UNCHANGED <<input, Movies, seg, next, out, crashed>>
      /\ tmp' = [tmp EXCEPT ![t] = w]
  BY DEF Merge
<1>2. /\ t[2] < LastSplit /\ g.end - g.st >= 2
      /\ seg[Left(t)] = LeftOf(g) /\ seg[Right(t)] = RightOf(g)
      /\ pc[Left(t)] = "done" /\ pc[Right(t)] = "done"
      /\ Left(t) \in Threads /\ Right(t) \in Threads /\ Left(t) # t /\ Right(t) # t
      /\ Left(t)[1] = t[1] /\ Right(t)[1] = t[1]
  BY <1>0, Numbers DEF Family
<1>3. Ordered(x) /\ Ordered(y)
  <2>1. Sorted(Left(t)) /\ Sorted(Right(t))
    BY <1>0, <1>2
  <2> QED
    BY <1>2, <2>1 DEF Sorted
<1>4. /\ s \in Seq(Listed) /\ g \in Segs /\ g.st \in Nat /\ g.end \in Nat
      /\ g.end <= Len(s)
  BY <1>0, Typed DEF Fits
<1>5. PICK a \in Nat, b \in Nat, c \in Nat :
        /\ a = g.st /\ b = Middle(g) /\ c = g.end /\ a < b /\ b < c
        /\ LeftOf(g).st = a /\ LeftOf(g).end = b /\ RightOf(g).st = b /\ RightOf(g).end = c
  BY <1>2, <1>4, Halves
<1>6. /\ x = SubSeq(s, a + 1, b) /\ y = SubSeq(s, b + 1, c) /\ Part(s, g) = SubSeq(s, a + 1, c)
  BY <1>5 DEF Part
<1>7. PICK n \in Nat : n = Len(s) /\ a <= b /\ b <= c /\ a <= c /\ b <= n /\ c <= n
  BY <1>4, <1>5
<1> HIDE DEF s, g, x, y
<1>8. /\ Part(s, g) = x \o y /\ x \in Seq(Listed) /\ y \in Seq(Listed)
      /\ Len(x) = b - a /\ Len(y) = c - b
  <2>1. SubSeq(s, a + 1, c) = SubSeq(s, a + 1, b) \o SubSeq(s, b + 1, c)
    BY <1>4, <1>7, CutInTwo
  <2>2. SubSeq(s, a + 1, b) \in Seq(Listed) /\ Len(SubSeq(s, a + 1, b)) = b - a
    BY <1>4, <1>7, Segment
  <2>3. SubSeq(s, b + 1, c) \in Seq(Listed) /\ Len(SubSeq(s, b + 1, c)) = c - b
    BY <1>4, <1>7, Segment
  <2> QED
    BY <1>6, <2>1, <2>2, <2>3
<1>9. w \in Seq(Listed) /\ Len(w) = Len(x) + Len(y) /\ Like(x \o y, w) /\ Ordered(w)
  BY <1>3, <1>8, MergeType, MergeLike, MergeOrdered
<1> HIDE DEF w
<1>10. Len(w) = g.end - g.st
  <2>1. (b - a) + (c - b) = c - a
    OBVIOUS
  <2>2. Len(w) = c - a
    BY <1>8, <1>9, <2>1
  <2> QED
    BY <1>5, <2>2
<1>11. /\ pc'[t] = "copy" /\ tmp'[t] = w /\ \A u \in Threads : u # t => pc'[u] = pc[u]
  BY <1>0, <1>1 DEF Types
<1>12. Family(t)'
  BY <1>0, <1>1, <1>2, <1>11 DEF Family, Has
<1>13. Sorted(t)'
  BY <1>1, <1>8, <1>9, <1>11 DEF Sorted, s, g
<1>14. "copy" \in Stages \ {"none", "new"}
  BY DEF Stages
<1>15. \A u \in Threads : Under(u, t) => pc[u] = "done"
  BY <1>0 DEF Under
<1>16. Len(w) = IF "copy" = "copy" THEN seg[t].end - seg[t].st ELSE 0
  BY <1>10 DEF g
<1> QED
  BY <1>0, <1>1, <1>9, <1>12, <1>13, <1>14, <1>15, <1>16, Moved

LEMMA CopyBackStep == \A t \in Threads : IInv /\ CopyBack(t) => IInv'
<1> SUFFICES ASSUME NEW t \in Threads, IInv, CopyBack(t) PROVE IInv'
  OBVIOUS
<1>0. Types /\ Sorted(t) /\ pc[t] = "copy"
  BY DEF IInv, CopyBack
<1>1. tmp[t] \in Seq(Listed) /\ Ordered(tmp[t]) /\ Like(Part(Movies[t[1]], seg[t]), tmp[t])
  BY <1>0, Typed DEF Sorted
<1>2. /\ Movies' = [Movies EXCEPT ![t[1]] = Overlay(@, seg[t].st, tmp[t])]
      /\ tmp' = [tmp EXCEPT ![t] = <<>>] /\ pc' = [pc EXCEPT ![t] = "done"]
      /\ UNCHANGED <<input, seg, next, out, crashed>>
  BY DEF CopyBack
<1> QED
  BY <1>0, <1>1, <1>2, Written

LEMMA NextIInv == IInv /\ [Next]_vars => IInv'
<1> SUFFICES ASSUME IInv, [Next]_vars PROVE IInv'
  OBVIOUS
<1>1. CASE Create
  BY <1>1, CreateStep
<1>2. CASE Collect
  BY <1>2, CollectStep
<1>3. ASSUME NEW t \in Threads, Tmerge(t) PROVE IInv'
  BY <1>3, SortNothingStep, SortLeafStep, SplitStep, JoinLeftStep, JoinRightStep, MergeLists,
     CopyBackStep DEF Tmerge
<1>4. CASE UNCHANGED vars
  <2>1. /\ movies' = movies /\ reqs' = reqs /\ Movies' = Movies /\ pc' = pc /\ seg' = seg
        /\ tmp' = tmp /\ next' = next /\ out' = out /\ crashed' = crashed
    BY <1>4 DEF vars, input
  <2>2. Types'
    BY <2>1 DEF IInv, Types
  <2>3. \A u \in Threads : Fits(u)' /\ Family(u)' /\ Sorted(u)'
    BY <2>1 DEF IInv, Fits, Family, Sorted, Has
  <2>4. Kin' /\ \A r \in Reqs : Asked(r)'
    BY <2>1 DEF IInv, Kin, Has, Related, Under, Asked
  <2>5. FilesRight'
    BY <2>1 DEF IInv, FilesRight
  <2> QED
    BY <2>2, <2>3, <2>4, <2>5 DEF IInv
<1> QED
  BY <1>1, <1>2, <1>3, <1>4 DEF Next

LEMMA Inductive == Spec => []IInv
BY InitIInv, NextIInv, PTL DEF Spec

-----------------------------------------------------------------------------
(* What follows.                                                           *)

\* The variables have their types, each thread has a segment of its request's
\* array, and only a list without a movie has an empty one.
THEOREM ThreadSortTypes == Spec => []TypeOK
<1>1. IInv => TypeOK
  <2> SUFFICES ASSUME IInv PROVE TypeOK
    OBVIOUS
  <2>1. Types /\ \A t \in Threads : Fits(t)
    BY DEF IInv
  <2>2. \A t \in Threads : 0 <= seg[t].st
    BY <2>1, Typed
  <2> QED
    BY <2>1, <2>2 DEF TypeOK, Types, Stages, Fits, Has
<1> QED
  BY <1>1, Inductive, PTL

\* The threads of Tmerge need no lock: those that may read or write the shared
\* array at the same time have no position in common (server.c:149, 165-192).
THEOREM NoLockNeeded == Spec => []NoSharedPosition
<1>1. IInv => NoSharedPosition
  <2> SUFFICES ASSUME IInv, NEW t \in Threads, NEW u \in Threads, t # u, t[1] = u[1],
                      Working(t), Working(u)
               PROVE  seg[t].end <= seg[u].st \/ seg[u].end <= seg[t].st
    BY DEF NoSharedPosition
  <2>1. Related(t, u)
    BY DEF IInv, Kin, Has, Working
  <2> QED
    BY <2>1 DEF Related, Under, Disjoint, Working
<1> QED
  BY <1>1, Inductive, PTL

\* Each file has exactly the movies of its request, by falling score and, among
\* equal scores, rising title (server.c:68-75).
THEOREM AnswersInOrder == Spec => []FilesRight
<1>1. IInv => FilesRight
  BY DEF IInv
<1> QED
  BY <1>1, Inductive, PTL
=============================================================================
