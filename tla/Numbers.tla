------------------------------ MODULE Numbers -------------------------------
(***************************************************************************)
(* Facts about numbers: induction by the least counterexample, functions   *)
(* that are defined by recursion, and remainders around zero.              *)
(***************************************************************************)
EXTENDS Integers, TLAPS, WellFoundedInduction

\* A set of numbers has a least one.
LEMMA Least ==
  ASSUME NEW T, T \subseteq Nat, T # {}
  PROVE  \E n \in T : \A m \in T : n <= m
<1>1. IsWellFoundedOn(OpToRel(<, Nat), Nat)
  BY NatLessThanWellFounded
<1>2. \A m, n \in Nat : m < n => <<m, n>> \in OpToRel(<, Nat)
  BY DEF OpToRel
<1>3. PICK R : IsWellFoundedOn(R, Nat) /\ \A m, n \in Nat : m < n => <<m, n>> \in R
  BY <1>1, <1>2
<1>4. IsWellFoundedOn(R, Nat)
  BY <1>3
<1>5. \E n \in T : \A m \in T : ~(<<m, n>> \in R)
  BY <1>4, WFMin, Zenon
<1>6. PICK n \in T : \A m \in T : ~(<<m, n>> \in R)
  BY <1>5
<1>7. ASSUME NEW m \in T PROVE n <= m
  <2>1. m \in Nat /\ n \in Nat /\ ~(m < n)
    BY <1>3, <1>6
  <2> QED
    BY <2>1
<1> QED
  BY <1>7

\* A set that holds 0, and with every number the next one, holds them all.
LEMMA Induction ==
  ASSUME NEW T, 0 \in T, \A n \in Nat : n \in T => n + 1 \in T
  PROVE  \A n \in Nat : n \in T
<1> SUFFICES ASSUME Nat \ T # {} PROVE FALSE
  OBVIOUS
<1>1. PICK n \in Nat \ T : \A m \in Nat \ T : n <= m
  BY Least
<1>2. n - 1 \in Nat /\ n - 1 \notin Nat \ T
  BY <1>1
<1> QED
  BY <1>1, <1>2

\* The same up to a bound.
LEMMA InductionTo ==
  ASSUME NEW N \in Nat, NEW T, 0 \in T,
         \A n \in 0 .. N - 1 : n \in T => n + 1 \in T
  PROVE  \A n \in 0 .. N : n \in T
<1> DEFINE U == {n \in Nat : n <= N => n \in T}
<1>1. \A n \in Nat : n \in U => n + 1 \in U
  OBVIOUS
<1>2. 0 \in U
  OBVIOUS
<1> HIDE DEF U
<1>3. \A n \in Nat : n \in U
  BY <1>1, <1>2, Induction
<1> QED
  BY <1>3 DEF U

\* f begins with b and goes on with the steps of g.
Steps(S) == [Nat -> [S -> S]]
Recurs(f, S, b, g) ==
  f \in [Nat -> S] /\ f[0] = b /\ \A n \in Nat : f[n + 1] = g[n][f[n]]

LEMMA Recursion ==
  ASSUME NEW S, NEW b \in S, NEW g \in Steps(S)
  PROVE  \E f : Recurs(f, S, b, g)
<1> DEFINE Upto(n) == {f \in [0 .. n -> S] :
                        /\ f[0] = b
                        /\ \A k \in 0 .. n - 1 : f[k + 1] = g[k][f[k]]}
           Built == {n \in Nat : Upto(n) # {}}
<1>0. g \in [Nat -> [S -> S]]
  BY DEF Steps
<1>1. 0 \in Built
  <2>1. [k \in 0 .. 0 |-> b] \in Upto(0)
    OBVIOUS
  <2> QED
    BY <2>1
<1>2. ASSUME NEW n \in Nat, n \in Built PROVE n + 1 \in Built
  <2>1. PICK f \in [0 .. n -> S] :
          f[0] = b /\ \A k \in 0 .. n - 1 : f[k + 1] = g[k][f[k]]
    BY <1>2
  <2> DEFINE h == [k \in 0 .. n + 1 |-> IF k = n + 1 THEN g[n][f[n]] ELSE f[k]]
  <2>2. h \in [0 .. n + 1 -> S] /\ h[0] = b
    BY <1>0, <2>1
  <2>3. ASSUME NEW k \in 0 .. n PROVE h[k + 1] = g[k][h[k]]
    <3>1. CASE k = n
      <4>1. n \in 0 .. n + 1 /\ n + 1 \in 0 .. n + 1 /\ n # n + 1
        OBVIOUS
      <4>2. h[n] = f[n] /\ h[n + 1] = g[n][f[n]]
        BY <4>1
      <4> QED
        BY <3>1, <4>2
    <3>2. CASE k # n
      <4>1. k \in 0 .. n - 1 /\ k + 1 \in 0 .. n /\ k + 1 # n + 1
        BY <3>2
      <4>2. h[k + 1] = f[k + 1] /\ h[k] = f[k]
        BY <4>1
      <4> QED
        BY <2>1, <4>1, <4>2
    <3> QED
      BY <3>1, <3>2
  <2> HIDE DEF h
  <2>4. 0 .. (n + 1) - 1 = 0 .. n
    OBVIOUS
  <2>5. h \in Upto(n + 1)
    BY <2>2, <2>3, <2>4
  <2> QED
    BY <2>5
<1>3. \A n \in Nat : Upto(n) # {}
  <2> HIDE DEF Built
  <2>1. \A n \in Nat : n \in Built
    BY <1>1, <1>2, Induction
  <2> QED
    BY <2>1 DEF Built
<1>4. ASSUME NEW m \in Nat, NEW n \in Nat, m <= n, NEW f \in Upto(m), NEW h \in Upto(n)
      PROVE  \A k \in 0 .. m : f[k] = h[k]
  <2> DEFINE Same == {k \in Nat : f[k] = h[k]}
  <2>1. 0 \in Same
    OBVIOUS
  <2>2. ASSUME NEW k \in 0 .. m - 1, k \in Same PROVE k + 1 \in Same
    <3>1. f[k + 1] = g[k][f[k]] /\ h[k + 1] = g[k][h[k]]
      BY <1>4
    <3> QED
      BY <3>1, <2>2
  <2> HIDE DEF Same, Upto
  <2>3. \A k \in 0 .. m : k \in Same
    BY <2>1, <2>2, InductionTo
  <2> QED
    BY <2>3 DEF Same
<1> DEFINE e(n) == CHOOSE f : f \in Upto(n)
           F == [n \in Nat |-> e(n)[n]]
<1>5. \A n \in Nat : e(n) \in Upto(n)
  <2> HIDE DEF Upto
  <2> QED
    BY <1>3
<1>6. F \in [Nat -> S] /\ F[0] = b
  <2> HIDE DEF e
  <2>1. \A n \in Nat : n \in 0 .. n
    OBVIOUS
  <2>2. \A n \in Nat : e(n)[n] \in S
    BY <1>5, <2>1
  <2>3. e(0)[0] = b
    BY <1>5
  <2> QED
    BY <2>2, <2>3
<1>7. ASSUME NEW n \in Nat PROVE F[n + 1] = g[n][F[n]]
  <2> HIDE DEF e
  <2>1. e(n) \in Upto(n) /\ e(n + 1) \in Upto(n + 1) /\ n <= n + 1 /\ n + 1 \in Nat
    BY <1>5
  <2>2. e(n)[n] = e(n + 1)[n]
    <3> HIDE DEF Upto
    <3>1. \A k \in 0 .. n : e(n)[k] = e(n + 1)[k]
      BY <1>4, <2>1
    <3> QED
      BY <3>1
  <2>3. e(n + 1)[n + 1] = g[n][e(n + 1)[n]]
    BY <2>1
  <2> QED
    BY <2>2, <2>3
<1> HIDE DEF F
<1> QED
  BY <1>6, <1>7 DEF Recurs

-----------------------------------------------------------------------------
(* Remainders around zero, as the overflow of a signed number leaves them. *)

Around(h, n) == ((n + h) % (2 * h)) - h

LEMMA Quotient ==
  ASSUME NEW n \in Int, NEW m \in Int, m > 0
  PROVE  n \div m \in Int /\ n % m \in 0 .. m - 1 /\ n = m * (n \div m) + (n % m)
  OBVIOUS

LEMMA AroundRange ==
  ASSUME NEW h \in Nat \ {0}, NEW n \in Int
  PROVE  Around(h, n) \in -h .. h - 1 /\ \E k \in Int : n = Around(h, n) + (2 * h) * k
<1> DEFINE M == 2 * h
           q == (n + h) \div M
           r == (n + h) % M
<1>1. M \in Int /\ M > 0 /\ M = 2 * h
  OBVIOUS
<1>2. n + h \in Int
  OBVIOUS
<1> HIDE DEF M
<1>3. q \in Int /\ r \in 0 .. M - 1 /\ n + h = M * q + r
  BY <1>1, <1>2, Quotient
<1>4. Around(h, n) = r - h
  BY <1>1 DEF Around
<1> HIDE DEF q, r
<1>5. Around(h, n) \in -h .. h - 1
  BY <1>1, <1>3, <1>4
<1>6. n = Around(h, n) + M * q
  <2>1. M * q \in Int
    BY <1>1, <1>3
  <2> QED
    BY <2>1, <1>3, <1>4
<1> QED
  BY <1>1, <1>3, <1>5, <1>6

LEMMA AroundUnique ==
  ASSUME NEW h \in Nat \ {0}, NEW n \in Int, NEW m \in -h .. h - 1, NEW k \in Int,
         n = m + (2 * h) * k
  PROVE  Around(h, n) = m
<1>1. PICK j \in Int : n = Around(h, n) + (2 * h) * j
  BY AroundRange
<1>2. Around(h, n) \in -h .. h - 1
  BY AroundRange
<1> DEFINE w == Around(h, n)
           M == 2 * h
<1>3. M \in Nat /\ M > 0 /\ m - w \in Int /\ -M < m - w /\ m - w < M
  BY <1>2
<1>4. m - w = M * (j - k)
  <2>1. w \in Int /\ m \in Int /\ M \in Int
    BY <1>2
  <2>2. m + M * k = w + M * j
    BY <1>1
  <2> HIDE DEF w, M
  <2>3. M * (j - k) = M * j - M * k
    BY <2>1
  <2>4. M * j \in Int /\ M * k \in Int
    BY <2>1
  <2> QED
    BY <2>1, <2>2, <2>3, <2>4
<1>5. j - k = 0
  <2> HIDE DEF M, w
  <2>1. j - k >= 1 => M * (j - k) >= M
    BY <1>3
  <2>2. j - k <= -1 => M * (j - k) <= -M
    BY <1>3
  <2> QED
    BY <1>3, <1>4, <2>1, <2>2
<1>6. m - w = 0
  BY <1>3, <1>4, <1>5
<1> QED
  BY <1>2, <1>6
=============================================================================
