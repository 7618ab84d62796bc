----------------------- MODULE ThreadFunctionsProofs ------------------------
(***************************************************************************)
(* Proofs about Scheduler and ThreadFunctions, for any threads, readers,   *)
(* numbers and times.  First Scheduler: its queues, the input of its       *)
(* readers and its clock.  Then ThreadFunctions: its steps are steps of    *)
(* Scheduler, so that what holds there holds here, and what a thread       *)
(* prints is what its function computes alone.                             *)
(***************************************************************************)
EXTENDS ThreadFunctions, Numbers, SequenceTheorems, FiniteSetTheorems

-----------------------------------------------------------------------------
(* What the scheduler does with its queues.                                *)

Elems(q) == {q[n] : n \in DOMAIN q}
Once(q)  == \A m, n \in DOMAIN q : q[m] = q[n] => m = n

LEMMA SeqFacts ==
  ASSUME NEW S, NEW q \in Seq(S)
  PROVE  /\ Len(q) \in Nat /\ DOMAIN q = 1 .. Len(q)
         /\ \A n \in 1 .. Len(q) : q[n] \in S
         /\ Elems(q) = {q[n] : n \in 1 .. Len(q)} /\ Elems(q) \subseteq S
         /\ q # <<>> <=> Len(q) > 0
         /\ q # <<>> <=> Elems(q) # {}
  BY DEF Elems

\* A finite set of numbers has an n-th element, for each n up to its size.
LEMMA NthElement ==
  ASSUME NEW S, S \subseteq Nat, IsFiniteSet(S)
  PROVE  /\ \A k \in 1 .. Cardinality(S) : Nth(S, k) \in S
         /\ \A j, k \in 1 .. Cardinality(S) : Nth(S, j) = Nth(S, k) => j = k
         /\ \A n \in S : \E k \in 1 .. Cardinality(S) : Nth(S, k) = n
<1> DEFINE Below(n) == {m \in S : m < n}
           rank == [n \in S |-> Cardinality(Below(n))]
           N == Cardinality(S)
<1>0. N \in Nat
  BY FS_CardinalityType
<1>1. ASSUME NEW n \in S
      PROVE  IsFiniteSet(Below(n)) /\ rank[n] \in 0 .. N - 1
  <2>1. IsFiniteSet(S \ {n}) /\ Cardinality(S \ {n}) = N - 1
    BY FS_RemoveElement
  <2>2. Below(n) \in SUBSET (S \ {n})
    OBVIOUS
  <2>3. IsFiniteSet(Below(n)) /\ Cardinality(Below(n)) <= N - 1
    BY <2>1, <2>2, FS_Subset
  <2>4. Cardinality(Below(n)) \in Nat
    BY <2>3, FS_CardinalityType
  <2> QED
    BY <2>3, <2>4, <1>0
<1>2. ASSUME NEW m \in S, NEW n \in S, m < n
      PROVE  rank[m] < rank[n]
  <2>0. m \in Nat /\ n \in Nat
    OBVIOUS
  <2>1. Below(m) \cup {m} \in SUBSET Below(n) /\ m \notin Below(m)
    <3>1. \A k \in Below(m) : k \in Nat /\ k \in S /\ k < m
      OBVIOUS
    <3>2. \A k \in Below(m) : k \in S /\ k < n
      BY <3>1, <2>0, <1>2
    <3>3. m \in Below(n) /\ m \notin Below(m)
      BY <2>0, <1>2
    <3> QED
      BY <3>2, <3>3
  <2>2. Cardinality(Below(m) \cup {m}) = Cardinality(Below(m)) + 1
    BY <1>1, <2>1, FS_AddElement
  <2>3. Cardinality(Below(m) \cup {m}) <= Cardinality(Below(n))
    BY <1>1, <2>1, FS_Subset
  <2>4. rank[m] \in Int /\ rank[n] \in Int
    BY <1>1
  <2> QED
    BY <2>2, <2>3, <2>4
<1>3. \A m, n \in S : rank[m] = rank[n] => m = n
  <2> SUFFICES ASSUME NEW m \in S, NEW n \in S, m # n PROVE rank[m] # rank[n]
    OBVIOUS
  <2>1. m < n \/ n < m
    OBVIOUS
  <2>2. rank[m] \in Int /\ rank[n] \in Int
    BY <1>1
  <2> QED
    BY <2>1, <2>2, <1>2
<1>4. rank \in Injection(S, 0 .. N - 1)
  BY <1>1, <1>3 DEF Injection, IsInjective
<1>5. IsFiniteSet(0 .. N - 1) /\ Cardinality(0 .. N - 1) = N
  <2>1. 0 \in Int /\ N - 1 \in Int
    BY <1>0
  <2>2. IsFiniteSet(0 .. N - 1)
        /\ Cardinality(0 .. N - 1) = IF 0 > N - 1 THEN 0 ELSE (N - 1) - 0 + 1
    BY <2>1, FS_Interval
  <2> QED
    BY <2>2, <1>0
<1>6. rank \in Surjection(S, 0 .. N - 1)
  BY <1>4, <1>5, FS_Injection
<1>7. ASSUME NEW k \in 1 .. N
      PROVE  Nth(S, k) \in S /\ rank[Nth(S, k)] = k - 1
  <2>1. k - 1 \in 0 .. N - 1
    BY <1>0
  <2>2. \E n \in S : rank[n] = k - 1
    BY <1>6, <2>1 DEF Surjection
  <2>3. \E n \in S : Cardinality({m \in S : m < n}) = k - 1
    BY <2>2
  <2> QED
    BY <2>3 DEF Nth
<1> HIDE DEF N, rank
<1>8. ASSUME NEW n \in S
      PROVE  \E k \in 1 .. N : Nth(S, k) = n
  <2>1. rank[n] + 1 \in 1 .. N /\ rank[n] \in Int
    BY <1>1, <1>0 DEF rank
  <2>2. Nth(S, rank[n] + 1) \in S /\ rank[Nth(S, rank[n] + 1)] = rank[n]
    BY <2>1, <1>7
  <2>3. Nth(S, rank[n] + 1) = n
    BY <2>2, <1>3
  <2> QED
    BY <2>1, <2>3
<1>9. ASSUME NEW j \in 1 .. N, NEW k \in 1 .. N, Nth(S, j) = Nth(S, k)
      PROVE  j = k
  <2>1. j - 1 = k - 1
    BY <1>7, <1>9
  <2> QED
    BY <2>1, <1>0
<1> QED
  BY <1>7, <1>8, <1>9 DEF N

\* The threads at the positions S of the waiting queue, each of them once.
LEMMA WaitingThreads ==
  ASSUME NEW T, waiting_queue \in Seq(T), Once(waiting_queue),
         NEW S, S \subseteq DOMAIN waiting_queue
  PROVE  /\ Waiting(S) \in Seq(T) /\ Once(Waiting(S))
         /\ Elems(Waiting(S)) = {waiting_queue[n] : n \in S}
<1> DEFINE N == Cardinality(S)
<1>1. DOMAIN waiting_queue = 1 .. Len(waiting_queue) /\ Len(waiting_queue) \in Nat
  OBVIOUS
<1>2. S \subseteq Nat /\ IsFiniteSet(S)
  <2>1. IsFiniteSet(1 .. Len(waiting_queue))
    BY <1>1, FS_Interval
  <2> QED
    BY <1>1, <2>1, FS_Subset
<1>3. N \in Nat
  BY <1>2, FS_CardinalityType
<1>4. /\ \A k \in 1 .. N : Nth(S, k) \in S
      /\ \A j, k \in 1 .. N : Nth(S, j) = Nth(S, k) => j = k
      /\ \A n \in S : \E k \in 1 .. N : Nth(S, k) = n
  BY <1>2, NthElement
<1>5. /\ Waiting(S) = [k \in 1 .. N |-> waiting_queue[Nth(S, k)]]
      /\ \A k \in 1 .. N : waiting_queue[Nth(S, k)] \in T
  BY <1>1, <1>4 DEF Waiting
<1> HIDE DEF N
<1>6. Waiting(S) \in Seq(T)
  BY <1>3, <1>5
<1>7. DOMAIN Waiting(S) = 1 .. N
      /\ \A k \in 1 .. N : Waiting(S)[k] = waiting_queue[Nth(S, k)]
  BY <1>5
<1>8. Once(Waiting(S))
  BY <1>4, <1>7 DEF Once
<1>9. Elems(Waiting(S)) = {waiting_queue[n] : n \in S}
  BY <1>4, <1>7 DEF Elems
<1> QED
  BY <1>6, <1>8, <1>9

\* select() divides the waiting queue into the woken and the sleeping threads.
LEMMA Division ==
  ASSUME NEW T, waiting_queue \in Seq(T), Once(waiting_queue)
  PROVE  /\ Woken \in Seq(T) /\ Once(Woken)
         /\ Elems(Woken) = {t \in Elems(waiting_queue) : HasInput(t)}
         /\ Asleep \in Seq(T) /\ Once(Asleep)
         /\ Elems(Asleep) = Elems(waiting_queue) \ Elems(Woken)
<1> DEFINE W == {n \in DOMAIN waiting_queue : HasInput(waiting_queue[n])}
           A == {n \in DOMAIN waiting_queue : ~HasInput(waiting_queue[n])}
<1>1. Woken \in Seq(T) /\ Once(Woken) /\ Elems(Woken) = {waiting_queue[n] : n \in W}
  <2>1. W \subseteq DOMAIN waiting_queue
    OBVIOUS
  <2> QED
    BY <2>1, WaitingThreads DEF Woken
<1>2. Asleep \in Seq(T) /\ Once(Asleep) /\ Elems(Asleep) = {waiting_queue[n] : n \in A}
  <2>1. A \subseteq DOMAIN waiting_queue
    OBVIOUS
  <2> QED
    BY <2>1, WaitingThreads DEF Asleep
<1>3. {waiting_queue[n] : n \in W} = {t \in Elems(waiting_queue) : HasInput(t)}
  BY DEF Elems
<1>4. {waiting_queue[n] : n \in A} = {t \in Elems(waiting_queue) : ~HasInput(t)}
  BY DEF Elems
<1> HIDE DEF W, A
<1> QED
  BY <1>1, <1>2, <1>3, <1>4

\* Two queues without a common thread are joined.
LEMMA Joined ==
  ASSUME NEW T, NEW q \in Seq(T), NEW w \in Seq(T), Once(q), Once(w),
         Elems(q) \cap Elems(w) = {}
  PROVE  /\ q \o w \in Seq(T) /\ Len(q \o w) = Len(q) + Len(w)
         /\ Once(q \o w) /\ Elems(q \o w) = Elems(q) \cup Elems(w)
         /\ \A n \in 1 .. Len(q) : (q \o w)[n] = q[n]
<1>1. /\ q \o w \in Seq(T) /\ Len(q \o w) = Len(q) + Len(w)
      /\ \A n \in 1 .. Len(q) + Len(w) :
           (q \o w)[n] = IF n <= Len(q) THEN q[n] ELSE w[n - Len(q)]
  BY ConcatProperties
<1>2. /\ Len(q) \in Nat /\ Len(w) \in Nat
      /\ DOMAIN q = 1 .. Len(q) /\ DOMAIN w = 1 .. Len(w)
      /\ DOMAIN (q \o w) = 1 .. Len(q) + Len(w)
  BY <1>1
<1>3. Elems(q \o w) = Elems(q) \cup Elems(w)
  <2>1. ASSUME NEW n \in 1 .. Len(q) + Len(w)
        PROVE  (q \o w)[n] \in Elems(q) \cup Elems(w)
    <3>1. CASE n <= Len(q)
      BY <1>1, <1>2, <3>1 DEF Elems
    <3>2. CASE n > Len(q)
      <4>1. n - Len(q) \in 1 .. Len(w)
        BY <1>2, <3>2
      <4> QED
        BY <1>1, <1>2, <3>2, <4>1 DEF Elems
    <3> QED
      BY <1>2, <3>1, <3>2
  <2>2. ASSUME NEW n \in 1 .. Len(q)
        PROVE  q[n] \in Elems(q \o w)
    <3>1. n \in 1 .. Len(q) + Len(w) /\ (q \o w)[n] = q[n]
      BY <1>1, <1>2
    <3> QED
      BY <1>2, <3>1 DEF Elems
  <2>3. ASSUME NEW n \in 1 .. Len(w)
        PROVE  w[n] \in Elems(q \o w)
    <3>1. n + Len(q) \in 1 .. Len(q) + Len(w) /\ (q \o w)[n + Len(q)] = w[n]
      BY <1>1, <1>2
    <3> QED
      BY <1>2, <3>1 DEF Elems
  <2>4. \A t \in Elems(q \o w) : t \in Elems(q) \cup Elems(w)
    BY <1>2, <2>1 DEF Elems
  <2>5. \A t \in Elems(q) \cup Elems(w) : t \in Elems(q \o w)
    BY <1>2, <2>2, <2>3 DEF Elems
  <2> QED
    BY <2>4, <2>5
<1>4. Once(q \o w)
  <2> SUFFICES ASSUME NEW m \in 1 .. Len(q) + Len(w), NEW n \in 1 .. Len(q) + Len(w),
                      (q \o w)[m] = (q \o w)[n]
               PROVE  m = n
    BY <1>2 DEF Once
  <2>1. CASE m <= Len(q) /\ n <= Len(q)
    BY <1>1, <1>2, <2>1 DEF Once
  <2>2. CASE m > Len(q) /\ n > Len(q)
    <3>1. m - Len(q) \in 1 .. Len(w) /\ n - Len(q) \in 1 .. Len(w)
      BY <1>2, <2>2
    <3>2. w[m - Len(q)] = w[n - Len(q)]
      BY <1>1, <1>2, <2>2
    <3>3. m - Len(q) = n - Len(q)
      BY <1>2, <3>1, <3>2 DEF Once
    <3> QED
      BY <1>2, <3>3
  <2>3. ASSUME NEW j \in 1 .. Len(q), NEW k \in Len(q) + 1 .. Len(q) + Len(w)
        PROVE  (q \o w)[j] # (q \o w)[k]
    <3>1. (q \o w)[j] \in Elems(q)
      BY <1>1, <1>2 DEF Elems
    <3>2. k - Len(q) \in 1 .. Len(w)
      BY <1>2
    <3>3. (q \o w)[k] \in Elems(w)
      BY <1>1, <1>2, <3>2 DEF Elems
    <3> QED
      BY <3>1, <3>3
  <2> QED
    BY <1>2, <2>1, <2>2, <2>3
<1> QED
  BY <1>1, <1>2, <1>3, <1>4

\* The thread at position c leaves a queue.
LEMMA Removed ==
  ASSUME NEW T, NEW q \in Seq(T), Once(q), NEW c \in Nat, c < Len(q)
  PROVE  /\ LastInto(q, c) \in Seq(T) /\ Len(LastInto(q, c)) = Len(q) - 1
         /\ Once(LastInto(q, c)) /\ Elems(LastInto(q, c)) = Elems(q) \ {q[c + 1]}
<1> DEFINE L == Len(q)
           r == [q EXCEPT ![c + 1] = q[L]]
           s == LastInto(q, c)
<1>1. L \in Nat \ {0} /\ DOMAIN q = 1 .. L /\ c + 1 \in 1 .. L
  OBVIOUS
<1>2. /\ r \in Seq(T) /\ Len(r) = L
      /\ \A n \in 1 .. L : r[n] = IF n = c + 1 THEN q[L] ELSE q[n]
  BY <1>1, ExceptSeq
<1>3. /\ s \in Seq(T) /\ Len(s) = L - 1
      /\ \A n \in 1 .. L - 1 : s[n] = r[n]
  <2>1. s = SubSeq(r, 1, L - 1)
    BY DEF LastInto
  <2>2. \A n \in 1 .. L - 1 : r[n] \in T
    BY <1>1, <1>2
  <2>3. /\ SubSeq(r, 1, L - 1) \in Seq(T)
        /\ Len(SubSeq(r, 1, L - 1)) = IF 1 <= L - 1 THEN (L - 1) - 1 + 1 ELSE 0
        /\ \A n \in 1 .. (L - 1) - 1 + 1 : SubSeq(r, 1, L - 1)[n] = r[1 + n - 1]
    BY <1>1, <2>2, SubSeqProperties
  <2> HIDE DEF s, r
  <2>4. \A n \in 1 .. L - 1 : n \in 1 .. (L - 1) - 1 + 1 /\ 1 + n - 1 = n
    BY <1>1
  <2>5. (L - 1) - 1 + 1 = L - 1 /\ (~(1 <= L - 1) => L - 1 = 0)
    BY <1>1
  <2> QED
    BY <2>1, <2>3, <2>4, <2>5
<1>4. DOMAIN s = 1 .. L - 1
      /\ \A n \in 1 .. L - 1 : s[n] = IF n = c + 1 THEN q[L] ELSE q[n]
  BY <1>1, <1>2, <1>3
<1> HIDE DEF s, r, L
<1>5. Once(s)
  <2>1. \A m, n \in 1 .. L : q[m] = q[n] => m = n
    BY <1>1 DEF Once
  <2> QED
    BY <1>1, <1>4, <2>1 DEF Once
<1>6. Elems(s) = Elems(q) \ {q[c + 1]}
  <2>1. \A m, n \in 1 .. L : q[m] = q[n] => m = n
    BY <1>1 DEF Once
  <2>2. ASSUME NEW n \in 1 .. L - 1
        PROVE  s[n] \in Elems(q) \ {q[c + 1]}
    BY <1>1, <1>4, <2>1 DEF Elems
  <2>3. ASSUME NEW n \in 1 .. L, n # c + 1
        PROVE  q[n] \in Elems(s)
    <3>1. CASE n = L
      BY <1>1, <1>4, <2>3, <3>1 DEF Elems
    <3>2. CASE n # L
      BY <1>1, <1>4, <2>3, <3>2 DEF Elems
    <3> QED
      BY <3>1, <3>2
  <2>4. \A t \in Elems(s) : t \in Elems(q) \ {q[c + 1]}
    BY <1>4, <2>2 DEF Elems
  <2>5. \A t \in Elems(q) \ {q[c + 1]} : t \in Elems(s)
    BY <1>1, <2>3 DEF Elems
  <2> QED
    BY <2>4, <2>5
<1> QED
  BY <1>3, <1>5, <1>6 DEF s, L

-----------------------------------------------------------------------------
(* The inductive invariant.                                                *)

\* Each thread that is not freed stands in one queue, at one place.
Queued ==
  /\ Once(ready_queue) /\ Once(waiting_queue)
  /\ Elems(ready_queue) \cap Elems(waiting_queue) = {}
  /\ Elems(ready_queue) \cup Elems(waiting_queue) = ThreadSet \ (freed \ Leaving)

\* Where the scheduler is entered, and why.
Entered ==
  /\ (pc = "sched" /\ where = "START") \/ pc = "block" => rq_current = 0
  /\ pc = "block" => ready_queue = <<>>
  /\ pc = "sched" /\ where = "AREAD" => RUNNING \in Readers
  /\ pc = "sched" /\ where = "EXIT" => RUNNING \in freed

\* The running thread is done with the input it was woken for.
Served == pc = "round" \/ (pc = "sched" /\ where \in {"AREAD", "EXIT"})

\* A ready thread that is to read has input, which nobody else takes.
Fed ==
  \A t \in Elems(ready_queue) :
    resume[t] = "read" => fifo[t] # <<>> \/ (Served /\ t = RUNNING)

IInv == TypeOK /\ Queued /\ Entered /\ Fed /\ AlarmAlive

\* The thread at the position of the scheduler is ready.
LEMMA RunningIsReady ==
  ASSUME IInv, pc \in {"run", "round"} \/ (pc = "sched" /\ where # "START")
  PROVE  /\ rq_current \in Nat /\ rq_current < Len(ready_queue)
         /\ rq_current + 1 \in DOMAIN ready_queue
         /\ RUNNING \in Elems(ready_queue) /\ RUNNING \in ThreadSet
<1>1. rq_current \in Nat /\ rq_current < Len(ready_queue) /\ ready_queue \in Seq(ThreadSet)
  BY DEF IInv, TypeOK
<1>2. rq_current + 1 \in 1 .. Len(ready_queue) /\ DOMAIN ready_queue = 1 .. Len(ready_queue)
  BY <1>1
<1> QED
  BY <1>1, <1>2 DEF RUNNING, Elems

LEMMA InitIInv == Init => IInv
<1> SUFFICES ASSUME Init PROVE IInv
  OBVIOUS
<1> USE ThreadsAssumption DEF Init
<1>1. TypeOK
  <2>1. ready_queue \in Seq(ThreadSet) /\ waiting_queue \in Seq(Readers)
    OBVIOUS
  <2>2. fifo \in [ThreadSet -> Seq(Inputs)] /\ \A t \in ThreadSet : Len(fifo[t]) <= MaxFifo
    OBVIOUS
  <2>3. {armed, alrm, tstp} \subseteq BOOLEAN
    <3> DEFINE on == timeslice > 0
    <3>1. on \in BOOLEAN
      OBVIOUS
    <3>2. armed = on /\ alrm = FALSE /\ tstp = FALSE
      BY Zenon
    <3> HIDE DEF on
    <3> QED
      BY <3>1, <3>2, Zenon
  <2>4. /\ rq_current \in Nat /\ pc \in {"sched", "block", "run", "round", "end"}
        /\ where \in {"START", "YIELD", "AREAD", "EXIT"}
        /\ resume \in [ThreadSet -> {"top", "read"}] /\ freed \subseteq ThreadSet
        /\ buf \in [ThreadSet -> Inputs \cup {0}]
    OBVIOUS
  <2>5. ~(pc \in {"run", "round"} \/ (pc = "sched" /\ where # "START"))
    OBVIOUS
  <2> QED
    BY <2>1, <2>2, <2>3, <2>4, <2>5, Zenon DEF TypeOK
<1>2. Queued
  <2>1. Elems(Threads) = ThreadSet /\ Elems(<<>>) = {}
    BY DEF Elems, ThreadSet
  <2>2. Once(Threads) /\ Once(<<>>)
    BY DEF Once
  <2> QED
    BY <2>1, <2>2 DEF Queued, Leaving
<1>3. Entered
  BY DEF Entered
<1>4. Fed
  <2>1. Elems(Threads) = ThreadSet
    BY DEF Elems, ThreadSet
  <2> QED
    BY <2>1 DEF Fed
<1>5. AlarmAlive
  BY DEF AlarmAlive
<1> QED
  BY <1>1, <1>2, <1>3, <1>4, <1>5 DEF IInv

\* The scheduler leaves for a thread, a wait or the end, with queues in order.
LEMMA JumpIInv ==
  ASSUME IInv, NEW q \in Seq(ThreadSet), NEW w \in Seq(Readers), NEW c \in Nat,
         Jump(q, w, c),
         UNCHANGED <<where, resume, freed, fifo, buf, armed, alrm, tstp>>,
         Once(q), Once(w), Elems(q) \cap Elems(w) = {},
         Elems(q) \cup Elems(w) = ThreadSet \ freed,
         IF q = <<>> THEN c = 0 ELSE c < Len(q),
         \A t \in Elems(q) : resume[t] = "read" => fifo[t] # <<>>
  PROVE  IInv'
<1> USE DEF Jump
<1>1. TypeOK'
  BY DEF IInv, TypeOK
<1>2. Queued'
  BY DEF Queued, Leaving
<1>3. Entered'
  BY DEF Entered
<1>4. Fed'
  BY DEF Fed
<1>5. AlarmAlive'
  BY DEF IInv, AlarmAlive
<1> QED
  BY <1>1, <1>2, <1>3, <1>4, <1>5 DEF IInv

\* What select() does to the queues, whichever thread is running.
LEMMA Polled ==
  ASSUME IInv
  PROVE  LET q == ready_queue \o Woken IN
         /\ q \in Seq(ThreadSet) /\ Once(q) /\ Len(q) >= Len(ready_queue)
         /\ Elems(q) = Elems(ready_queue) \cup Elems(Woken)
         /\ \A n \in 1 .. Len(ready_queue) : q[n] = ready_queue[n]
         /\ Asleep \in Seq(Readers) /\ Once(Asleep)
         /\ Elems(q) \cap Elems(Asleep) = {}
         /\ Elems(q) \cup Elems(Asleep) = ThreadSet \ (freed \ Leaving)
         /\ \A t \in Elems(Woken) : fifo[t] # <<>> /\ t \notin Elems(ready_queue)
         /\ Woken \in Seq(ThreadSet)
<1>1. /\ ready_queue \in Seq(ThreadSet) /\ waiting_queue \in Seq(Readers)
      /\ Readers \subseteq ThreadSet
  BY ThreadsAssumption DEF IInv, TypeOK
<1>2. /\ Woken \in Seq(Readers) /\ Once(Woken)
      /\ Elems(Woken) = {t \in Elems(waiting_queue) : HasInput(t)}
      /\ Asleep \in Seq(Readers) /\ Once(Asleep)
      /\ Elems(Asleep) = Elems(waiting_queue) \ Elems(Woken)
  BY <1>1, Division DEF IInv, Queued
<1>3. Woken \in Seq(ThreadSet)
  BY <1>1, <1>2, SeqMonotonic
<1>4. Once(ready_queue) /\ Elems(ready_queue) \cap Elems(waiting_queue) = {}
      /\ Elems(ready_queue) \cup Elems(waiting_queue) = ThreadSet \ (freed \ Leaving)
  BY DEF IInv, Queued
<1>5. Elems(ready_queue) \cap Elems(Woken) = {}
  BY <1>2, <1>4
<1>6. LET q == ready_queue \o Woken IN
      /\ q \in Seq(ThreadSet) /\ Len(q) = Len(ready_queue) + Len(Woken) /\ Once(q)
      /\ Elems(q) = Elems(ready_queue) \cup Elems(Woken)
      /\ \A n \in 1 .. Len(ready_queue) : q[n] = ready_queue[n]
  BY <1>1, <1>2, <1>3, <1>4, <1>5, Joined
<1>7. Len(ready_queue) \in Nat /\ Len(Woken) \in Nat
  BY <1>1, <1>3
<1>8. \A t \in Elems(Woken) : fifo[t] # <<>>
  BY <1>2 DEF HasInput
<1> DEFINE q == ready_queue \o Woken
<1> HIDE DEF q
<1>9. /\ Elems(ready_queue) \cup Elems(Woken) \cup Elems(Asleep)
           = ThreadSet \ (freed \ Leaving)
      /\ (Elems(ready_queue) \cup Elems(Woken)) \cap Elems(Asleep) = {}
  BY <1>2, <1>4
<1> QED
  BY <1>2, <1>3, <1>5, <1>6, <1>7, <1>8, <1>9

\* The steps of scheduler().
LEMMA SchedulerIInv ==
  ASSUME IInv, First \/ Yielded \/ Waits \/ Exited \/ Unblock
  PROVE  IInv'
<1> USE DEF Jump
<1>0. /\ ready_queue \in Seq(ThreadSet) /\ waiting_queue \in Seq(Readers)
      /\ Len(ready_queue) \in Nat /\ rq_current \in Nat
      /\ Once(ready_queue) /\ Once(waiting_queue)
      /\ Elems(ready_queue) \cap Elems(waiting_queue) = {}
      /\ Elems(ready_queue) \cup Elems(waiting_queue) = ThreadSet \ (freed \ Leaving)
  BY DEF IInv, TypeOK, Queued
<1> DEFINE q == ready_queue \o Woken
<1>P. /\ q \in Seq(ThreadSet) /\ Once(q) /\ Len(q) >= Len(ready_queue) /\ Len(q) \in Nat
      /\ Elems(q) = Elems(ready_queue) \cup Elems(Woken)
      /\ \A n \in 1 .. Len(ready_queue) : q[n] = ready_queue[n]
      /\ Asleep \in Seq(Readers) /\ Once(Asleep)
      /\ Elems(q) \cap Elems(Asleep) = {}
      /\ Elems(q) \cup Elems(Asleep) = ThreadSet \ (freed \ Leaving)
      /\ \A t \in Elems(Woken) : fifo[t] # <<>> /\ t \notin Elems(ready_queue)
  BY Polled
<1>N. \A r \in Seq(ThreadSet) : Len(r) \in Nat /\ (r = <<>> <=> Len(r) = 0)
  OBVIOUS
<1>1. CASE First
  <2>1. pc = "sched" /\ where = "START" /\ Jump(ready_queue, waiting_queue, rq_current)
        /\ UNCHANGED <<where, resume, freed, fifo, buf, armed, alrm, tstp>>
    BY <1>1 DEF First
  <2>2. rq_current = 0 /\ Leaving = {}
    BY <2>1 DEF IInv, Entered, Leaving
  <2>3. \A t \in Elems(ready_queue) : resume[t] = "read" => fifo[t] # <<>>
    BY <2>1 DEF IInv, Fed, Served
  <2>4. IF ready_queue = <<>> THEN rq_current = 0 ELSE rq_current < Len(ready_queue)
    BY <1>0, <1>N, <2>2
  <2> QED
    BY <1>0, <2>1, <2>2, <2>3, <2>4, JumpIInv
<1>2. CASE Yielded
  <2> DEFINE c == IF rq_current + 1 = Len(q) THEN 0 ELSE rq_current + 1
  <2>1. pc = "sched" /\ where = "YIELD" /\ Jump(q, Asleep, c)
        /\ UNCHANGED <<where, resume, freed, fifo, buf, armed, alrm, tstp>>
    BY <1>2 DEF Yielded
  <2>2. rq_current < Len(ready_queue) /\ Leaving = {}
    BY <2>1 DEF IInv, TypeOK, Leaving
  <2>3. c \in Nat /\ c < Len(q) /\ q # <<>>
    BY <1>0, <1>P, <1>N, <2>2
  <2>4. \A t \in Elems(q) : resume[t] = "read" => fifo[t] # <<>>
    BY <1>P, <2>1 DEF IInv, Fed, Served
  <2> HIDE DEF q, c
  <2> QED
    BY <1>P, <2>1, <2>2, <2>3, <2>4, JumpIInv
<1>3. CASE Waits \/ Exited
  <2>1. pc = "sched" /\ where \in {"AREAD", "EXIT"}
    BY <1>3 DEF Waits, Exited
  <2>2. /\ rq_current < Len(ready_queue) /\ rq_current + 1 \in 1 .. Len(ready_queue)
        /\ RUNNING \in Elems(ready_queue) /\ RUNNING \in ThreadSet
        /\ q[rq_current + 1] = RUNNING
    BY <1>0, <1>P, <2>1, RunningIsReady DEF RUNNING
  <2> DEFINE r == LastInto(q, rq_current)
             c == WrapPosition(rq_current, Len(r))
  <2> HIDE DEF q
  <2>3. /\ r \in Seq(ThreadSet) /\ Len(r) = Len(q) - 1 /\ Once(r)
        /\ Elems(r) = Elems(q) \ {RUNNING}
    <3>1. rq_current < Len(q)
      BY <1>0, <1>P, <2>2
    <3> QED
      BY <1>0, <1>P, <2>2, <3>1, Removed
  <2> HIDE DEF r
  <2>4. c \in Nat /\ (IF r = <<>> THEN c = 0 ELSE c < Len(r))
    BY <1>0, <1>P, <1>N, <2>2, <2>3 DEF WrapPosition
  <2>5. \A t \in Elems(r) : resume[t] = "read" => fifo[t] # <<>>
    BY <1>P, <2>3 DEF IInv, Fed
  <2>6. Elems(r) \cap Elems(Asleep) = {} /\ RUNNING \notin Elems(r)
    BY <1>P, <2>3
  <2> HIDE DEF c
  <2>7. CASE where = "AREAD"
    <3>1. Jump(r, Append(Asleep, RUNNING), c)
          /\ UNCHANGED <<where, resume, freed, fifo, buf, armed, alrm, tstp>>
      BY <1>3, <2>7 DEF Waits, Exited, q, r, c
    <3>2. RUNNING \in Readers /\ Leaving = {}
      BY <2>1, <2>7 DEF IInv, Entered, Leaving
    <3> DEFINE one == <<RUNNING>>
    <3>3. one \in Seq(Readers) /\ Elems(one) = {RUNNING} /\ Once(one)
      BY <3>2 DEF Elems, Once
    <3>4. Append(Asleep, RUNNING) = Asleep \o one
      BY <1>P, <3>2, AppendIsConcat
    <3> HIDE DEF one
    <3>5. Elems(Asleep) \cap Elems(one) = {}
      BY <1>P, <2>2, <3>3
    <3>6. /\ Asleep \o one \in Seq(Readers) /\ Once(Asleep \o one)
          /\ Elems(Asleep \o one) = Elems(Asleep) \cup {RUNNING}
      BY <1>P, <3>3, <3>5, Joined
    <3> DEFINE w == Append(Asleep, RUNNING)
    <3>7. w \in Seq(Readers) /\ Once(w) /\ Elems(w) = Elems(Asleep) \cup {RUNNING}
      BY <3>4, <3>6
    <3> HIDE DEF w
    <3>8. Elems(r) \cap Elems(w) = {} /\ Elems(r) \cup Elems(w) = ThreadSet \ freed
      BY <1>P, <2>2, <2>3, <2>6, <3>2, <3>7
    <3> QED
      BY <2>3, <2>4, <2>5, <3>1, <3>7, <3>8, JumpIInv DEF w
  <2>8. CASE where = "EXIT"
    <3>1. Jump(r, Asleep, c)
          /\ UNCHANGED <<where, resume, freed, fifo, buf, armed, alrm, tstp>>
      BY <1>3, <2>8 DEF Waits, Exited, q, r, c
    <3>2. RUNNING \in freed /\ Leaving = {RUNNING}
      BY <2>1, <2>8 DEF IInv, Entered, Leaving
    <3>3. Elems(r) \cup Elems(Asleep) = ThreadSet \ freed
      BY <1>P, <2>2, <2>3, <3>2
    <3> QED
      BY <1>P, <2>3, <2>4, <2>5, <2>6, <3>1, <3>3, JumpIInv
  <2> QED
    BY <2>1, <2>7, <2>8
<1>4. CASE Unblock
  <2>1. pc = "block" /\ Woken # <<>> /\ Jump(q, Asleep, rq_current)
        /\ UNCHANGED <<where, resume, freed, fifo, buf, armed, alrm, tstp>>
    BY <1>4 DEF Unblock
  <2>2. rq_current = 0 /\ Leaving = {}
    BY <2>1 DEF IInv, Entered, Leaving
  <2>3. IF q = <<>> THEN rq_current = 0 ELSE rq_current < Len(q)
    BY <1>0, <1>P, <1>N, <2>2
  <2>4. \A t \in Elems(q) : resume[t] = "read" => fifo[t] # <<>>
    BY <1>P, <2>1 DEF IInv, Fed, Served
  <2> HIDE DEF q
  <2> QED
    BY <1>0, <1>P, <2>1, <2>2, <2>3, <2>4, JumpIInv
<1> QED
  BY <1>1, <1>2, <1>3, <1>4

\* The steps of a thread leave the queues as they are.
LEMMA ThreadIInv ==
  ASSUME IInv,
         AsyncRead \/ ReadRound \/ Round \/ ThreadExit
           \/ YieldToTstp \/ YieldToAlarm \/ NoYield
  PROVE  IInv'
<1>0. UNCHANGED <<ready_queue, rq_current, waiting_queue>> /\ pc \in {"run", "round"}
  BY DEF AsyncRead, ReadRound, Round, ThreadExit, ToNextRound, YieldToTstp,
         YieldToAlarm, NoYield
<1>1. /\ rq_current < Len(ready_queue) /\ RUNNING' = RUNNING
      /\ RUNNING \in Elems(ready_queue) /\ RUNNING \in ThreadSet
  BY <1>0, RunningIsReady DEF RUNNING
<1>2. Leaving = {} /\ RUNNING \notin freed
  BY <1>0, <1>1 DEF IInv, Queued, Leaving
<1>3. Queued'
  <2>1. CASE ThreadExit
    <3>1. freed' = freed \cup {RUNNING} /\ pc' = "sched" /\ where' = "EXIT"
      BY <2>1 DEF ThreadExit
    <3>2. Leaving' = {RUNNING}
      BY <1>1, <3>1 DEF Leaving
    <3>3. freed' \ Leaving' = freed
      BY <1>2, <3>1, <3>2
    <3> QED
      BY <1>0, <1>2, <3>3 DEF IInv, Queued
  <2>2. CASE ~ThreadExit
    <3>1. freed' = freed /\ ~(pc' = "sched" /\ where' = "EXIT")
      BY <2>2 DEF AsyncRead, ReadRound, Round, ToNextRound, YieldToTstp,
                  YieldToAlarm, NoYield
    <3>2. Leaving' = {}
      BY <3>1 DEF Leaving
    <3> QED
      BY <1>0, <1>2, <3>1, <3>2 DEF IInv, Queued
  <2> QED
    BY <2>1, <2>2
<1>4. Entered'
  BY <1>0, <1>1 DEF Entered, AsyncRead, ReadRound, Round, ThreadExit, ToNextRound,
                    YieldToTstp, YieldToAlarm, NoYield
<1>5. Fed'
  <2> SUFFICES ASSUME NEW t \in Elems(ready_queue), resume'[t] = "read"
               PROVE  fifo'[t] # <<>> \/ (Served' /\ t = RUNNING)
    BY <1>0, <1>1 DEF Fed
  <2>0. t \in ThreadSet /\ resume \in [ThreadSet -> {"top", "read"}]
        /\ fifo \in [ThreadSet -> Seq(Inputs)]
    BY DEF IInv, TypeOK, Elems
  <2>1. CASE t # RUNNING
    <3>1. resume'[t] = resume[t] /\ fifo'[t] = fifo[t]
      BY <1>1, <2>0, <2>1 DEF AsyncRead, ReadRound, Round, ThreadExit, ToNextRound,
                              YieldToTstp, YieldToAlarm, NoYield
    <3> QED
      BY <2>1, <3>1 DEF IInv, Fed
  <2>2. CASE t = RUNNING
    <3>1. CASE AsyncRead \/ ReadRound \/ ThreadExit
      BY <2>2, <3>1 DEF AsyncRead, ReadRound, ThreadExit, Served
    <3>2. CASE Round
      BY <2>2, <3>2 DEF Round, Served
    <3>3. CASE ToNextRound
      BY <1>1, <2>0, <2>2, <3>3 DEF ToNextRound
    <3> QED
      BY <3>1, <3>2, <3>3 DEF YieldToTstp, YieldToAlarm, NoYield
  <2> QED
    BY <2>1, <2>2
<1>6. TypeOK' /\ AlarmAlive'
  <2>0. TypeOK /\ AlarmAlive
    BY DEF IInv
  <2>1. CASE AsyncRead
    BY <1>0, <1>1, <2>0, <2>1 DEF AsyncRead, TypeOK, AlarmAlive
  <2>2. CASE ReadRound
    <3>1. /\ fifo' \in [ThreadSet -> Seq(Inputs)] /\ buf' \in [ThreadSet -> Inputs \cup {0}]
          /\ \A t \in ThreadSet : Len(fifo'[t]) <= MaxFifo
      <4>1. CASE fifo[RUNNING] # <<>>
        <5>1. fifo[RUNNING] \in Seq(Inputs) /\ Len(fifo[RUNNING]) <= MaxFifo
          BY <1>1, <2>0 DEF TypeOK
        <5>2. /\ Head(fifo[RUNNING]) \in Inputs /\ Tail(fifo[RUNNING]) \in Seq(Inputs)
              /\ Len(Tail(fifo[RUNNING])) = Len(fifo[RUNNING]) - 1
          BY <4>1, <5>1, HeadTailProperties
        <5>3. Len(Tail(fifo[RUNNING])) <= MaxFifo
          BY <5>1, <5>2, ThreadsAssumption
        <5>4. /\ buf'  = [buf EXCEPT ![RUNNING] = Head(fifo[RUNNING])]
              /\ fifo' = [fifo EXCEPT ![RUNNING] = Tail(fifo[RUNNING])]
          BY <2>2, <4>1 DEF ReadRound
        <5> QED
          BY <1>1, <2>0, <5>2, <5>3, <5>4 DEF TypeOK
      <4>2. CASE fifo[RUNNING] = <<>>
        BY <2>0, <2>2, <4>2 DEF ReadRound, TypeOK
      <4> QED
        BY <4>1, <4>2
    <3> QED
      BY <1>0, <1>1, <2>0, <2>2, <3>1 DEF ReadRound, TypeOK, AlarmAlive
  <2>3. CASE Round
    BY <1>0, <1>1, <2>0, <2>3 DEF Round, TypeOK, AlarmAlive
  <2>4. CASE ThreadExit
    <3>1. /\ fifo' \in [ThreadSet -> Seq(Inputs)]
          /\ \A t \in ThreadSet : Len(fifo'[t]) <= MaxFifo
      <4>1. fifo' = [fifo EXCEPT ![RUNNING] = <<>>]
        BY <2>4 DEF ThreadExit
      <4>2. <<>> \in Seq(Inputs) /\ Len(<<>>) <= MaxFifo
        BY ThreadsAssumption
      <4>3. fifo \in [ThreadSet -> Seq(Inputs)] /\ \A t \in ThreadSet : Len(fifo[t]) <= MaxFifo
        BY <2>0 DEF TypeOK
      <4> HIDE DEF TypeOK
      <4> QED
        BY <4>1, <4>2, <4>3
    <3> QED
      BY <1>0, <1>1, <2>0, <2>4, <3>1 DEF ThreadExit, TypeOK, AlarmAlive
  <2>5. CASE YieldToTstp
    BY <1>0, <1>1, <2>0, <2>5 DEF ToNextRound, YieldToTstp, TypeOK, AlarmAlive
  <2>6. CASE YieldToAlarm
    <3> DEFINE on == timeslice > 0
    <3>1. on \in BOOLEAN
      OBVIOUS
    <3>2. armed' = on /\ alrm' = FALSE /\ UNCHANGED tstp
      BY <2>6 DEF YieldToAlarm
    <3>3. AlarmAlive'
      BY <3>2 DEF AlarmAlive
    <3> HIDE DEF on
    <3>4. {armed, alrm, tstp}' \subseteq BOOLEAN
      BY <2>0, <3>1, <3>2, Zenon DEF TypeOK
    <3> QED
      BY <1>0, <1>1, <2>0, <2>6, <3>3, <3>4 DEF ToNextRound, YieldToAlarm, TypeOK
  <2>7. CASE NoYield
    BY <1>0, <1>1, <2>0, <2>7 DEF ToNextRound, NoYield, TypeOK, AlarmAlive
  <2> QED
    BY <2>1, <2>2, <2>3, <2>4, <2>5, <2>6, <2>7
<1> QED
  BY <1>3, <1>4, <1>5, <1>6 DEF IInv

\* The user, the clock and the writers.
LEMMA EnvironmentIInv == ASSUME IInv, Environment PROVE IInv'
<1> USE DEF IInv
<1>0. UNCHANGED <<ready_queue, rq_current, waiting_queue, pc, where, resume, freed>>
  BY DEF Environment, StopKey, Expire, Write
<1>1. Queued' /\ Entered'
  BY <1>0 DEF Queued, Leaving, Entered, RUNNING
<1>2. CASE StopKey \/ Expire
  <2>1. TypeOK' /\ AlarmAlive'
    <3>1. CASE StopKey
      BY <3>1 DEF StopKey, TypeOK, AlarmAlive
    <3>2. CASE Expire
      <4>1. AlarmAlive'
        BY <3>2 DEF Expire, AlarmAlive
      <4>2. {armed, alrm, tstp}' \subseteq BOOLEAN
        BY <3>2, Zenon DEF Expire, TypeOK
      <4> QED
        BY <3>2, <4>1, <4>2 DEF Expire, TypeOK
    <3> QED
      BY <1>2, <3>1, <3>2
  <2>2. fifo' = fifo
    BY <1>2 DEF StopKey, Expire
  <2>3. Fed'
    BY <1>0, <2>2 DEF Fed, Served, RUNNING
  <2> QED
    BY <1>1, <2>1, <2>3
<1>3. ASSUME NEW r \in Readers, Write(r) PROVE IInv'
  <2>0. r \in ThreadSet /\ fifo \in [ThreadSet -> Seq(Inputs)]
        /\ \A t \in ThreadSet : Len(fifo[t]) <= MaxFifo
    BY ThreadsAssumption DEF TypeOK
  <2>1. PICK n \in Inputs : fifo' = [fifo EXCEPT ![r] = Append(fifo[r], n)]
    BY <1>3 DEF Write
  <2>2. /\ Append(fifo[r], n) \in Seq(Inputs) /\ Append(fifo[r], n) # <<>>
        /\ Len(Append(fifo[r], n)) = Len(fifo[r]) + 1
    BY <2>0, AppendProperties
  <2>3. Len(fifo[r]) + 1 <= MaxFifo
    BY <1>3, <2>0, ThreadsAssumption DEF Write
  <2>4. /\ fifo' \in [ThreadSet -> Seq(Inputs)]
        /\ \A t \in ThreadSet : Len(fifo'[t]) <= MaxFifo
        /\ \A t \in ThreadSet : fifo[t] # <<>> => fifo'[t] # <<>>
    BY <2>0, <2>1, <2>2, <2>3
  <2>5. UNCHANGED <<buf, armed, alrm, tstp>>
    BY <1>3 DEF Write
  <2>6. TypeOK' /\ AlarmAlive'
    BY <1>0, <2>4, <2>5 DEF TypeOK, AlarmAlive
  <2>7. Elems(ready_queue) \subseteq ThreadSet
    BY DEF TypeOK, Elems
  <2>8. Fed'
    BY <1>0, <2>4, <2>7 DEF Fed, Served, RUNNING
  <2> QED
    BY <1>1, <2>6, <2>8
<1> QED
  BY <1>2, <1>3 DEF Environment

LEMMA NextIInv == IInv /\ [Next]_vars => IInv'
<1>1. CASE UNCHANGED vars
  BY <1>1 DEF vars, IInv, TypeOK, Queued, Leaving, Entered, Fed, Served, RUNNING, AlarmAlive
<1>2. ASSUME IInv, Next PROVE IInv'
  BY <1>2, SchedulerIInv, ThreadIInv, EnvironmentIInv DEF Next, Program
<1> QED
  BY <1>1, <1>2

LEMMA AlwaysIInv == Spec => []IInv
  BY InitIInv, NextIInv, PTL DEF Spec

-----------------------------------------------------------------------------
(* The properties.                                                         *)

\* The types, and the scheduler's position inside its queue.
THEOREM SchedulerTypes == Spec => []TypeOK
<1>1. IInv => TypeOK
  BY DEF IInv
<1> QED
  BY <1>1, AlwaysIInv, PTL

\* No thread is lost or queued twice (scheduler.c:33-61).
THEOREM EachThreadOnce == Spec => []OneQueue
<1>1. IInv => OneQueue
  <2> SUFFICES ASSUME IInv, NEW t \in ThreadSet
               PROVE  Cardinality(Places(t)) = IF t \in freed \ Leaving THEN 0 ELSE 1
    BY DEF OneQueue
  <2>0. Queued
    BY DEF IInv
  <2>1. CASE t \in freed \ Leaving
    <3>1. Places(t) = {}
      BY <2>0, <2>1 DEF Places, Queued, Elems
    <3> QED
      BY <2>1, <3>1, FS_EmptySet
  <2>2. ASSUME NEW n \in DOMAIN ready_queue, ready_queue[n] = t
        PROVE  Places(t) = {<<"r", n>>}
    <3>1. {m \in DOMAIN ready_queue : ready_queue[m] = t} = {n}
      BY <2>0, <2>2 DEF Queued, Once
    <3>2. {m \in DOMAIN waiting_queue : waiting_queue[m] = t} = {}
      BY <2>0, <2>2 DEF Queued, Elems
    <3> QED
      BY <3>1, <3>2 DEF Places
  <2>3. ASSUME NEW n \in DOMAIN waiting_queue, waiting_queue[n] = t
        PROVE  Places(t) = {<<"w", n>>}
    <3>1. {m \in DOMAIN waiting_queue : waiting_queue[m] = t} = {n}
      BY <2>0, <2>3 DEF Queued, Once
    <3>2. {m \in DOMAIN ready_queue : ready_queue[m] = t} = {}
      BY <2>0, <2>3 DEF Queued, Elems
    <3> QED
      BY <3>1, <3>2 DEF Places
  <2>4. CASE t \notin freed \ Leaving
    <3>1. t \in Elems(ready_queue) \cup Elems(waiting_queue)
      BY <2>0, <2>4 DEF Queued
    <3>2. \E p : Places(t) = {p}
      BY <3>1, <2>2, <2>3 DEF Elems
    <3> QED
      BY <2>4, <3>2, FS_Singleton
  <2> QED
    BY <2>1, <2>4
<1> QED
  BY <1>1, AlwaysIInv, PTL

LEMMA IInvInputIsThere == IInv => ReadFindsInput
<1> SUFFICES ASSUME IInv, pc = "run", resume[RUNNING] = "read"
             PROVE  fifo[RUNNING] # <<>>
  BY DEF ReadFindsInput
<1>1. RUNNING \in Elems(ready_queue)
  BY RunningIsReady
<1> QED
  BY <1>1 DEF IInv, Fed, Served

\* Between select() and read() nobody takes the input of a thread
\* (threadtools.h:85-89, scheduler.c:33-41).
THEOREM InputIsThere == Spec => []ReadFindsInput
  BY IInvInputIsThere, AlwaysIInv, PTL

\* The clock is running or its signal is pending (scheduler.c:8-19).
THEOREM ClockRuns == Spec => []AlarmAlive
<1>1. IInv => AlarmAlive
  BY DEF IInv
<1> QED
  BY <1>1, AlwaysIInv, PTL

-----------------------------------------------------------------------------
(* The arithmetic of the machine.                                          *)

LEMMA IntHalfType == IntHalf \in Nat /\ IntHalf > 1
  BY FunctionsAssumption

\* Wrap leaves the remainder.
LEMMA WrapQuotient ==
  ASSUME NEW n \in Int
  PROVE  Wrap(n) \in CInts /\ \E k \in Int : n = Wrap(n) + (2 * IntHalf) * k
<1>1. IntHalf \in Nat \ {0} /\ Wrap(n) = Around(IntHalf, n)
  BY IntHalfType DEF Wrap, Around
<1> QED
  BY <1>1, AroundRange DEF CInts

LEMMA WrapUnique ==
  ASSUME NEW n \in Int, NEW m \in CInts, NEW k \in Int, n = m + (2 * IntHalf) * k
  PROVE  Wrap(n) = m
<1>1. IntHalf \in Nat \ {0} /\ Wrap(n) = Around(IntHalf, n)
  BY IntHalfType DEF Wrap, Around
<1>2. m \in -IntHalf .. IntHalf - 1
  BY DEF CInts
<1> QED
  BY <1>1, <1>2, AroundUnique

\* Numbers that fit are left as they are, and sums may be wrapped on the way.
LEMMA WrapFits == ASSUME NEW n \in CInts PROVE Wrap(n) = n
<1>1. n \in Int /\ n = n + (2 * IntHalf) * 0
  BY IntHalfType DEF CInts
<1> QED
  BY <1>1, WrapUnique

LEMMA WrapSum ==
  ASSUME NEW m \in Int, NEW n \in Int
  PROVE  Wrap(Wrap(m) + n) = Wrap(m + n)
<1>1. PICK j \in Int : m = Wrap(m) + (2 * IntHalf) * j
  BY WrapQuotient
<1>2. PICK k \in Int : m + n = Wrap(m + n) + (2 * IntHalf) * k
  BY WrapQuotient
<1> DEFINE M == 2 * IntHalf
           w == Wrap(m)
           s == Wrap(m + n)
<1>3. w \in Int /\ s \in Int /\ s \in CInts /\ M \in Int
  BY WrapQuotient, IntHalfType DEF CInts
<1>4. w + n = s + M * (k - j)
  <2>1. m = w + M * j /\ m + n = s + M * k
    BY <1>1, <1>2
  <2> HIDE DEF w, s, M
  <2>2. M * (k - j) = M * k - M * j /\ M * k \in Int /\ M * j \in Int
    BY <1>3
  <2> QED
    BY <1>3, <2>1, <2>2
<1>5. w + n \in Int /\ k - j \in Int
  BY <1>3
<1> QED
  BY <1>3, <1>4, <1>5, WrapUnique

LEMMA WrapSums ==
  ASSUME NEW m \in Int, NEW n \in Int
  PROVE  Wrap(Wrap(m) + Wrap(n)) = Wrap(m + n)
<1>1. Wrap(m) \in Int /\ Wrap(n) \in Int
  BY WrapQuotient, IntHalfType DEF CInts
<1>2. Wrap(Wrap(m) + Wrap(n)) = Wrap(m + Wrap(n))
  BY <1>1, WrapSum
<1>3. Wrap(m + Wrap(n)) = Wrap(Wrap(n) + m) /\ Wrap(Wrap(n) + m) = Wrap(n + m)
  <2>1. m + Wrap(n) = Wrap(n) + m
    BY <1>1
  <2> QED
    BY <2>1, WrapSum
<1>4. n + m = m + n
  OBVIOUS
<1> QED
  BY <1>2, <1>3, <1>4

-----------------------------------------------------------------------------
(* What the functions compute: their definitions by recursion are           *)
(* definitions.                                                             *)

LEMMA FibonacciValues ==
  /\ Fibonacci \in [Nat -> Int]
  /\ \A n \in Nat : Fibonacci[n] = IF n <= 2 THEN 1 ELSE Fibonacci[n - 1] + Fibonacci[n - 2]
<1> DEFINE S == Int \X Int
           g == [n \in Nat |-> [a \in S |-> <<a[2], IF n = 0 THEN 1 ELSE a[1] + a[2]>>]]
<1>1. g \in Steps(S)
  BY DEF Steps
<1>2. <<1, 1>> \in S
  OBVIOUS
<1>3. \E f : Recurs(f, S, <<1, 1>>, g)
  <2> HIDE DEF S, g
  <2> QED
    BY <1>1, <1>2, Recursion
<1>4. PICK f \in [Nat -> S] : f[0] = <<1, 1>> /\ \A n \in Nat : f[n + 1] = g[n][f[n]]
  <2> HIDE DEF S, g
  <2> QED
    BY <1>3 DEF Recurs
<1> DEFINE h == [n \in Nat |-> f[n][1]]
<1>5. \A n \in Nat : f[n][1] \in Int /\ f[n][2] \in Int /\ f[n] \in S
  OBVIOUS
<1>6. ASSUME NEW n \in Nat
      PROVE  f[n + 1][1] = f[n][2] /\ f[n + 1][2] = IF n = 0 THEN 1 ELSE f[n][1] + f[n][2]
  <2>1. g[n][f[n]] = <<f[n][2], IF n = 0 THEN 1 ELSE f[n][1] + f[n][2]>>
    BY <1>5
  <2> HIDE DEF g
  <2> QED
    BY <1>4, <2>1
<1>7. ASSUME NEW n \in Nat
      PROVE  f[n][1] = IF n <= 2 THEN 1 ELSE f[n - 1][1] + f[n - 2][1]
  <2>0. f[0][1] = 1 /\ f[0][2] = 1
    BY <1>4
  <2>1. f[1][1] = 1 /\ f[1][2] = 1
    <3>1. 0 \in Nat /\ 0 + 1 = 1
      OBVIOUS
    <3> QED
      BY <1>6, <2>0, <3>1
  <2>2. f[2][1] = 1
    <3>1. 1 \in Nat /\ 1 + 1 = 2
      OBVIOUS
    <3> QED
      BY <1>6, <2>1, <3>1
  <2>3. CASE n > 2
    <3>1. n - 1 \in Nat /\ n - 2 \in Nat /\ (n - 1) + 1 = n /\ (n - 2) + 1 = n - 1 /\ n - 2 # 0
      BY <2>3
    <3>2. f[n][1] = f[n - 1][2] /\ f[n - 1][2] = f[n - 2][1] + f[n - 2][2]
      BY <1>6, <3>1
    <3>3. f[n - 1][1] = f[n - 2][2]
      BY <1>6, <3>1
    <3>4. f[n - 2][1] + f[n - 2][2] = f[n - 2][2] + f[n - 2][1]
      BY <1>5, <3>1
    <3> QED
      BY <2>3, <3>2, <3>3, <3>4
  <2>4. CASE n <= 2
    <3>1. n = 0 \/ n = 1 \/ n = 2
      BY <2>4
    <3> QED
      BY <3>1, <2>0, <2>1, <2>2
  <2> QED
    BY <2>3, <2>4
<1>8. h = [n \in Nat |-> IF n <= 2 THEN 1 ELSE h[n - 1] + h[n - 2]]
  <2>1. ASSUME NEW n \in Nat
        PROVE  h[n] = IF n <= 2 THEN 1 ELSE h[n - 1] + h[n - 2]
    <3>1. n > 2 => n - 1 \in Nat /\ n - 2 \in Nat
      OBVIOUS
    <3> QED
      BY <1>7, <3>1
  <2>2. h = [n \in Nat |-> h[n]]
    OBVIOUS
  <2> HIDE DEF h
  <2> QED
    BY <2>1, <2>2
<1>9. Fibonacci = [n \in Nat |-> IF n <= 2 THEN 1 ELSE Fibonacci[n - 1] + Fibonacci[n - 2]]
  <2> HIDE DEF h
  <2> QED
    BY <1>8 DEF Fibonacci
<1>10. ASSUME NEW n \in Nat PROVE Fibonacci[n] = IF n <= 2 THEN 1 ELSE Fibonacci[n - 1] + Fibonacci[n - 2]
  BY <1>9
<1>11. \A n \in Nat : Fibonacci[n] \in Int
  <2> DEFINE T == {n \in Nat : Fibonacci[n] \in Int /\ Fibonacci[n + 1] \in Int}
  <2>1. Fibonacci[0] = 1 /\ Fibonacci[1] = 1
    BY <1>10
  <2>2. 0 \in T
    BY <2>1
  <2>3. ASSUME NEW n \in Nat, n \in T PROVE n + 1 \in T
    <3>1. n + 2 > 2 => (n + 2) - 1 = n + 1 /\ (n + 2) - 2 = n
      OBVIOUS
    <3>2. Fibonacci[n + 2] \in Int
      BY <1>10, <2>3, <3>1
    <3>3. (n + 1) + 1 = n + 2
      OBVIOUS
    <3> QED
      BY <2>3, <3>2, <3>3
  <2> HIDE DEF T
  <2>4. \A n \in Nat : n \in T
    BY <2>2, <2>3, Induction
  <2> QED
    BY <2>4 DEF T
<1>12. Fibonacci = [n \in Nat |-> Fibonacci[n]]
  BY <1>9
<1> QED
  BY <1>10, <1>11, <1>12

LEMMA CollatzValues ==
  ASSUME NEW n \in Nat
  PROVE  LET orbit == CollatzFrom(n)
         IN /\ orbit \in [Nat -> Nat]
            /\ orbit[0] = n
            /\ \A r \in Nat : orbit[r + 1] = IF orbit[r] % 2 = 1 THEN 3 * orbit[r] + 1
                                                                 ELSE orbit[r] \div 2
<1> DEFINE g == [r \in Nat |-> [m \in Nat |-> IF m % 2 = 1 THEN 3 * m + 1 ELSE m \div 2]]
<1>1. g \in Steps(Nat)
  <2>1. \A m \in Nat : 3 * m + 1 \in Nat /\ m \div 2 \in Nat
    OBVIOUS
  <2> QED
    BY <2>1 DEF Steps
<1>2. PICK f \in [Nat -> Nat] : f[0] = n /\ \A r \in Nat : f[r + 1] = g[r][f[r]]
  <2> HIDE DEF g
  <2>1. \E f : Recurs(f, Nat, n, g)
    BY <1>1, Recursion
  <2> QED
    BY <2>1 DEF Recurs
<1>3. \A r \in Nat : f[r + 1] = IF f[r] % 2 = 1 THEN 3 * f[r] + 1 ELSE f[r] \div 2
  BY <1>2
<1> HIDE DEF g
<1> DEFINE Unfolds(h) ==
  h = [r \in Nat |-> IF r = 0 THEN n
                     ELSE IF h[r - 1] % 2 = 1 THEN 3 * h[r - 1] + 1 ELSE h[r - 1] \div 2]
<1>4. Unfolds(f)
  <2>1. ASSUME NEW r \in Nat
        PROVE  f[r] = IF r = 0 THEN n
                      ELSE IF f[r - 1] % 2 = 1 THEN 3 * f[r - 1] + 1 ELSE f[r - 1] \div 2
    <3>1. r # 0 => r - 1 \in Nat /\ (r - 1) + 1 = r
      OBVIOUS
    <3> QED
      BY <1>2, <1>3, <3>1
  <2>2. f = [r \in Nat |-> f[r]]
    OBVIOUS
  <2> QED
    BY <2>1, <2>2
<1>5. CollatzFrom(n) = CHOOSE orbit : Unfolds(orbit)
  BY DEF CollatzFrom
<1> DEFINE orbit == CollatzFrom(n)
<1>6. Unfolds(orbit)
  BY <1>4, <1>5
<1>7. orbit[0] = n
  BY <1>6
<1>8. ASSUME NEW r \in Nat
      PROVE  orbit[r + 1] = IF orbit[r] % 2 = 1 THEN 3 * orbit[r] + 1 ELSE orbit[r] \div 2
  <2>1. r + 1 \in Nat /\ r + 1 # 0 /\ (r + 1) - 1 = r
    OBVIOUS
  <2> HIDE DEF orbit
  <2> QED
    BY <1>6, <2>1
<1>9. \A r \in Nat : orbit[r] \in Nat
  <2> DEFINE T == {r \in Nat : orbit[r] \in Nat}
  <2> HIDE DEF orbit
  <2>1. 0 \in T
    BY <1>7
  <2>2. ASSUME NEW r \in Nat, r \in T PROVE r + 1 \in T
    BY <1>8, <2>2
  <2> HIDE DEF T
  <2>3. \A r \in Nat : r \in T
    BY <2>1, <2>2, Induction
  <2> QED
    BY <2>3 DEF T
<1>10. orbit = [r \in Nat |-> orbit[r]]
  <2> HIDE DEF orbit
  <2> QED
    BY <1>6
<1> HIDE DEF orbit
<1>11. orbit \in [Nat -> Nat]
  BY <1>9, <1>10
<1> QED
  BY <1>7, <1>8, <1>11 DEF orbit

LEMMA SumsValues ==
  ASSUME NEW s \in Seq(Int)
  PROVE  /\ Len(s) \in Nat
         /\ Sums(s)[0] = 0
         /\ \A b \in 1 .. Len(s) : Sums(s)[b] = Sums(s)[b - 1] + s[b]
         /\ \A b \in 0 .. Len(s) : Sums(s)[b] \in Int
<1> DEFINE N == Len(s)
           g == [n \in Nat |-> [m \in Int |-> IF n + 1 \in 1 .. N THEN m + s[n + 1] ELSE m]]
           Unfolds(h) == h = [b \in 0 .. N |-> IF b = 0 THEN 0 ELSE h[b - 1] + s[b]]
<1>0. N \in Nat /\ \A b \in 1 .. N : s[b] \in Int
  OBVIOUS
<1>1. g \in Steps(Int)
  <2> HIDE DEF N
  <2>1. ASSUME NEW n \in Nat, NEW m \in Int
        PROVE  (IF n + 1 \in 1 .. N THEN m + s[n + 1] ELSE m) \in Int
    BY <1>0
  <2> QED
    BY <2>1 DEF Steps
<1>2. PICK f \in [Nat -> Int] : f[0] = 0 /\ \A n \in Nat : f[n + 1] = g[n][f[n]]
  <2> HIDE DEF g
  <2>0. 0 \in Int
    OBVIOUS
  <2>1. \E f : Recurs(f, Int, 0, g)
    BY <1>1, <2>0, Recursion
  <2> QED
    BY <2>1 DEF Recurs
<1> HIDE DEF N
<1>3. ASSUME NEW b \in 1 .. N PROVE f[b] = f[b - 1] + s[b]
  <2>1. b - 1 \in Nat /\ (b - 1) + 1 = b
    BY <1>0
  <2>2. f[b] = g[b - 1][f[b - 1]] /\ f[b - 1] \in Int
    <3> HIDE DEF g
    <3> QED
      BY <1>2, <2>1
  <2> QED
    BY <2>1, <2>2
<1> HIDE DEF g
<1> DEFINE h == [b \in 0 .. N |-> f[b]]
<1>4. Unfolds(h)
  <2>1. ASSUME NEW b \in 0 .. N PROVE h[b] = IF b = 0 THEN 0 ELSE h[b - 1] + s[b]
    <3>1. CASE b = 0
      BY <3>1, <1>2
    <3>2. CASE b # 0
      <4>1. b \in 1 .. N /\ b - 1 \in 0 .. N
        BY <1>0, <3>2
      <4> QED
        BY <4>1, <1>3, <3>2
    <3> QED
      BY <3>1, <3>2
  <2>2. h = [b \in 0 .. N |-> h[b]]
    OBVIOUS
  <2> HIDE DEF h
  <2> QED
    BY <2>1, <2>2
<1>5. Sums(s) = CHOOSE Sum : Unfolds(Sum)
  BY DEF Sums, N
<1>6. Unfolds(Sums(s))
  <2> HIDE DEF h, Unfolds
  <2> QED
    BY <1>4, <1>5
<1> DEFINE S == Sums(s)
<1> HIDE DEF S
<1>7. S = [b \in 0 .. N |-> IF b = 0 THEN 0 ELSE S[b - 1] + s[b]]
  BY <1>6 DEF S
<1>8. S[0] = 0 /\ \A b \in 1 .. N : S[b] = S[b - 1] + s[b]
  BY <1>7, <1>0
<1>9. \A b \in 0 .. N : S[b] \in Int
  <2> DEFINE T == {b \in 0 .. N : S[b] \in Int}
  <2>1. 0 \in T
    BY <1>8, <1>0
  <2>2. ASSUME NEW n \in 0 .. N - 1, n \in T PROVE n + 1 \in T
    <3>1. n + 1 \in 1 .. N /\ (n + 1) - 1 = n
      BY <1>0
    <3>2. S[n + 1] = S[n] + s[n + 1]
      BY <3>1, <1>8
    <3> QED
      BY <3>1, <3>2, <2>2, <1>0
  <2> HIDE DEF T
  <2>3. \A b \in 0 .. N : b \in T
    BY <2>1, <2>2, <1>0, InductionTo
  <2> QED
    BY <2>3 DEF T
<1> QED
  BY <1>0, <1>8, <1>9 DEF S, N

\* One number more.
LEMMA SumsAppend ==
  ASSUME NEW s \in Seq(Int), NEW e \in Int
  PROVE  LET r == Append(s, e)
         IN /\ r \in Seq(Int) /\ Len(r) = Len(s) + 1
            /\ \A b \in 0 .. Len(s) : Sums(r)[b] = Sums(s)[b]
            /\ Sums(r)[Len(s) + 1] = Sums(s)[Len(s)] + e
<1> DEFINE r == Append(s, e)
           N == Len(s)
<1>1. /\ r \in Seq(Int) /\ Len(r) = N + 1 /\ N \in Nat
      /\ \A b \in 1 .. N : r[b] = s[b]
      /\ r[N + 1] = e
  BY AppendProperties
<1> HIDE DEF r
<1>2. /\ Sums(s)[0] = 0 /\ Sums(r)[0] = 0
      /\ \A b \in 1 .. N : Sums(s)[b] = Sums(s)[b - 1] + s[b]
      /\ \A b \in 1 .. N + 1 : Sums(r)[b] = Sums(r)[b - 1] + r[b]
  BY <1>1, SumsValues
<1> HIDE DEF N
<1>3. \A b \in 0 .. N : Sums(r)[b] = Sums(s)[b]
  <2> DEFINE T == {b \in 0 .. N : Sums(r)[b] = Sums(s)[b]}
  <2>1. 0 \in T
    BY <1>1, <1>2
  <2>2. ASSUME NEW n \in 0 .. N - 1, n \in T PROVE n + 1 \in T
    <3>1. n + 1 \in 1 .. N /\ n + 1 \in 1 .. N + 1 /\ (n + 1) - 1 = n
      BY <1>1
    <3>2. Sums(r)[n + 1] = Sums(r)[n] + r[n + 1] /\ Sums(s)[n + 1] = Sums(s)[n] + s[n + 1]
      BY <3>1, <1>2
    <3>3. r[n + 1] = s[n + 1]
      BY <3>1, <1>1
    <3> QED
      BY <3>1, <3>2, <3>3, <2>2
  <2> HIDE DEF T
  <2>3. \A b \in 0 .. N : b \in T
    BY <2>1, <2>2, <1>1, InductionTo
  <2> QED
    BY <2>3 DEF T
<1>4. Sums(r)[N + 1] = Sums(s)[N] + e
  <2>1. N + 1 \in 1 .. N + 1 /\ (N + 1) - 1 = N /\ N \in 0 .. N
    BY <1>1
  <2> QED
    BY <2>1, <1>1, <1>2, <1>3
<1> QED
  BY <1>1, <1>3, <1>4 DEF r, N

-----------------------------------------------------------------------------
(* max_subarray: the best sum and the best one that ends at the last number *)
(* go on from number to number.                                             *)

Greatest(v, S) == v \in S /\ \A u \in S : u <= v

StretchSums(s) == {Sums(s)[p[2]] - Sums(s)[p[1]] : p \in Stretches(s)}
EndingSums(s) ==
  {Sums(s)[Len(s)] - Sums(s)[a] : a \in 0 .. (IF s = <<>> THEN 0 ELSE Len(s) - 1)}

\* What x and y are after the numbers of s, as long as no sum is too great.
SumsKept(s, best, ending) ==
  \E b, e \in Int :
    /\ Greatest(b, StretchSums(s)) /\ Greatest(e, EndingSums(s))
    /\ b \in CInts => best = b /\ ending = e

LEMMA GreatestIsMax ==
  ASSUME NEW S, S \subseteq Int, NEW v, Greatest(v, S)
  PROVE  Max(S) = v
<1>1. \A w : w \in S /\ (\A u \in S : w >= u) => w = v
  BY DEF Greatest
<1>2. v \in S /\ \A u \in S : v >= u
  BY DEF Greatest
<1> QED
  BY <1>1, <1>2 DEF Max

LEMMA SumsStart == SumsKept(<<>>, 0, 0)
<1>1. <<>> \in Seq(Int) /\ Len(<<>>) = 0
  OBVIOUS
<1>2. Sums(<<>>)[0] = 0
  BY <1>1, SumsValues
<1>3. EndingSums(<<>>) = {0}
  BY <1>1, <1>2 DEF EndingSums
<1>4. Stretches(<<>>) = {<<0, 0>>}
  BY <1>1 DEF Stretches
<1>5. StretchSums(<<>>) = {0}
  <2>1. \A p \in {<<0, 0>>} : p[1] = 0 /\ p[2] = 0
    OBVIOUS
  <2>2. 0 - 0 = 0
    OBVIOUS
  <2>3. \A p \in Stretches(<<>>) : Sums(<<>>)[p[2]] - Sums(<<>>)[p[1]] = 0
    BY <1>2, <1>4, <2>1, <2>2
  <2>4. \A v \in StretchSums(<<>>) : v = 0
    BY <2>3 DEF StretchSums
  <2>5. Sums(<<>>)[<<0, 0>>[2]] - Sums(<<>>)[<<0, 0>>[1]] \in StretchSums(<<>>)
    BY <1>4 DEF StretchSums
  <2> QED
    BY <2>4, <2>5
<1> QED
  BY <1>3, <1>5 DEF SumsKept, Greatest

LEMMA SumsGoOn ==
  ASSUME NEW s \in Seq(Inputs), NEW add \in Inputs,
         NEW best \in Int, NEW ending \in Int, SumsKept(s, best, ending)
  PROVE  LET sum == Wrap(ending + add)
             e == IF sum > add THEN sum ELSE add
         IN SumsKept(Append(s, add), IF best > e THEN best ELSE e, e)
<1> DEFINE N == Len(s)
           r == Append(s, add)
           S == Sums(s)
           R == Sums(r)
<1>0. /\ s \in Seq(Int) /\ add \in Int /\ N \in Nat
      /\ s = <<>> <=> N = 0
      /\ r # <<>>
      /\ \A k \in 1 .. N : s[k] \in Inputs
  <2>1. Inputs \subseteq Int
    BY ThreadsAssumption
  <2>2. s \in Seq(Int)
    BY <2>1, SeqMonotonic
  <2> QED
    BY <2>1, <2>2
<1>1. /\ r \in Seq(Int) /\ Len(r) = N + 1
      /\ \A b \in 0 .. N : R[b] = S[b]
      /\ R[N + 1] = S[N] + add
  BY <1>0, SumsAppend
<1>2. /\ S[0] = 0
      /\ \A b \in 1 .. N : S[b] = S[b - 1] + s[b]
      /\ \A b \in 0 .. N : S[b] \in Int
  BY <1>0, SumsValues
<1>3. PICK B \in Int, E \in Int :
        /\ Greatest(B, StretchSums(s)) /\ Greatest(E, EndingSums(s))
        /\ B \in CInts => best = B /\ ending = E
  BY DEF SumsKept
<1>4. EndingSums(s) = {S[N] - S[a] : a \in 0 .. (IF N = 0 THEN 0 ELSE N - 1)}
  BY <1>0 DEF EndingSums
<1>5. EndingSums(r) = {R[N + 1] - R[a] : a \in 0 .. N}
  <2>1. (N + 1) - 1 = N
    BY <1>0
  <2> HIDE DEF r, R
  <2>2. R = Sums(r)
    BY DEF R
  <2> HIDE DEF N
  <2> QED
    BY <1>0, <1>1, <2>1, <2>2 DEF EndingSums
<1>6. /\ StretchSums(s) = {S[p[2]] - S[p[1]] : p \in Stretches(s)}
      /\ StretchSums(r) = {R[p[2]] - R[p[1]] : p \in Stretches(r)}
  BY DEF StretchSums
<1>7. \A a, b \in 0 .. N : a <= b => S[b] - S[a] <= B
  <2> SUFFICES ASSUME NEW a \in 0 .. N, NEW b \in 0 .. N, a <= b PROVE S[b] - S[a] <= B
    OBVIOUS
  <2>1. <<a, b>> \in Stretches(s)
    BY DEF Stretches
  <2> HIDE DEF N, S
  <2>2. S[b] - S[a] \in StretchSums(s)
    BY <1>6, <2>1
  <2> QED
    BY <2>2, <1>3 DEF Greatest
<1>8. PICK p \in Stretches(s) : B = S[p[2]] - S[p[1]]
  BY <1>3, <1>6 DEF Greatest
<1>9. p[1] \in 0 .. N /\ p[2] \in 0 .. N /\ p[1] <= p[2] /\ p = <<p[1], p[2]>>
  BY DEF Stretches
<1>10. PICK z \in 0 .. (IF N = 0 THEN 0 ELSE N - 1) : E = S[N] - S[z]
  BY <1>3, <1>4 DEF Greatest
<1>11. \A a \in 0 .. (IF N = 0 THEN 0 ELSE N - 1) : S[N] - S[a] <= E
  BY <1>3, <1>4 DEF Greatest
<1> HIDE DEF N, r, S, R
<1> DEFINE E1 == IF E + add > add THEN E + add ELSE add
           B1 == IF B > E1 THEN B ELSE E1
<1>12. E1 \in Int /\ B1 \in Int /\ E + add <= E1 /\ add <= E1 /\ E1 <= B1 /\ B <= B1
  BY <1>0
<1>13. Greatest(E1, EndingSums(r))
  <2>1. ASSUME NEW a \in 0 .. N PROVE R[N + 1] - R[a] <= E1
    <3>1. R[N + 1] - R[a] = (S[N] - S[a]) + add /\ S[a] \in Int /\ S[N] \in Int
      BY <1>0, <1>1, <1>2
    <3>2. CASE a = N
      BY <1>0, <1>12, <3>1, <3>2
    <3>3. CASE a # N
      <4>1. S[N] - S[a] <= E
        BY <1>0, <1>11, <3>3
      <4> QED
        BY <1>0, <1>12, <3>1, <4>1
    <3> QED
      BY <3>2, <3>3
  <2>2. \E a \in 0 .. N : R[N + 1] - R[a] = E1
    <3>1. CASE E + add > add
      <4>1. z \in 0 .. N
        BY <1>0
      <4>2. R[z] = S[z] /\ S[z] \in Int /\ S[N] \in Int
        BY <1>0, <1>1, <1>2, <4>1
      <4>3. R[N + 1] = S[N] + add /\ E = S[N] - R[z] /\ R[z] \in Int
        BY <1>1, <1>10, <4>2
      <4>4. R[N + 1] - R[z] = E + add
        BY <1>0, <4>2, <4>3
      <4> QED
        BY <3>1, <4>1, <4>4
    <3>2. CASE ~(E + add > add)
      <4>1. N \in 0 .. N
        BY <1>0
      <4>2. R[N + 1] - R[N] = add
        BY <1>0, <1>1, <1>2, <4>1
      <4> QED
        BY <3>2, <4>1, <4>2
    <3> QED
      BY <3>1, <3>2
  <2> HIDE DEF E1
  <2> QED
    BY <2>1, <2>2, <1>5 DEF Greatest
<1>14. Stretches(r) = {q \in (0 .. N + 1) \X (0 .. N + 1) : q[1] <= q[2]}
  BY <1>1 DEF Stretches
<1>15. \A a \in 0 .. N : R[N + 1] - R[a] <= E1
  <2> HIDE DEF E1
  <2> QED
    BY <1>13, <1>5 DEF Greatest
<1>16. 0 <= B
  <2>1. 0 \in 0 .. N
    BY <1>0
  <2>2. S[0] - S[0] <= B
    BY <2>1, <1>7
  <2> QED
    BY <2>2, <1>2
<1>17. Greatest(B1, StretchSums(r))
  <2>1. ASSUME NEW q \in Stretches(r) PROVE R[q[2]] - R[q[1]] <= B1
    <3>1. q[1] \in 0 .. N + 1 /\ q[2] \in 0 .. N + 1 /\ q[1] <= q[2]
      BY <1>14
    <3>2. CASE q[2] # N + 1
      <4>1. q[1] \in 0 .. N /\ q[2] \in 0 .. N
        BY <3>1, <3>2, <1>0
      <4>2. R[q[2]] - R[q[1]] <= B
        BY <4>1, <3>1, <1>1, <1>7
      <4>3. R[q[2]] \in Int /\ R[q[1]] \in Int
        BY <4>1, <1>1, <1>2
      <4> QED
        BY <4>2, <4>3, <1>12
    <3>3. CASE q[2] = N + 1 /\ q[1] # N + 1
      <4>1. q[1] \in 0 .. N
        BY <3>1, <3>3, <1>0
      <4>2. R[N + 1] - R[q[1]] <= E1
        BY <4>1, <1>15
      <4>3. R[N + 1] \in Int /\ R[q[1]] \in Int
        <5>1. N \in 0 .. N
          BY <1>0
        <5>2. S[N] \in Int /\ S[q[1]] \in Int /\ R[q[1]] = S[q[1]]
          BY <4>1, <5>1, <1>1, <1>2
        <5> QED
          BY <5>2, <1>0, <1>1
      <4> HIDE DEF E1, B1
      <4> QED
        BY <4>2, <4>3, <3>3, <1>12
    <3>4. CASE q[2] = N + 1 /\ q[1] = N + 1
      <4>1. R[N + 1] \in Int
        BY <1>0, <1>1, <1>2
      <4> HIDE DEF E1, B1
      <4> QED
        BY <4>1, <3>4, <1>12, <1>16
    <3> QED
      BY <3>2, <3>3, <3>4
  <2>2. \E q \in Stretches(r) : R[q[2]] - R[q[1]] = B1
    <3>1. CASE B > E1
      <4>1. <<p[1], p[2]>> \in Stretches(r)
        BY <1>0, <1>9, <1>14
      <4>2. R[p[2]] - R[p[1]] = B
        BY <1>1, <1>8, <1>9
      <4> QED
        BY <3>1, <4>1, <4>2
    <3>2. CASE ~(B > E1)
      <4>1. PICK a \in 0 .. N : R[N + 1] - R[a] = E1
        <5> HIDE DEF E1
        <5> QED
          BY <1>13, <1>5 DEF Greatest
      <4>2. <<a, N + 1>> \in Stretches(r)
        BY <1>0, <1>14
      <4> HIDE DEF E1
      <4> QED
        BY <3>2, <4>1, <4>2
    <3> QED
      BY <3>1, <3>2
  <2> HIDE DEF B1
  <2> QED
    BY <2>1, <2>2, <1>6 DEF Greatest, StretchSums, R
<1>18. ASSUME B1 \in CInts
       PROVE  LET e == IF Wrap(ending + add) > add THEN Wrap(ending + add) ELSE add
              IN (IF best > e THEN best ELSE e) = B1 /\ e = E1
  <2>1. B \in CInts
    BY <1>18, <1>12, <1>16, IntHalfType DEF CInts
  <2>2. best = B /\ ending = E
    BY <2>1, <1>3
  <2>3. E + add >= -IntHalf
    <3>1. CASE N = 0
      <4>1. E = 0 /\ add \in CInts
        BY <3>1, <1>2, <1>10, FunctionsAssumption
      <4> QED
        BY <4>1, IntHalfType DEF CInts
    <3>2. CASE N # 0
      <4>1. N \in 1 .. N /\ N - 1 \in 0 .. N - 1 /\ N \in 0 .. N /\ N - 1 \in 0 .. N
        BY <3>2, <1>0
      <4>2. S[N] - S[N - 1] <= E
        BY <4>1, <3>2, <1>11
      <4>3. S[N] = S[N - 1] + s[N] /\ S[N - 1] \in Int /\ S[N] \in Int /\ s[N] \in Inputs
        BY <4>1, <1>0, <1>2
      <4>4. s[N] + add \in CInts /\ s[N] \in CInts
        BY <4>3, FunctionsAssumption
      <4>5. s[N] + add >= -IntHalf /\ s[N] \in Int
        BY <4>4, IntHalfType DEF CInts
      <4>6. s[N] <= E
        BY <4>2, <4>3, <4>5
      <4> QED
        BY <4>5, <4>6, <1>0, IntHalfType
    <3> QED
      BY <3>1, <3>2
  <2>4. E + add \in CInts
    <3> HIDE DEF E1, B1
    <3> QED
      BY <2>3, <1>18, <1>12, <1>0, IntHalfType DEF CInts
  <2>5. Wrap(ending + add) = E + add
    BY <2>2, <2>4, WrapFits
  <2> QED
    BY <2>2, <2>5
<1> DEFINE e2 == IF Wrap(ending + add) > add THEN Wrap(ending + add) ELSE add
           b2 == IF best > e2 THEN best ELSE e2
<1>19. B1 \in CInts => b2 = B1 /\ e2 = E1
  BY <1>18
<1> HIDE DEF E1, B1, e2, b2
<1>20. SumsKept(r, b2, e2)
  BY <1>12, <1>13, <1>17, <1>19 DEF SumsKept
<1> QED
  BY <1>20 DEF r, e2, b2

-----------------------------------------------------------------------------
(* What a thread has taken from its FIFO, and what is left there.           *)

LEMMA TakeOne ==
  ASSUME NEW S, NEW w \in Seq(S), NEW n \in Nat, n < Len(w)
  PROVE  LET left == SubSeq(w, n + 1, Len(w))
         IN /\ SubSeq(w, 1, n) \in Seq(S)
            /\ SubSeq(w, 1, n + 1) = Append(SubSeq(w, 1, n), w[n + 1])
            /\ Head(left) = w[n + 1] /\ Tail(left) = SubSeq(w, (n + 1) + 1, Len(w))
<1>1. n + 1 \in 1 .. Len(w) /\ Len(w) \in n + 1 .. Len(w) /\ 1 \in 1 .. Len(w)
      /\ n + 1 \in 1 .. Len(w) /\ (n + 1) - 1 = n
  OBVIOUS
<1>2. SubSeq(w, 1, n) \in Seq(S)
  OBVIOUS
<1>3. SubSeq(w, 1, n + 1) = Append(SubSeq(w, 1, n), w[n + 1])
  <2>1. SubSeq(w, 1, n + 1) = SubSeq(w, 1, (n + 1) - 1) \o <<w[n + 1]>>
    BY <1>1, SubSeqRecursiveSecond
  <2>2. w[n + 1] \in S
    BY <1>1
  <2>3. SubSeq(w, 1, n) \o <<w[n + 1]>> = Append(SubSeq(w, 1, n), w[n + 1])
    BY <1>2, <2>2, AppendIsConcat
  <2> QED
    BY <1>1, <2>1, <2>3
<1> QED
  BY <1>1, <1>2, <1>3, HeadTailOfSubSeq

LEMMA PutOne ==
  ASSUME NEW S, NEW w \in Seq(S), NEW e \in S, NEW n \in Nat, n <= Len(w)
  PROVE  LET r == Append(w, e)
         IN /\ Len(r) = Len(w) + 1
            /\ SubSeq(r, 1, n) = SubSeq(w, 1, n)
            /\ SubSeq(r, n + 1, Len(r)) = Append(SubSeq(w, n + 1, Len(w)), e)
<1> DEFINE r == Append(w, e)
           left == SubSeq(w, n + 1, Len(w))
           leftr == SubSeq(r, n + 1, Len(w) + 1)
           taken == SubSeq(w, 1, n)
           takenr == SubSeq(r, 1, n)
<1>0. Len(w) \in Nat
  OBVIOUS
<1>1. /\ r \in Seq(S) /\ Len(r) = Len(w) + 1
      /\ \A k \in 1 .. Len(w) : r[k] = w[k]
      /\ r[Len(w) + 1] = e
  BY AppendProperties
<1> HIDE DEF r
<1>2. /\ taken \in Seq(S) /\ Len(taken) = n
      /\ \A k \in 1 .. n : taken[k] = w[k]
  BY <1>0
<1>3. /\ takenr \in Seq(S) /\ Len(takenr) = n
      /\ \A k \in 1 .. n : takenr[k] = r[k]
  BY <1>0, <1>1
<1>4. /\ left \in Seq(S) /\ Len(left) = Len(w) - n
      /\ \A k \in 1 .. Len(w) - n : left[k] = w[n + k]
  BY <1>0
<1>5. /\ leftr \in Seq(S) /\ Len(leftr) = (Len(w) + 1) - n
      /\ \A k \in 1 .. (Len(w) + 1) - n : leftr[k] = r[n + k]
  BY <1>0, <1>1
<1> HIDE DEF left, leftr, taken, takenr
<1>6. takenr = taken
  <2>1. \A k \in 1 .. n : takenr[k] = taken[k]
    BY <1>0, <1>1, <1>2, <1>3
  <2> QED
    BY <1>2, <1>3, <2>1, SeqEqual
<1>7. leftr = Append(left, e)
  <2>1. /\ Append(left, e) \in Seq(S) /\ Len(Append(left, e)) = Len(left) + 1
        /\ \A k \in 1 .. Len(left) : Append(left, e)[k] = left[k]
        /\ Append(left, e)[Len(left) + 1] = e
    BY <1>4, AppendProperties
  <2>2. \A k \in 1 .. Len(leftr) : leftr[k] = Append(left, e)[k]
    <3> SUFFICES ASSUME NEW k \in 1 .. Len(leftr) PROVE leftr[k] = Append(left, e)[k]
      OBVIOUS
    <3>1. leftr[k] = r[n + k]
      BY <1>5
    <3>2. CASE k <= Len(left)
      BY <3>1, <3>2, <2>1, <1>0, <1>1, <1>4
    <3>3. CASE k = Len(left) + 1
      BY <3>1, <3>3, <2>1, <1>0, <1>1, <1>4
    <3>4. Len(left) \in Nat /\ Len(leftr) = Len(left) + 1
      BY <1>0, <1>4, <1>5
    <3> QED
      BY <3>2, <3>3, <3>4
  <2>3. Len(leftr) = Len(Append(left, e))
    BY <1>0, <1>4, <1>5, <2>1
  <2> QED
    BY <1>5, <2>1, <2>2, <2>3, SeqEqual
<1> QED
  BY <1>1, <1>6, <1>7 DEF r, left, leftr, taken, takenr

-----------------------------------------------------------------------------
(* The steps of a thread function are steps of the scheduler's threads.     *)

LEMMA FInitInit == FInit => Init
  BY DEF FInit

LEMMA FNextNext == [FNext]_fvars => [Next]_vars
  BY DEF FNext, FProgram, fvars, fibonacci, collatz, max_subarray, Exits,
         Continues, Switches, FStopKey, FExpire, Feed, Next, Program, Environment

-----------------------------------------------------------------------------
(* The inductive invariant.                                                 *)

\* The rounds that a thread has behind it.
Rounds(t) == IF pc = "round" /\ RUNNING = t THEN i[t] ELSE i[t] - 1

AtFibonacci(t) ==
  Rounds(t) >= 1 => /\ y[t] = Wrap(Fibonacci[Rounds(t)])
                    /\ x[t] = Wrap(Fibonacci[Rounds(t) - 1])

AtCollatz(t) ==
  LET orbit == CollatzFrom(asked[t])
  IN (\A r \in 1 .. Rounds(t) : orbit[r] \in CInts) => arg[t] = orbit[Rounds(t)]

AtMaxSubarray(t) ==
  /\ Rounds(t) <= Len(written[t])
  /\ fifo[t] = SubSeq(written[t], Rounds(t) + 1, Len(written[t]))
  /\ SumsKept(SubSeq(written[t], 1, Rounds(t)), x[t], y[t])

\* How far a thread is, as long as it is there and its rounds are counted.
Progress(t) ==
  t \notin freed /\ i[t] < MaxRound =>
    /\ function[t] = "fibonacci" => AtFibonacci(t)
    /\ function[t] = "collatz" => AtCollatz(t)
    /\ function[t] = "max_subarray" => AtMaxSubarray(t)

FInv == IInv /\ FunctionsTypeOK /\ \A t \in ThreadSet : Progress(t)

LEMMA FieldTypes ==
  ASSUME FunctionsTypeOK
  PROVE  /\ arg \in [ThreadSet -> CInts] /\ x \in [ThreadSet -> CInts] /\ y \in [ThreadSet -> CInts]
         /\ i \in [ThreadSet -> 1 .. MaxRound]
         /\ asked \in Args /\ asked \in [ThreadSet -> CInts \cap Nat]
         /\ written \in [ThreadSet -> Seq(Inputs)]
         /\ fifo \in [ThreadSet -> Seq(Inputs)] /\ buf \in [ThreadSet -> Inputs \cup {0}]
  BY FunctionsAssumption DEF FunctionsTypeOK, TypeOK

LEMMA InitFInv == FInit => FInv
<1> SUFFICES ASSUME FInit PROVE FInv
  OBVIOUS
<1>1. IInv
  BY FInitInit, InitIInv
<1>2. 0 \in CInts /\ 1 \in 1 .. MaxRound
  BY FunctionsAssumption DEF CInts
<1>3. asked \in [ThreadSet -> CInts \cap Nat]
  BY FunctionsAssumption DEF FInit
<1>4. FunctionsTypeOK
  <2>1. x \in [ThreadSet -> CInts] /\ y \in [ThreadSet -> CInts] /\ arg \in [ThreadSet -> CInts]
    BY <1>2, <1>3 DEF FInit
  <2>2. i \in [ThreadSet -> 1 .. MaxRound] /\ asked \in Args
    BY <1>2 DEF FInit
  <2>3. written \in [ThreadSet -> Seq(Inputs)]
    BY DEF FInit
  <2> QED
    BY <1>1, <2>1, <2>2, <2>3 DEF FunctionsTypeOK, IInv
<1>5. ASSUME NEW t \in ThreadSet PROVE Progress(t)
  <2>1. /\ Rounds(t) = 0 /\ x[t] = 0 /\ y[t] = 0 /\ arg[t] = asked[t]
        /\ written[t] = <<>> /\ fifo[t] = <<>>
    BY DEF FInit, Init, Rounds
  <2>2. AtFibonacci(t)
    BY <2>1 DEF AtFibonacci
  <2>3. AtCollatz(t)
    <3>1. CollatzFrom(asked[t])[0] = asked[t]
      BY <1>3, CollatzValues
    <3> QED
      BY <2>1, <3>1 DEF AtCollatz
  <2>4. AtMaxSubarray(t)
    <3>1. Len(<<>>) = 0 /\ SubSeq(<<>>, 0 + 1, 0) = <<>> /\ SubSeq(<<>>, 1, 0) = <<>>
      BY SubSeqEmpty
    <3>2. SumsKept(SubSeq(written[t], 1, Rounds(t)), x[t], y[t])
      BY <2>1, <3>1, SumsStart, Zenon
    <3>3. SubSeq(written[t], Rounds(t) + 1, Len(written[t])) = <<>> /\ Len(written[t]) = 0
      BY <2>1, <3>1, Zenon
    <3> QED
      BY <2>1, <3>2, <3>3 DEF AtMaxSubarray
  <2> QED
    BY <2>2, <2>3, <2>4 DEF Progress
<1> QED
  BY <1>1, <1>4, <1>5 DEF FInv

\* A thread that a step leaves alone is as far as it was.
LEMMA LeftAlone ==
  ASSUME NEW t, Progress(t), Rounds(t)' = Rounds(t),
         t \in freed => t \in freed', i'[t] < MaxRound => i[t] < MaxRound,
         UNCHANGED <<arg[t], x[t], y[t], asked[t], fifo[t], written[t]>>
  PROVE  Progress(t)'
<1>1. AtFibonacci(t) => AtFibonacci(t)'
  BY DEF AtFibonacci
<1>2. AtCollatz(t) => AtCollatz(t)'
  BY DEF AtCollatz
<1>3. AtMaxSubarray(t) => AtMaxSubarray(t)'
  BY DEF AtMaxSubarray
<1> QED
  BY <1>1, <1>2, <1>3 DEF Progress

\* The thread that runs a round counts it; the others stay where they are.
LEMMA RoundStep ==
  ASSUME FInv, fibonacci \/ collatz \/ max_subarray
  PROVE  /\ IInv' /\ UNCHANGED <<i, asked, written, freed>>
         /\ \E t \in ThreadSet :
              /\ RUNNING = t
              /\ Rounds(t) = i[t] - 1 /\ Rounds(t)' = i[t]
              /\ \A u \in ThreadSet \ {t} : Rounds(u)' = Rounds(u)
<1>1. IInv'
  BY FNextNext, NextIInv DEF FInv, FNext, FProgram
<1>2. pc = "run" /\ pc' = "round" /\ UNCHANGED <<ready_queue, rq_current, i, asked, written, freed>>
  BY DEF fibonacci, collatz, max_subarray, Round, ReadRound
<1>3. RUNNING \in ThreadSet
  BY <1>2, RunningIsReady DEF FInv
<1> QED
  BY <1>1, <1>2, <1>3 DEF Rounds, RUNNING

LEMMA FibonacciFInv == ASSUME FInv, fibonacci PROVE FInv'
<1>a. IInv' /\ UNCHANGED <<i, asked, written, freed>>
  BY RoundStep
<1>b. PICK t \in ThreadSet :
        /\ RUNNING = t
        /\ Rounds(t) = i[t] - 1 /\ Rounds(t)' = i[t]
        /\ \A u \in ThreadSet \ {t} : Rounds(u)' = Rounds(u)
  BY RoundStep
<1> DEFINE k == i[t]
<1>0. /\ IInv' /\ UNCHANGED <<i, asked, written, freed>>
      /\ Rounds(t) = k - 1 /\ Rounds(t)' = k
      /\ \A u \in ThreadSet \ {t} : Rounds(u)' = Rounds(u)
  BY <1>a, <1>b
<1>1. /\ arg \in [ThreadSet -> CInts] /\ x \in [ThreadSet -> CInts] /\ y \in [ThreadSet -> CInts]
      /\ i \in [ThreadSet -> 1 .. MaxRound]
  BY FieldTypes DEF FInv
<1>2. /\ UNCHANGED <<arg, fifo>> /\ function[t] = "fibonacci"
      /\ x' = [x EXCEPT ![t] = IF k <= 2 THEN 1 ELSE y[t]]
      /\ y' = [y EXCEPT ![t] = IF k <= 2 THEN 1 ELSE Wrap(x[t] + y[t])]
  BY <1>b DEF fibonacci, Round
<1>3. k \in Nat /\ k >= 1
  BY <1>0, <1>1, FunctionsAssumption
<1>4. 1 \in CInts /\ Wrap(1) = 1
  BY WrapFits, IntHalfType DEF CInts
<1>5. Wrap(x[t] + y[t]) \in CInts
  <2>1. x[t] \in CInts /\ y[t] \in CInts
    BY <1>0, <1>1
  <2>2. x[t] \in Int /\ y[t] \in Int
    BY <2>1, IntHalfType DEF CInts
  <2> QED
    BY <2>2, WrapQuotient
<1>6. FunctionsTypeOK'
  <2>1. x' \in [ThreadSet -> CInts]
    BY <1>0, <1>1, <1>2, <1>4
  <2>2. y' \in [ThreadSet -> CInts]
    BY <1>0, <1>1, <1>2, <1>4, <1>5
  <2>3. TypeOK'
    BY <1>0 DEF IInv
  <2> QED
    BY <1>0, <1>2, <2>1, <2>2, <2>3 DEF FunctionsTypeOK, FInv
<1>7. ASSUME NEW u \in ThreadSet, u # t PROVE Progress(u)'
  <2>1. Progress(u)
    BY DEF FInv
  <2>2. UNCHANGED <<arg[u], x[u], y[u], asked[u], fifo[u], written[u]>>
    BY <1>0, <1>1, <1>2, <1>7
  <2> QED
    BY <1>0, <1>7, <2>1, <2>2, LeftAlone
<1>8. Progress(t)'
  <2> SUFFICES ASSUME t \notin freed, k < MaxRound PROVE AtFibonacci(t)'
    BY <1>0, <1>2 DEF Progress
  <2>1. AtFibonacci(t)
    <3>1. Progress(t)
      BY <1>0 DEF FInv
    <3> QED
      BY <3>1, <1>2 DEF Progress
  <2>2. x'[t] = (IF k <= 2 THEN 1 ELSE y[t]) /\ y'[t] = IF k <= 2 THEN 1 ELSE Wrap(x[t] + y[t])
    BY <1>0, <1>1, <1>2
  <2>3. CASE k <= 2
    <3>1. Fibonacci[k] = 1 /\ Fibonacci[k - 1] = 1
      <4>1. k - 1 \in Nat /\ k - 1 <= 2
        BY <1>3, <2>3
      <4> QED
        BY <1>3, <2>3, <4>1, FibonacciValues
    <3> QED
      BY <1>0, <1>4, <2>2, <2>3, <3>1 DEF AtFibonacci
  <2>4. CASE k > 2
    <3>1. k - 1 \in Nat /\ k - 2 \in Nat /\ k - 1 >= 1 /\ (k - 1) - 1 = k - 2
      BY <1>3, <2>4
    <3>2. y[t] = Wrap(Fibonacci[k - 1]) /\ x[t] = Wrap(Fibonacci[k - 2])
      BY <1>0, <2>1, <3>1 DEF AtFibonacci
    <3>3. /\ Fibonacci[k] = Fibonacci[k - 2] + Fibonacci[k - 1]
          /\ Fibonacci[k - 1] \in Int /\ Fibonacci[k - 2] \in Int
      BY <1>3, <2>4, <3>1, FibonacciValues
    <3>4. y'[t] = Wrap(Fibonacci[k])
      <4>1. Wrap(Wrap(Fibonacci[k - 2]) + Wrap(Fibonacci[k - 1]))
              = Wrap(Fibonacci[k - 2] + Fibonacci[k - 1])
        <5>1. \A m, n \in Int : Wrap(Wrap(m) + Wrap(n)) = Wrap(m + n)
          BY WrapSums
        <5> QED
          BY <3>3, <5>1
      <4>2. y'[t] = Wrap(x[t] + y[t])
        BY <1>3, <2>2, <2>4
      <4> QED
        BY <3>2, <3>3, <4>1, <4>2
    <3>5. x'[t] = Wrap(Fibonacci[k - 1])
      BY <2>2, <2>4, <3>2, <1>3
    <3> QED
      BY <1>0, <3>4, <3>5 DEF AtFibonacci
  <2> QED
    BY <1>3, <2>3, <2>4
<1> QED
  BY <1>0, <1>6, <1>7, <1>8 DEF FInv

LEMMA CollatzFInv == ASSUME FInv, collatz PROVE FInv'
<1>a. IInv' /\ UNCHANGED <<i, asked, written, freed>>
  BY RoundStep
<1>b. PICK t \in ThreadSet :
        /\ RUNNING = t
        /\ Rounds(t) = i[t] - 1 /\ Rounds(t)' = i[t]
        /\ \A u \in ThreadSet \ {t} : Rounds(u)' = Rounds(u)
  BY RoundStep
<1> DEFINE k == i[t]
           a == arg[t]
<1>1. /\ arg \in [ThreadSet -> CInts] /\ i \in [ThreadSet -> 1 .. MaxRound]
      /\ asked \in [ThreadSet -> CInts \cap Nat]
  BY FieldTypes DEF FInv
<1>2. /\ UNCHANGED <<x, y, fifo>> /\ function[t] = "collatz"
      /\ arg' = [arg EXCEPT ![t] = IF a % 2 = 1 THEN Wrap(Wrap(a * 3) + 1) ELSE Half(a)]
  BY <1>b DEF collatz, Round
<1>3. k \in Nat /\ k >= 1 /\ a \in CInts /\ a \in Int
  BY <1>1, FunctionsAssumption DEF CInts
<1> HIDE DEF a
<1>4. Wrap(Wrap(a * 3) + 1) \in CInts /\ Wrap(Wrap(a * 3) + 1) = Wrap(3 * a + 1)
  <2>1. a * 3 \in Int /\ a * 3 + 1 \in Int /\ a * 3 = 3 * a
    BY <1>3
  <2>2. Wrap(a * 3) \in Int
    BY <2>1, WrapQuotient, IntHalfType DEF CInts
  <2>3. Wrap(a * 3) + 1 \in Int
    BY <2>2
  <2>4. Wrap(Wrap(a * 3) + 1) = Wrap(a * 3 + 1)
    BY <2>1, WrapSum
  <2> QED
    BY <2>1, <2>3, <2>4, WrapQuotient
<1>5. Half(a) \in CInts
  BY <1>3, IntHalfType DEF Half, CInts
<1>6. FunctionsTypeOK'
  <2>1. arg' \in [ThreadSet -> CInts]
    BY <1>1, <1>2, <1>4, <1>5
  <2>2. TypeOK'
    BY <1>a DEF IInv
  <2> QED
    BY <1>a, <1>2, <2>1, <2>2 DEF FunctionsTypeOK, FInv
<1>7. ASSUME NEW u \in ThreadSet, u # t PROVE Progress(u)'
  <2>1. Progress(u)
    BY DEF FInv
  <2>2. UNCHANGED <<arg[u], x[u], y[u], asked[u], fifo[u], written[u]>>
    BY <1>a, <1>1, <1>2, <1>7
  <2> QED
    BY <1>a, <1>b, <1>7, <2>1, <2>2, LeftAlone
<1>8. Progress(t)'
  <2> SUFFICES ASSUME t \notin freed, k < MaxRound PROVE AtCollatz(t)'
    BY <1>a, <1>2 DEF Progress
  <2>1. AtCollatz(t)
    <3>1. Progress(t)
      BY DEF FInv
    <3> QED
      BY <3>1, <1>2 DEF Progress
  <2> DEFINE orbit == CollatzFrom(asked[t])
  <2>2. /\ orbit[k - 1] \in Nat /\ orbit[k] \in Nat
        /\ orbit[k] = IF orbit[k - 1] % 2 = 1 THEN 3 * orbit[k - 1] + 1 ELSE orbit[k - 1] \div 2
    <3>1. asked[t] \in Nat
      BY <1>1
    <3>2. k - 1 \in Nat /\ (k - 1) + 1 = k
      BY <1>3
    <3>3. \A r \in Nat : /\ orbit[r] \in Nat
                         /\ orbit[r + 1] = IF orbit[r] % 2 = 1 THEN 3 * orbit[r] + 1
                                                               ELSE orbit[r] \div 2
      BY <3>1, CollatzValues
    <3> HIDE DEF orbit
    <3> QED
      BY <1>3, <3>2, <3>3
  <2> HIDE DEF orbit
  <2> SUFFICES ASSUME \A r \in 1 .. k : orbit[r] \in CInts PROVE arg'[t] = orbit[k]
    BY <1>a, <1>b DEF AtCollatz, orbit
  <2>3. a = orbit[k - 1]
    <3>1. \A r \in 1 .. k - 1 : orbit[r] \in CInts
      BY <1>3
    <3> QED
      BY <3>1, <2>1, <1>b DEF AtCollatz, orbit, a
  <2>4. arg'[t] = IF a % 2 = 1 THEN Wrap(3 * a + 1) ELSE Half(a)
    BY <1>1, <1>2, <1>4
  <2>5. CASE a % 2 = 1
    <3>1. 3 * a + 1 \in CInts
      BY <1>3, <2>2, <2>3, <2>5
    <3> QED
      BY <2>2, <2>3, <2>4, <2>5, <3>1, WrapFits
  <2>6. CASE a % 2 # 1
    <3>1. Half(a) = a \div 2
      BY <2>2, <2>3 DEF Half
    <3> QED
      BY <2>2, <2>3, <2>4, <2>6, <3>1
  <2> QED
    BY <2>5, <2>6
<1> QED
  BY <1>a, <1>6, <1>7, <1>8 DEF FInv

LEMMA MaxSubarrayFInv == ASSUME FInv, max_subarray PROVE FInv'
<1>a. IInv' /\ UNCHANGED <<i, asked, written, freed>>
  BY RoundStep
<1>b. PICK t \in ThreadSet :
        /\ RUNNING = t
        /\ Rounds(t) = i[t] - 1 /\ Rounds(t)' = i[t]
        /\ \A u \in ThreadSet \ {t} : Rounds(u)' = Rounds(u)
  BY RoundStep
<1> DEFINE k == i[t]
           n == k - 1
           w == written[t]
           add == buf'[t]
           sum == Wrap(y[t] + add)
           e == IF sum > add THEN sum ELSE add
           b == IF x[t] > e THEN x[t] ELSE e
<1>1. /\ x \in [ThreadSet -> CInts] /\ y \in [ThreadSet -> CInts]
      /\ i \in [ThreadSet -> 1 .. MaxRound] /\ written \in [ThreadSet -> Seq(Inputs)]
      /\ fifo \in [ThreadSet -> Seq(Inputs)] /\ buf \in [ThreadSet -> Inputs \cup {0}]
  BY FieldTypes DEF FInv
<1>2. pc = "run" /\ t \in Readers /\ resume[t] = "read"
  BY <1>b DEF max_subarray, ReadRound
<1>3. fifo[t] # <<>>
  <2>1. ReadFindsInput
    BY IInvInputIsThere DEF FInv
  <2> QED
    BY <1>b, <1>2, <2>1 DEF ReadFindsInput
<1>4. /\ UNCHANGED arg
      /\ buf' = [buf EXCEPT ![t] = Head(fifo[t])]
      /\ fifo' = [fifo EXCEPT ![t] = Tail(fifo[t])]
      /\ y' = [y EXCEPT ![t] = e]
      /\ y'[t] = e => x' = [x EXCEPT ![t] = b]
  BY <1>b, <1>3 DEF max_subarray, ReadRound
<1>5. y'[t] = e /\ x' = [x EXCEPT ![t] = b]
  BY <1>1, <1>4
<1>6. k \in Nat /\ k >= 1 /\ n \in Nat /\ n + 1 = k
  BY <1>1, FunctionsAssumption
<1>7. /\ add = Head(fifo[t]) /\ add \in Inputs /\ add \in CInts /\ add \in Int
      /\ x[t] \in CInts /\ x[t] \in Int /\ y[t] \in CInts /\ y[t] \in Int
  <2>1. add = Head(fifo[t])
    BY <1>1, <1>4
  <2>2. fifo[t] \in Seq(Inputs)
    BY <1>1
  <2>3. Head(fifo[t]) \in Inputs
    BY <2>2, <1>3, HeadTailProperties
  <2>4. \A m \in CInts : m \in Int
    BY IntHalfType DEF CInts
  <2>5. x[t] \in CInts /\ y[t] \in CInts /\ Inputs \subseteq CInts
    BY <1>1, FunctionsAssumption
  <2> HIDE DEF add
  <2> QED
    BY <2>1, <2>3, <2>4, <2>5
<1> HIDE DEF add
<1>8. e \in CInts /\ b \in CInts
  <2>1. y[t] + add \in Int
    BY <1>7
  <2> QED
    BY <2>1, <1>7, WrapQuotient
<1> HIDE DEF e, b
<1>9. FunctionsTypeOK'
  <2>1. x' \in [ThreadSet -> CInts] /\ y' \in [ThreadSet -> CInts]
    BY <1>1, <1>4, <1>5, <1>8
  <2>2. TypeOK'
    BY <1>a DEF IInv
  <2> QED
    BY <1>a, <1>4, <2>1, <2>2 DEF FunctionsTypeOK, FInv
<1>10. ASSUME NEW u \in ThreadSet, u # t PROVE Progress(u)'
  <2>1. Progress(u)
    BY DEF FInv
  <2>2. UNCHANGED <<arg[u], x[u], y[u], asked[u], fifo[u], written[u]>>
    BY <1>a, <1>1, <1>4, <1>5, <1>10
  <2> QED
    BY <1>a, <1>b, <1>10, <2>1, <2>2, LeftAlone
<1>11. Progress(t)'
  <2>0. function[t] = "max_subarray"
    BY <1>2, FunctionsAssumption
  <2> SUFFICES ASSUME t \notin freed, k < MaxRound PROVE AtMaxSubarray(t)'
    BY <1>a, <2>0 DEF Progress
  <2>1. AtMaxSubarray(t)
    <3>1. Progress(t)
      BY DEF FInv
    <3> QED
      BY <3>1, <2>0 DEF Progress
  <2>2. w \in Seq(Inputs) /\ Len(w) \in Nat
    BY <1>1
  <2>3. /\ n <= Len(w) /\ fifo[t] = SubSeq(w, n + 1, Len(w))
        /\ SumsKept(SubSeq(w, 1, n), x[t], y[t])
    BY <1>b, <2>1 DEF AtMaxSubarray
  <2>4. n < Len(w)
    <3> SUFFICES ASSUME n = Len(w) PROVE FALSE
      BY <2>2, <2>3, <1>6
    <3>1. SubSeq(w, n + 1, Len(w)) = <<>>
      BY <2>2, SubSeqEmpty
    <3> QED
      BY <3>1, <2>3, <1>3
  <2> HIDE DEF w, n
  <2>5. /\ SubSeq(w, 1, n) \in Seq(Inputs)
        /\ SubSeq(w, 1, n + 1) = Append(SubSeq(w, 1, n), w[n + 1])
        /\ Head(fifo[t]) = w[n + 1] /\ Tail(fifo[t]) = SubSeq(w, (n + 1) + 1, Len(w))
    BY <1>6, <2>2, <2>3, <2>4, TakeOne
  <2>6. SumsKept(SubSeq(w, 1, k), b, e)
    <3>1. SumsKept(Append(SubSeq(w, 1, n), add), b, e)
      BY <1>7, <2>3, <2>5, SumsGoOn DEF b, e
    <3> QED
      BY <3>1, <2>5, <1>6, <1>7
  <2>7. x'[t] = b /\ y'[t] = e /\ fifo'[t] = SubSeq(w, k + 1, Len(w)) /\ written'[t] = w
    BY <1>a, <1>1, <1>4, <1>5, <1>6, <2>5 DEF w
  <2>8. Rounds(t)' = k /\ k <= Len(w)
    BY <1>b, <1>6, <2>2, <2>4
  <2> HIDE DEF k
  <2> QED
    BY <2>6, <2>7, <2>8 DEF AtMaxSubarray
<1> QED
  BY <1>a, <1>9, <1>10, <1>11 DEF FInv

\* Steps in which no thread ends a round.
LEMMA OtherFInv ==
  ASSUME FInv, Exits \/ Continues \/ Switches \/ FStopKey \/ FExpire
               \/ \E t \in Readers : Feed(t)
  PROVE  FInv'
<1>a. IInv' /\ TypeOK'
  <2>1. IInv'
    BY FNextNext, NextIInv DEF FInv, FNext, FProgram
  <2> QED
    BY <2>1 DEF IInv
<1>b. /\ i \in [ThreadSet -> 1 .. MaxRound] /\ fifo \in [ThreadSet -> Seq(Inputs)]
      /\ written \in [ThreadSet -> Seq(Inputs)]
  BY FieldTypes DEF FInv
<1>c. FunctionsTypeOK /\ \A t \in ThreadSet : Progress(t)
  BY DEF FInv
<1>1. CASE Switches
  <2>1. UNCHANGED <<arg, i, x, y, asked, written, fifo, freed>> /\ pc # "round" /\ pc' # "round"
    BY <1>1 DEF Switches, First, Yielded, Waits, Exited, Unblock, AsyncRead, Jump, fields
  <2>2. FunctionsTypeOK'
    BY <1>a, <1>c, <2>1 DEF FunctionsTypeOK
  <2>3. ASSUME NEW t \in ThreadSet PROVE Progress(t)'
    <3>1. Rounds(t)' = Rounds(t)
      BY <2>1 DEF Rounds
    <3> QED
      BY <1>c, <2>1, <3>1, LeftAlone
  <2> QED
    BY <1>a, <2>2, <2>3 DEF FInv
<1>2. CASE FStopKey \/ FExpire
  <2>1. UNCHANGED <<arg, i, x, y, asked, written, fifo, freed, pc, ready_queue, rq_current>>
    BY <1>2 DEF FStopKey, FExpire, StopKey, Expire, fields
  <2>2. FunctionsTypeOK'
    BY <1>a, <1>c, <2>1 DEF FunctionsTypeOK
  <2>3. ASSUME NEW t \in ThreadSet PROVE Progress(t)'
    <3>1. Rounds(t)' = Rounds(t)
      BY <2>1 DEF Rounds, RUNNING
    <3> QED
      BY <1>c, <2>1, <3>1, LeftAlone
  <2> QED
    BY <1>a, <2>2, <2>3 DEF FInv
<1>3. CASE Exits
  <2>1. /\ UNCHANGED <<arg, i, x, y, asked, written, ready_queue, rq_current>>
        /\ freed' = freed \cup {RUNNING} /\ fifo' = [fifo EXCEPT ![RUNNING] = <<>>]
        /\ pc = "round" /\ pc' = "sched"
    BY <1>3 DEF Exits, ThreadExit, fields
  <2>2. FunctionsTypeOK'
    BY <1>a, <1>c, <2>1 DEF FunctionsTypeOK
  <2>3. ASSUME NEW t \in ThreadSet PROVE Progress(t)'
    <3>1. CASE t = RUNNING
      BY <2>1, <3>1 DEF Progress
    <3>2. CASE t # RUNNING
      <4>1. Rounds(t)' = Rounds(t) /\ fifo'[t] = fifo[t]
        BY <1>b, <2>1, <3>2 DEF Rounds
      <4> QED
        BY <1>c, <2>1, <4>1, LeftAlone
    <3> QED
      BY <3>1, <3>2
  <2> QED
    BY <1>a, <2>2, <2>3 DEF FInv
<1>4. CASE Continues
  <2>1. /\ UNCHANGED <<arg, x, y, asked, written, fifo, freed, ready_queue, rq_current>>
        /\ pc = "round" /\ pc' # "round"
        /\ i' = [i EXCEPT ![RUNNING] = IF i[RUNNING] < MaxRound THEN i[RUNNING] + 1
                                                                ELSE i[RUNNING]]
    BY <1>4 DEF Continues, YieldToTstp, YieldToAlarm, NoYield, ToNextRound
  <2>2. RUNNING \in ThreadSet
    BY <2>1, RunningIsReady DEF FInv
  <2>3. FunctionsTypeOK'
    <3>1. i[RUNNING] \in 1 .. MaxRound /\ MaxRound \in Nat
      BY <1>b, <2>2, FunctionsAssumption
    <3>2. (IF i[RUNNING] < MaxRound THEN i[RUNNING] + 1 ELSE i[RUNNING]) \in 1 .. MaxRound
      BY <3>1
    <3>3. i' \in [ThreadSet -> 1 .. MaxRound]
      BY <1>b, <2>1, <3>2
    <3> QED
      BY <1>a, <1>c, <2>1, <3>3 DEF FunctionsTypeOK
  <2>4. ASSUME NEW t \in ThreadSet PROVE Progress(t)'
    <3>1. i[t] \in Nat /\ MaxRound \in Nat
      BY <1>b, FunctionsAssumption
    <3>2. CASE t = RUNNING /\ ~(i[t] < MaxRound)
      <4>1. i'[t] = i[t]
        BY <1>b, <2>1, <3>2
      <4> QED
        BY <3>2, <4>1 DEF Progress
    <3>3. CASE t = RUNNING /\ i[t] < MaxRound
      <4>1. i'[t] = i[t] + 1
        BY <1>b, <2>1, <3>3
      <4>2. Rounds(t)' = Rounds(t)
        BY <2>1, <3>1, <3>3, <4>1 DEF Rounds
      <4> QED
        BY <1>c, <2>1, <3>3, <4>2, LeftAlone
    <3>4. CASE t # RUNNING
      <4>1. i'[t] = i[t]
        BY <1>b, <2>1, <3>4
      <4>2. Rounds(t)' = Rounds(t)
        BY <2>1, <3>4, <4>1 DEF Rounds
      <4> QED
        BY <1>c, <2>1, <4>1, <4>2, LeftAlone
    <3> QED
      BY <3>2, <3>3, <3>4
  <2> QED
    BY <1>a, <2>3, <2>4 DEF FInv
<1>5. ASSUME NEW u \in Readers, Feed(u) PROVE FInv'
  <2>1. PICK n \in Inputs : fifo' = [fifo EXCEPT ![u] = Append(fifo[u], n)]
    BY <1>5 DEF Feed, Write
  <2>2. /\ UNCHANGED <<arg, i, x, y, asked, freed, pc, ready_queue, rq_current>>
        /\ written' = [written EXCEPT ![u] = Append(written[u], Last(fifo'[u]))]
    BY <1>5 DEF Feed, Write, fields
  <2>3. u \in ThreadSet /\ function[u] = "max_subarray"
    BY FunctionsAssumption
  <2>4. /\ fifo'[u] = Append(fifo[u], n) /\ fifo[u] \in Seq(Inputs)
        /\ written[u] \in Seq(Inputs)
    BY <1>b, <2>1, <2>3
  <2>5. Last(fifo'[u]) = n
    <3>1. Len(Append(fifo[u], n)) = Len(fifo[u]) + 1 /\ Append(fifo[u], n)[Len(fifo[u]) + 1] = n
      BY <2>4, AppendProperties
    <3> QED
      BY <2>4, <3>1 DEF Last
  <2>6. written' = [written EXCEPT ![u] = Append(written[u], n)]
    BY <2>2, <2>5
  <2>7. FunctionsTypeOK'
    <3>1. written' \in [ThreadSet -> Seq(Inputs)]
      BY <1>b, <2>3, <2>4, <2>6
    <3> QED
      BY <1>a, <1>c, <2>2, <3>1 DEF FunctionsTypeOK
  <2>8. ASSUME NEW t \in ThreadSet PROVE Rounds(t)' = Rounds(t)
    BY <2>2 DEF Rounds, RUNNING
  <2>9. ASSUME NEW t \in ThreadSet, t # u PROVE Progress(t)'
    <3>1. UNCHANGED <<arg[t], x[t], y[t], asked[t], fifo[t], written[t]>>
      BY <1>b, <2>1, <2>2, <2>6, <2>9
    <3> QED
      BY <1>c, <2>2, <2>8, <2>9, <3>1, LeftAlone
  <2>10. Progress(u)'
    <3> SUFFICES ASSUME u \notin freed, i[u] < MaxRound PROVE AtMaxSubarray(u)'
      BY <2>2, <2>3 DEF Progress
    <3>1. AtMaxSubarray(u)
      BY <1>c, <2>3 DEF Progress
    <3> DEFINE w == written[u]
               k == Rounds(u)
    <3>2. k \in Nat
      BY <1>b, <2>3 DEF Rounds
    <3>3. /\ k <= Len(w) /\ fifo[u] = SubSeq(w, k + 1, Len(w))
          /\ SumsKept(SubSeq(w, 1, k), x[u], y[u])
      BY <3>1 DEF AtMaxSubarray
    <3>4. Rounds(u)' = k
      BY <2>3, <2>8
    <3>5. written'[u] = Append(w, n)
      BY <1>b, <2>3, <2>6
    <3> HIDE DEF w, k
    <3>6. w \in Seq(Inputs) /\ Len(w) \in Nat
      BY <2>4 DEF w
    <3>7. /\ Len(Append(w, n)) = Len(w) + 1
          /\ SubSeq(Append(w, n), 1, k) = SubSeq(w, 1, k)
          /\ SubSeq(Append(w, n), k + 1, Len(Append(w, n))) = Append(SubSeq(w, k + 1, Len(w)), n)
      BY <3>2, <3>3, <3>6, PutOne
    <3>8. k <= Len(Append(w, n))
      BY <3>2, <3>3, <3>6, <3>7
    <3>9. SumsKept(SubSeq(written[u]', 1, Rounds(u)'), x[u]', y[u]')
      BY <2>2, <3>3, <3>4, <3>5, <3>7
    <3>10. fifo[u]' = SubSeq(written[u]', Rounds(u)' + 1, Len(written[u]'))
      BY <2>4, <3>3, <3>4, <3>5, <3>7
    <3> QED
      BY <3>4, <3>5, <3>8, <3>9, <3>10 DEF AtMaxSubarray
  <2> QED
    BY <1>a, <2>7, <2>9, <2>10 DEF FInv
<1> QED
  BY <1>1, <1>2, <1>3, <1>4, <1>5

LEMMA FNextFInv == FInv /\ [FNext]_fvars => FInv'
<1>1. ASSUME FInv, UNCHANGED fvars PROVE FInv'
  <2>1. IInv' /\ UNCHANGED <<arg, i, x, y, asked, written, fifo, freed, pc, ready_queue, rq_current>>
    BY <1>1, FNextNext, NextIInv DEF FInv, fvars, vars, fields
  <2>2. FunctionsTypeOK'
    BY <1>1, <2>1 DEF FInv, FunctionsTypeOK, IInv
  <2>3. ASSUME NEW t \in ThreadSet PROVE Progress(t)'
    <3>1. Rounds(t)' = Rounds(t)
      BY <2>1 DEF Rounds, RUNNING
    <3> QED
      BY <1>1, <2>1, <3>1, LeftAlone DEF FInv
  <2> QED
    BY <2>1, <2>2, <2>3 DEF FInv
<1>2. ASSUME FInv, FNext PROVE FInv'
  BY <1>2, FibonacciFInv, CollatzFInv, MaxSubarrayFInv, OtherFInv DEF FNext, FProgram
<1> QED
  BY <1>1, <1>2

LEMMA AlwaysFInv == FSpec => []FInv
  BY InitFInv, FNextFInv, PTL DEF FSpec

-----------------------------------------------------------------------------
(* The properties.                                                          *)

\* The thread functions of threads.c are threads as the scheduler knows them:
\* what Scheduler promises holds of them.
THEOREM FunctionsAreThreads == FSpec => Spec
  BY FInitInit, FNextNext, PTL DEF FSpec, Spec

\* Also with the functions, no thread is lost or queued twice, a thread that
\* comes back from async_read has its input, and the clock runs.
THEOREM FunctionsKeepQueues == FSpec => [](OneQueue /\ ReadFindsInput /\ AlarmAlive)
  BY FunctionsAreThreads, EachThreadOnce, InputIsThere, ClockRuns, PTL

\* The fields of the tcb stay numbers of the machine.
THEOREM FunctionsTypes == FSpec => []FunctionsTypeOK
<1>1. FInv => FunctionsTypeOK
  BY DEF FInv
<1> QED
  BY <1>1, AlwaysFInv, PTL

\* What a thread prints in a round is what its function computes alone
\* (threads.c:3-75), however it is switched with the others.
THEOREM AnswersAreRight == FSpec => []AnswersRight
<1>1. FInv => AnswersRight
  <2> SUFFICES ASSUME FInv, pc = "round", i[RUNNING] < MaxRound PROVE AnswersRight
    BY DEF AnswersRight
  <2>1. RUNNING \in ThreadSet
    BY RunningIsReady DEF FInv
  <2>2. PICK t \in ThreadSet : t = RUNNING
    BY <2>1
  <2>3. t \notin freed
    <3>1. t \in Elems(ready_queue) /\ Leaving = {}
      BY <2>2, RunningIsReady DEF FInv, Leaving
    <3> QED
      BY <3>1 DEF FInv, IInv, Queued
  <2>4. Rounds(t) = i[t] /\ i[t] \in Nat /\ i[t] >= 1 /\ written[t] \in Seq(Inputs)
    BY <2>2, FieldTypes, FunctionsAssumption DEF FInv, Rounds
  <2>5. Progress(t)
    BY DEF FInv
  <2>6. function[t] \in {"fibonacci", "collatz", "max_subarray"}
    BY FunctionsAssumption
  <2>7. CASE function[t] = "fibonacci"
    <3>1. y[t] = Wrap(Fibonacci[i[t]])
      BY <2>2, <2>3, <2>4, <2>5, <2>7 DEF Progress, AtFibonacci
    <3> QED
      BY <2>2, <2>7, <3>1 DEF AnswersRight
  <2>8. CASE function[t] = "collatz"
    <3>1. (\A r \in 1 .. i[t] : CollatzFrom(asked[t])[r] \in CInts)
            => arg[t] = CollatzFrom(asked[t])[i[t]]
      BY <2>2, <2>3, <2>4, <2>5, <2>8 DEF Progress, AtCollatz
    <3> QED
      BY <2>2, <2>8, <3>1 DEF AnswersRight
  <2>9. CASE function[t] = "max_subarray"
    <3> DEFINE s == SubSeq(written[t], 1, i[t])
    <3>1. SumsKept(s, x[t], y[t]) /\ i[t] <= Len(written[t])
      BY <2>2, <2>3, <2>4, <2>5, <2>9 DEF Progress, AtMaxSubarray
    <3>2. s \in Seq(Int)
      <4>1. s \in Seq(Inputs)
        BY <2>4, <3>1
      <4> QED
        BY <4>1, ThreadsAssumption, SeqMonotonic
    <3> HIDE DEF s
    <3>3. PICK b \in Int : Greatest(b, StretchSums(s)) /\ (b \in CInts => x[t] = b)
      BY <3>1 DEF SumsKept
    <3>4. StretchSums(s) \subseteq Int
      <4>1. \A c \in 0 .. Len(s) : Sums(s)[c] \in Int
        BY <3>2, SumsValues
      <4> QED
        BY <4>1 DEF StretchSums, Stretches
    <3>5. BestSum(s) = b
      BY <3>3, <3>4, GreatestIsMax DEF BestSum, StretchSums
    <3> QED
      BY <2>2, <2>9, <3>3, <3>5 DEF AnswersRight, s
  <2> QED
    BY <2>6, <2>7, <2>8, <2>9
<1> QED
  BY <1>1, AlwaysFInv, PTL
=============================================================================
