---------------------------- MODULE InputProofs ----------------------------
(***************************************************************************)
(* The safety of what a booking server does with its input, without bounds *)
(* on it: the select loop for any descriptor table, and one connection,    *)
(* handle_read() and get3Num(), for any alphabet, any lines, any buffer    *)
(* that holds a line and any pieces the stream comes in.                   *)
(***************************************************************************)
EXTENDS SelectLoop, HandleRead, Numbers, SequenceTheorems, FiniteSetTheorems

-----------------------------------------------------------------------------
(* The select loop.  Its three properties support each other: the backlog  *)
(* is counted down only when the pass does not block, and the pass stays   *)
(* in the table because maxfd does.                                        *)

\* A server that is down has no descriptor, so a new one starts afresh.
Down == pc = "down" => readfds = {}

LInv == TypeOK /\ NeverBlocks /\ AllSeen /\ Down

LEMMA LInvInit == LInit => LInv
  BY FdsAssumption DEF LInit, LInv, TypeOK, NeverBlocks, AllSeen, Down, Conns

\* A connection leaves the loop in the handler at its own position.
LEMMA CloseInv ==
  ASSUME LInv, NEW f \in Conns, At(f), ReqClose(f), pos' = pos + 1,
         UNCHANGED <<pc, maxfd, fds, backlog>>
  PROVE  LInv'
<1> USE FdsAssumption DEF LInv
<1>1. f # ListenFd /\ f \in Nat
  BY DEF Conns
<1>2. TypeOK'
  BY <1>1 DEF TypeOK, At, ReqClose, Conns
<1>3. ASSUME pc = "scan", NEW g \in fds, g >= pos + 1
      PROVE  g \in readfds' /\ Ready(g)'
  <2>1. g # f /\ g >= pos
    <3>1. fds \subseteq Nat /\ pos \in Nat /\ pos = f
      BY <1>1 DEF At, TypeOK, Conns
    <3>2. g \in Nat /\ f + 1 <= g
      BY <1>3, <3>1
    <3> QED
      BY <1>1, <3>1, <3>2
  <2>2. g \in readfds /\ Ready(g)
    BY <1>3, <2>1 DEF NeverBlocks
  <2> QED
    BY <2>1, <2>2 DEF ReqClose, Ready
<1>4. NeverBlocks' /\ AllSeen' /\ Down'
  BY <1>3 DEF NeverBlocks, AllSeen, Down, At, ReqClose
<1> QED
  BY <1>2, <1>3, <1>4

LEMMA LInvNext == LInv /\ [LNext]_lvars => LInv'
<1> SUFFICES ASSUME LInv, [LNext]_lvars PROVE LInv'
  OBVIOUS
<1> USE FdsAssumption DEF LInv
<1>0. ASSUME Exit PROVE LInv'
  BY <1>0 DEF Exit, TypeOK, NeverBlocks, AllSeen, Down, Conns
<1>1. CASE Start
  BY <1>1 DEF Start, TypeOK, NeverBlocks, AllSeen, Down, Conns
<1>2. CASE Connect
  BY <1>2 DEF Connect, TypeOK, NeverBlocks, AllSeen, Down, Ready, Conns
<1>3. ASSUME NEW f \in Conns, Send(f) \/ Leave(f) PROVE LInv'
  <2>1. TypeOK' /\ AllSeen' /\ Down'
    BY <1>3 DEF Send, Leave, TypeOK, AllSeen, Down, Conns
  <2>2. NeverBlocks'
    BY <1>3 DEF Send, Leave, TypeOK, NeverBlocks, Ready, Conns
  <2> QED
    BY <2>1, <2>2
<1>4. CASE Select
  <2>1. TypeOK' /\ AllSeen' /\ Down'
    <3>1. /\ pc = "select" /\ pc' = "scan" /\ pos' = 0 /\ fds' \subseteq readfds
          /\ UNCHANGED <<readfds, maxfd, backlog, unread, gone>>
      BY <1>4 DEF Select
    <3>2. AllSeen' /\ Down'
      BY <3>1 DEF AllSeen, Down
    <3>3. TypeOK'
      BY <3>1 DEF TypeOK
    <3> QED
      BY <3>2, <3>3
  <2>2. NeverBlocks'
    BY <1>4 DEF Select, NeverBlocks, Ready
  <2> QED
    BY <2>1, <2>2
<1>5. CASE EndScan
  BY <1>5 DEF EndScan, TypeOK, NeverBlocks, AllSeen, Down, Conns
<1>6. CASE Skip \/ AcceptLater
  <2>1. /\ pc = "scan" /\ pos <= maxfd /\ pos' = pos + 1
        /\ UNCHANGED <<pc, readfds, maxfd, fds, backlog, unread, gone>>
    BY <1>6 DEF Skip, AcceptLater, At
  <2>2. TypeOK' /\ AllSeen' /\ Down'
    BY <2>1 DEF TypeOK, AllSeen, Down, Conns
  <2>3. \A f \in fds : f >= pos + 1 => f >= pos
    BY DEF TypeOK, Conns
  <2>4. \A f \in fds : f >= pos + 1 => f \in readfds /\ Ready(f)
    BY <2>1, <2>3 DEF NeverBlocks
  <2>5. NeverBlocks'
    BY <2>1, <2>4 DEF NeverBlocks, Ready
  <2> QED
    BY <2>2, <2>5
<1>7. ASSUME NEW f \in Conns, Accept(f) PROVE LInv'
  <2>1. f \in Nat /\ f > ListenFd /\ f < NumFds /\ f \notin readfds
    BY <1>7 DEF Accept, LowestFree, Conns
  <2>2. backlog > 0
    BY <1>7 DEF Accept, At, TypeOK, NeverBlocks, Ready
  <2>3. TypeOK'
    BY <1>7, <2>1, <2>2 DEF Accept, At, TypeOK, Conns
  <2>4. NeverBlocks'
    BY <1>7, <2>1 DEF Accept, At, TypeOK, NeverBlocks, Ready, Conns
  <2>5. AllSeen' /\ Down'
    BY <1>7, <2>1 DEF Accept, At, TypeOK, AllSeen, Down, Conns
  <2> QED
    BY <2>3, <2>4, <2>5
<1>8. ASSUME NEW f \in Conns, ReadKeep(f) PROVE LInv'
  <2>1. TypeOK' /\ AllSeen' /\ Down'
    BY <1>8 DEF ReadKeep, Read, At, TypeOK, AllSeen, Down, Conns
  <2>2. NeverBlocks'
    BY <1>8 DEF ReadKeep, Read, At, TypeOK, NeverBlocks, Ready, Conns
  <2> QED
    BY <2>1, <2>2
<1>9. ASSUME NEW f \in Conns, ReadClose(f) \/ ReadEOF(f) PROVE LInv'
  BY <1>9, CloseInv DEF ReadClose, ReadEOF, Read
<1>10. CASE UNCHANGED lvars
  BY <1>10 DEF lvars, TypeOK, NeverBlocks, AllSeen, Down, Ready
<1> QED
  BY <1>0, <1>1, <1>2, <1>3, <1>4, <1>5, <1>7, <1>8, <1>9, <1>10,
     <1>6
     DEF LNext, Server, Clients, Handle, AcceptFull, ReadExit, Kill

LEMMA LInvAlways == LSpec => []LInv
  BY LInvInit, LInvNext, PTL DEF LSpec

\* The loop never reads or accepts where nothing waits, which would stop the
\* server for all its clients.
THEOREM LoopNeverBlocks == LSpec => []NeverBlocks
  BY LInvAlways, PTL DEF LInv

\* Every open descriptor is below the bound handed to select().
THEOREM LoopSeesAll == LSpec => []AllSeen
  BY LInvAlways, PTL DEF LInv

\* The pass never leaves the descriptor table.
THEOREM LoopTypes == LSpec => []TypeOK
  BY LInvAlways, PTL DEF LInv

-----------------------------------------------------------------------------
(* Fields of a line.                                                       *)

LEMMA FieldBounds ==
  ASSUME NEW line, NEW p \in Nat
  PROVE  FieldOf(line, p) \in Nat /\ (p > 0 => FieldOf(line, p) < p)
<1> DEFINE D == 1 .. p - 1
           Q == {q \in D : line[q] = Blank}
<1>1. IsFiniteSet(D) /\ Cardinality(D) = IF 1 > p - 1 THEN 0 ELSE p - 1
  BY FS_Interval
<1>2. Q \in SUBSET D
  OBVIOUS
<1> HIDE DEF D, Q
<1>3. IsFiniteSet(Q) /\ Cardinality(Q) <= Cardinality(D)
  BY <1>1, <1>2, FS_Subset
<1>4. Cardinality(Q) \in Nat
  BY <1>3, FS_CardinalityType
<1>5. FieldOf(line, p) = Cardinality(Q)
  BY DEF FieldOf, Q, D
<1> QED
  BY <1>1, <1>3, <1>4, <1>5

\* A space is the last character of its field.
LEMMA FieldNext ==
  ASSUME NEW line, NEW p \in Nat \ {0}
  PROVE  FieldOf(line, p + 1) = IF line[p] = Blank THEN FieldOf(line, p) + 1
                                                   ELSE FieldOf(line, p)
<1> DEFINE P == {q \in 1 .. p - 1 : line[q] = Blank}
           Q == {q \in 1 .. (p + 1) - 1 : line[q] = Blank}
<1>1. IsFiniteSet(P)
  <2>1. IsFiniteSet(1 .. p - 1)
    BY FS_Interval
  <2> QED
    BY <2>1, FS_Subset
<1>2. p \notin P
  OBVIOUS
<1>3. CASE line[p] = Blank
  <2>1. Q = P \cup {p}
    BY <1>3
  <2> HIDE DEF P, Q
  <2>2. Cardinality(P \cup {p}) = Cardinality(P) + 1
    BY <1>1, <1>2, FS_AddElement
  <2> QED
    BY <1>3, <2>1, <2>2 DEF FieldOf, P, Q
<1>4. CASE line[p] # Blank
  <2>1. Q = P
    BY <1>4
  <2> QED
    BY <1>4, <2>1 DEF FieldOf
<1> QED
  BY <1>3, <1>4

LEMMA FieldFirst == ASSUME NEW line PROVE FieldOf(line, 1) = 0
<1>1. {q \in 1 .. 1 - 1 : line[q] = Blank} = {}
  OBVIOUS
<1> QED
  BY <1>1, FS_EmptySet DEF FieldOf

LEMMA FieldGrows ==
  ASSUME NEW line, NEW p \in Nat, NEW q \in Nat, p <= q
  PROVE  FieldOf(line, p) <= FieldOf(line, q)
<1> DEFINE P == {r \in 1 .. p - 1 : line[r] = Blank}
           Q == {r \in 1 .. q - 1 : line[r] = Blank}
<1>1. IsFiniteSet(Q)
  <2>1. IsFiniteSet(1 .. q - 1)
    BY FS_Interval
  <2> QED
    BY <2>1, FS_Subset
<1>2. P \in SUBSET Q
  OBVIOUS
<1> HIDE DEF P, Q
<1>3. Cardinality(P) <= Cardinality(Q)
  BY <1>1, <1>2, FS_Subset
<1> QED
  BY <1>3 DEF FieldOf, P, Q

-----------------------------------------------------------------------------
(* The number in a field, character by character.                          *)

DigitStep(line, n, v, p) ==
  IF FieldOf(line, p) = n /\ IsDigit(line[p]) THEN v * 10 + Val(line[p]) ELSE v

LEMMA ValInt == ASSUME NEW c, IsDigit(c) PROVE Val(c) \in 0 .. 9
<1>1. \E n \in 1 .. 10 : DigitChars[n] = c
  BY DEF IsDigit
<1>2. (CHOOSE n \in 1 .. 10 : DigitChars[n] = c) \in 1 .. 10
  BY <1>1
<1> QED
  BY <1>2 DEF Val

LEMMA Numbered ==
  ASSUME NEW line \in Seq(Alphabet), NEW n
  PROVE  /\ Num(line, n)[0] = 0 /\ Num(line, n)[Len(line)] = Magnitude(line, n)
         /\ \A p \in 0 .. Len(line) : Num(line, n)[p] \in Int
         /\ \A p \in 1 .. Len(line) :
              Num(line, n)[p] = DigitStep(line, n, Num(line, n)[p - 1], p)
<1> DEFINE D == 0 .. Len(line)
           Step(f) == [p \in D |-> IF p = 0 THEN 0 ELSE DigitStep(line, n, f[p - 1], p)]
           g == [p \in Nat |-> [v \in Int |-> DigitStep(line, n, v, p + 1)]]
           num == Num(line, n)
<1>1. Len(line) \in Nat
  BY LenProperties
<1>2. ASSUME NEW v \in Int, NEW p PROVE DigitStep(line, n, v, p) \in Int
  BY ValInt DEF DigitStep
<1>3. \E f : f = Step(f)
  <2>1. g \in Steps(Int)
    BY <1>2 DEF Steps
  <2>2. PICK m : Recurs(m, Int, 0, g)
    <3> HIDE DEF g
    <3> QED
      BY <2>1, Recursion
  <2>3. /\ m \in [Nat -> Int] /\ m[0] = 0
        /\ \A p \in Nat : m[p + 1] = DigitStep(line, n, m[p], p + 1)
    BY <2>2 DEF Recurs
  <2> DEFINE f == [p \in D |-> m[p]]
  <2>4. ASSUME NEW p \in D
        PROVE  m[p] = IF p = 0 THEN 0 ELSE DigitStep(line, n, f[p - 1], p)
    <3>1. CASE p = 0
      BY <2>3, <3>1
    <3>2. CASE p # 0
      <4>1. p - 1 \in D /\ p - 1 \in Nat /\ (p - 1) + 1 = p
        BY <1>1, <3>2
      <4>2. f[p - 1] = m[p - 1]
        BY <4>1
      <4>3. m[p] = DigitStep(line, n, m[p - 1], p)
        BY <2>3, <4>1
      <4> QED
        BY <3>2, <4>2, <4>3
    <3> QED
      BY <3>1, <3>2
  <2>5. f = Step(f)
    BY <2>4, Zenon
  <2> QED
    BY <2>5, Zenon
<1>4. num = CHOOSE f : f = Step(f)
  BY DEF Num, DigitStep
<1>5. num = Step(num)
  <2> HIDE DEF Step, num
  <2> QED
    BY <1>3, <1>4
<1>6. /\ num[0] = 0
      /\ \A p \in 1 .. Len(line) : num[p] = DigitStep(line, n, num[p - 1], p)
  <2>1. 0 \in D /\ \A p \in 1 .. Len(line) : p \in D /\ p # 0
    BY <1>1
  <2>2. \A p \in D : num[p] = IF p = 0 THEN 0 ELSE DigitStep(line, n, num[p - 1], p)
    <3> HIDE DEF num
    <3> QED
      BY <1>5
  <2> HIDE DEF num, D
  <2> QED
    BY <2>1, <2>2
<1> HIDE DEF num
<1>7. \A p \in 0 .. Len(line) : num[p] \in Int
  <2> DEFINE T == {p \in Nat : num[p] \in Int}
  <2>1. 0 \in T
    BY <1>6
  <2>2. ASSUME NEW p \in 0 .. Len(line) - 1, p \in T PROVE p + 1 \in T
    <3>1. p + 1 \in 1 .. Len(line) /\ (p + 1) - 1 = p /\ p + 1 \in Nat
      BY <1>1
    <3>2. num[p + 1] = DigitStep(line, n, num[p], p + 1)
      BY <1>6, <3>1
    <3>3. num[p] \in Int
      BY <2>2
    <3> QED
      BY <1>2, <3>1, <3>2, <3>3
  <2> HIDE DEF T
  <2>3. \A p \in 0 .. Len(line) : p \in T
    BY <1>1, <2>1, <2>2, InductionTo
  <2> QED
    BY <2>3 DEF T
<1>8. num[Len(line)] = Magnitude(line, n)
  BY DEF num, Magnitude
<1> QED
  BY <1>6, <1>7, <1>8 DEF num

-----------------------------------------------------------------------------
(* The arithmetic of int.                                                  *)

LEMMA WrapRange ==
  ASSUME NEW n \in Int
  PROVE  /\ Wrap(n) \in CInts /\ Wrap(n) \in Int
         /\ \E k \in Int : n = Wrap(n) + (2 * IntHalf) * k
<1>1. IntHalf \in Nat \ {0} /\ Wrap(n) = Around(IntHalf, n)
  BY LinesAssumption DEF Wrap, Around
<1>2. /\ Around(IntHalf, n) \in -IntHalf .. IntHalf - 1
      /\ \E k \in Int : n = Around(IntHalf, n) + (2 * IntHalf) * k
  BY <1>1, AroundRange
<1>3. Around(IntHalf, n) \in Int
  BY <1>1, <1>2
<1> QED
  BY <1>1, <1>2, <1>3 DEF CInts

\* Numbers that differ by a multiple of 2^w are the same.
LEMMA WrapSame ==
  ASSUME NEW m \in Int, NEW n \in Int, NEW k \in Int, m = n + (2 * IntHalf) * k
  PROVE  Wrap(m) = Wrap(n)
<1>1. IntHalf \in Nat \ {0} /\ Wrap(m) = Around(IntHalf, m)
  BY LinesAssumption DEF Wrap, Around
<1>2. PICK l \in Int : n = Wrap(n) + (2 * IntHalf) * l
  BY WrapRange
<1>3. Wrap(n) \in -IntHalf .. IntHalf - 1 /\ Wrap(n) \in Int
  BY WrapRange DEF CInts
<1> DEFINE M == 2 * IntHalf
<1>4. M \in Int
  BY <1>1
<1>5. m = Wrap(n) + M * (l + k)
  <2>1. m = (Wrap(n) + M * l) + M * k
    BY <1>2
  <2> HIDE DEF M
  <2>2. M * (l + k) = M * l + M * k /\ M * l \in Int /\ M * k \in Int
    BY <1>4
  <2> QED
    BY <1>3, <2>1, <2>2
<1>6. l + k \in Int
  OBVIOUS
<1> QED
  BY <1>1, <1>3, <1>5, <1>6, AroundUnique

LEMMA WrapDigit ==
  ASSUME NEW v \in Int, NEW d \in Int
  PROVE  Wrap(Wrap(Wrap(v) * 10) + d) = Wrap(v * 10 + d)
<1> DEFINE M == 2 * IntHalf
<1>0. M \in Int
  BY LinesAssumption
<1>1. PICK k \in Int : v = Wrap(v) + M * k
  BY WrapRange
<1>2. Wrap(v) \in Int
  BY WrapRange
<1> DEFINE w == Wrap(v)  x == Wrap(w * 10)
<1>3. PICK l \in Int : w * 10 = x + M * l
  BY <1>2, WrapRange
<1>4. x \in Int
  BY <1>2, WrapRange
<1> HIDE DEF M, x, w
<1>5. v * 10 + d = (x + d) + M * (l + 10 * k)
  <2>1. M * k \in Int /\ M * l \in Int /\ M * (l + 10 * k) = M * l + 10 * (M * k)
    BY <1>0
  <2>2. v = w + M * k /\ w \in Int
    BY <1>1, <1>2 DEF w
  <2> QED
    BY <1>3, <1>4, <2>1, <2>2
<1>6. Wrap(v * 10 + d) = Wrap(x + d)
  <2>1. v * 10 + d \in Int /\ x + d \in Int /\ l + 10 * k \in Int
    BY <1>4
  <2> QED
    BY <1>5, <2>1, WrapSame DEF M
<1> QED
  BY <1>6 DEF x, w

LEMMA WrapMinus == ASSUME NEW v \in Int PROVE Wrap(-Wrap(v)) = Wrap(-v)
<1> DEFINE M == 2 * IntHalf  w == Wrap(v)
<1>0. M \in Int
  BY LinesAssumption
<1>1. PICK k \in Int : v = w + M * k
  BY WrapRange
<1>2. w \in Int
  BY WrapRange
<1> HIDE DEF M, w
<1>3. -w = -v + M * k
  <2>1. M * k \in Int
    BY <1>0
  <2> QED
    BY <1>1, <1>2, <2>1
<1>4. Wrap(-w) = Wrap(-v)
  BY <1>2, <1>3, WrapSame DEF M
<1> QED
  BY <1>4 DEF w

LEMMA WrapZero == Wrap(0) = 0 /\ 0 \in CInts
<1>1. IntHalf \in Nat \ {0} /\ Wrap(0) = Around(IntHalf, 0)
  BY LinesAssumption DEF Wrap, Around
<1>2. 0 \in -IntHalf .. IntHalf - 1 /\ 0 = 0 + (2 * IntHalf) * 0
  BY <1>1
<1> QED
  BY <1>1, <1>2, AroundUnique DEF CInts

-----------------------------------------------------------------------------
(* The inductive invariant of the scan: the line is well formed up to its  *)
(* position but for a digit that a minus sign there still waits for, chk   *)
(* says whether the field has a sign, and each number is the value of its  *)
(* field so far.  The sign of the field the scan is in is yet to come.     *)

Minuses(line, n, p) == \E q \in 1 .. p : line[q] = "-" /\ FieldOf(line, q) = n

PassedTo(line, p) ==
  \A q \in 1 .. p :
    \/ IsDigit(line[q]) \/ line[q] = Blank
    \/ /\ line[q] = "-"
       /\ q = 1 \/ line[q - 1] = Blank
       /\ q < Len(line) /\ line[q + 1] # Blank
       /\ q < p => IsDigit(line[q + 1])

\* Every digit up to p was stored in opr[].
Stored(line, p) == \A q \in 1 .. p : IsDigit(line[q]) => FieldOf(line, q) <= 2

Value(line, n, p, field) ==
  IF n # field /\ Minuses(line, n, p) THEN -Num(line, n)[p] ELSE Num(line, n)[p]

Scanned ==
  /\ j = FieldOf(s, i) /\ PassedTo(s, i - 1) /\ Stored(s, i - 1)
  /\ chk <=> Minuses(s, j, i - 1)
  /\ \A n \in 0 .. 2 : /\ opr[n] = Wrap(Value(s, n, i - 1, j))
                       /\ n > j => Num(s, n)[i - 1] = 0

ScanTypes ==
  /\ s \in Seq(Alphabet) /\ i \in 1 .. Len(s) + 1 /\ j \in 0 .. i - 1
  /\ chk \in BOOLEAN /\ opr \in [0 .. 2 -> CInts]
  /\ result \in {"idle", "start", "scan", "true", "false", "undefined"}

Parsed ==
  /\ ScanTypes
  /\ result = "start" => i = 1 /\ j = 0 /\ ~chk /\ opr = [n \in 0 .. 2 |-> 0]
  /\ result = "undefined" => ~InBounds(s)
  /\ result = "true" => InBounds(s)
  /\ result = "scan" => (s # <<>> => s[Len(s)] # "-") /\ Scanned
  /\ CommandRight

LEMMA Chars == ~IsDigit("-") /\ ~IsDigit(Blank) /\ "-" # Blank
<1>1. "-" # Blank
  BY Zenon DEF Blank
<1>2. ~IsDigit("-")
  BY DEF IsDigit, DigitChars
<1>3. ASSUME NEW n \in 1 .. 10 PROVE DigitChars[n] # Blank
  <2>1. DigitChars[n] \in {"0", "1", "2", "3", "4", "5", "6", "7", "8", "9"}
    BY DEF DigitChars
  <2>2. Blank \notin {"0", "1", "2", "3", "4", "5", "6", "7", "8", "9"}
    BY Zenon DEF Blank
  <2> QED
    BY <2>1, <2>2
<1> QED
  BY <1>1, <1>2, <1>3 DEF IsDigit

LEMMA MinusesNext ==
  ASSUME NEW line, NEW n, NEW p \in Nat \ {0}
  PROVE  Minuses(line, n, p) <=>
           Minuses(line, n, p - 1) \/ (line[p] = "-" /\ FieldOf(line, p) = n)
<1>1. 1 .. p = (1 .. p - 1) \cup {p}
  OBVIOUS
<1> QED
  BY <1>1 DEF Minuses

\* In the middle of a scan.
LEMMA AtChar ==
  ASSUME Parsed, NEW c, Char(c)
  PROVE  /\ Scanned /\ s # <<>> /\ s[Len(s)] # "-"
         /\ s \in Seq(Alphabet) /\ Len(s) \in Nat /\ DOMAIN s = 1 .. Len(s)
         /\ i \in 1 .. Len(s) /\ i \in Nat \ {0} /\ s[i] = c /\ c \in Alphabet
         /\ j \in 0 .. i - 1 /\ j \in Nat /\ opr \in [0 .. 2 -> CInts] /\ chk \in BOOLEAN
<1>1. ScanTypes /\ result = "scan" /\ i <= Len(s) /\ s[i] = c
  BY DEF Parsed, Char
<1>2. s \in Seq(Alphabet) /\ Len(s) \in Nat /\ DOMAIN s = 1 .. Len(s)
  BY <1>1, LenProperties DEF ScanTypes
<1>3. i \in 1 .. Len(s) /\ i \in Nat \ {0} /\ j \in 0 .. i - 1 /\ j \in Nat
  BY <1>1, <1>2 DEF ScanTypes
<1>4. s # <<>>
  <2>1. Len(<<>>) = 0
    OBVIOUS
  <2> QED
    BY <1>3, <2>1
<1>5. c \in Alphabet
  BY <1>1, <1>2, <1>3, ElementOfSeq
<1> QED
  BY <1>1, <1>2, <1>3, <1>4, <1>5 DEF Parsed, ScanTypes

\* A line is refused for one character that does not belong where it is.
LEMMA Refused ==
  ASSUME ScanTypes, NEW p \in 1 .. Len(s), ~IsDigit(s[p]), s[p] # Blank,
         \/ s[p] # "-"
         \/ p # 1 /\ s[p - 1] # Blank
         \/ ~(p < Len(s))
         \/ ~IsDigit(s[p + 1])
  PROVE  ~WellFormed(s)
<1>1. DOMAIN s = 1 .. Len(s)
  BY LenProperties DEF ScanTypes
<1> QED
  BY <1>1 DEF WellFormed

LEMMA StopScan ==
  ASSUME Parsed, result # "idle", UNCHANGED <<s, i, j, chk, opr>>, result' = "false",
         ~WellFormed(s)
  PROVE  Parsed'
<1>1. ScanTypes'
  BY DEF Parsed, ScanTypes
<1>2. ~WellFormed(s')
  BY DEF WellFormed
<1> QED
  BY <1>1, <1>2 DEF Parsed, CommandRight

LEMMA BeginScan == ASSUME Parsed, Begin PROVE Parsed'
<1>1. /\ result = "start" /\ UNCHANGED <<s, i, j, chk, opr>>
      /\ result' = IF s # <<>> /\ s[Len(s)] = "-" THEN "false" ELSE "scan"
  BY DEF Begin, Last
<1>2. /\ ScanTypes /\ i = 1 /\ j = 0 /\ ~chk
      /\ opr = [n \in 0 .. 2 |-> 0]
  BY <1>1 DEF Parsed
<1>3. s \in Seq(Alphabet) /\ Len(s) \in Nat
  BY <1>2, LenProperties DEF ScanTypes
<1>4. CASE s # <<>> /\ s[Len(s)] = "-"
  <2>1. Len(s) \in 1 .. Len(s)
    BY <1>3, <1>4, EmptySeq
  <2>2. ~WellFormed(s)
    BY <1>2, <1>3, <1>4, <2>1, Chars, Refused
  <2> QED
    BY <1>1, <1>4, <2>2, StopScan
<1>5. CASE ~(s # <<>> /\ s[Len(s)] = "-")
  <2>1. \A n \in 0 .. 2 : Num(s, n)[0] = 0
    BY <1>3, Numbered
  <2>2. FieldOf(s, 1) = 0
    BY FieldFirst
  <2>3. PassedTo(s, 0) /\ Stored(s, 0) /\ \A n : ~Minuses(s, n, 0)
    BY DEF PassedTo, Stored, Minuses
  <2>4. i - 1 = 0
    BY <1>2
  <2>5. \A n \in 0 .. 2 : opr[n] = Wrap(Value(s, n, 0, j)) /\ Num(s, n)[0] = 0
    <3>1. \A n \in 0 .. 2 : Value(s, n, 0, j) = 0 /\ opr[n] = 0
      BY <1>2, <2>1, <2>3 DEF Value
    <3> QED
      BY <2>1, <3>1, WrapZero
  <2>6. Scanned
    BY <1>2, <2>2, <2>3, <2>4, <2>5 DEF Scanned
  <2>7. Scanned' /\ ScanTypes' /\ result' = "scan"
    BY <1>1, <1>2, <1>5, <2>6 DEF Scanned, ScanTypes
  <2> QED
    BY <1>1, <1>5, <2>7 DEF Parsed, CommandRight
<1> QED
  BY <1>4, <1>5

\* How far a line is good after one more character that is not a minus sign.
LEMMA PassedNext ==
  ASSUME NEW line, NEW p \in Nat \ {0}, PassedTo(line, p - 1),
         IsDigit(line[p]) \/ line[p] = Blank
  PROVE  PassedTo(line, p)
<1> SUFFICES ASSUME NEW q \in 1 .. p
             PROVE  \/ IsDigit(line[q]) \/ line[q] = Blank
                    \/ /\ line[q] = "-"
                       /\ q = 1 \/ line[q - 1] = Blank
                       /\ q < Len(line) /\ line[q + 1] # Blank
                       /\ q < p => IsDigit(line[q + 1])
  BY DEF PassedTo
<1>1. CASE q = p
  BY <1>1
<1>2. CASE q # p
  <2>1. q \in 1 .. p - 1
    BY <1>2
  <2>2. \/ IsDigit(line[q]) \/ line[q] = Blank
        \/ /\ line[q] = "-"
           /\ q = 1 \/ line[q - 1] = Blank
           /\ q < Len(line) /\ line[q + 1] # Blank
           /\ q < p - 1 => IsDigit(line[q + 1])
    BY <2>1 DEF PassedTo
  <2>3. CASE line[q] = "-"
    <3>1. line[q + 1] # Blank
      BY <2>2, <2>3, Chars
    <3>2. IsDigit(line[q + 1])
      <4>1. CASE q < p - 1
        BY <2>2, <2>3, <4>1, Chars
      <4>2. CASE q = p - 1
        BY <3>1, <4>2
      <4> QED
        BY <2>1, <4>1, <4>2
    <3> QED
      BY <2>2, <2>3, <3>2, Chars
  <2> QED
    BY <2>2, <2>3
<1> QED
  BY <1>1, <1>2

LEMMA StoredNext ==
  ASSUME NEW line, NEW p \in Nat \ {0}, Stored(line, p - 1),
         IsDigit(line[p]) => FieldOf(line, p) <= 2
  PROVE  Stored(line, p)
<1>1. 1 .. p = (1 .. p - 1) \cup {p}
  OBVIOUS
<1> QED
  BY <1>1 DEF Stored

\* A step of the scan to the next character.
LEMMA GoOn ==
  ASSUME Parsed, NEW c, Char(c), s' = s, i' = i + 1, result' = "scan",
         ScanTypes', Scanned'
  PROVE  Parsed'
<1>1. s' # <<>> => s'[Len(s')] # "-"
  BY AtChar
<1> QED
  BY <1>1 DEF Parsed, CommandRight

LEMMA MinusScan == ASSUME Parsed, Minus PROVE Parsed'
<1>1. /\ Char("-") /\ UNCHANGED <<s, j, opr>>
      /\ IF (i > 1 /\ s[i - 1] # Blank) \/ s[i + 1] = Blank
           THEN result' = "false" /\ UNCHANGED <<i, chk>>
           ELSE chk' = TRUE /\ i' = i + 1 /\ UNCHANGED result
  BY DEF Minus
<1>2. /\ Scanned /\ s[Len(s)] # "-"
      /\ s \in Seq(Alphabet) /\ Len(s) \in Nat /\ DOMAIN s = 1 .. Len(s)
      /\ i \in 1 .. Len(s) /\ i \in Nat \ {0} /\ s[i] = "-"
      /\ j \in 0 .. i - 1 /\ j \in Nat /\ opr \in [0 .. 2 -> CInts] /\ chk \in BOOLEAN
  BY <1>1, AtChar
<1>3. i < Len(s) /\ i + 1 \in 1 .. Len(s)
  BY <1>2
<1>4. CASE (i > 1 /\ s[i - 1] # Blank) \/ s[i + 1] = Blank
  <2>1. ScanTypes /\ result = "scan"
    BY <1>1 DEF Parsed, Char
  <2>2. \/ i # 1 /\ s[i - 1] # Blank
        \/ ~IsDigit(s[i + 1])
    BY <1>2, <1>4, Chars
  <2>3. ~WellFormed(s)
    BY <1>2, <2>1, <2>2, Chars, Refused
  <2> QED
    BY <1>1, <1>4, <2>1, <2>3, StopScan
<1>5. CASE ~((i > 1 /\ s[i - 1] # Blank) \/ s[i + 1] = Blank)
  <2>1. /\ chk' = TRUE /\ i' = i + 1 /\ result' = result /\ result = "scan"
        /\ s' = s /\ j' = j /\ opr' = opr
    BY <1>1, <1>5 DEF Char
  <2>2. i' - 1 = i
    BY <1>2, <2>1
  <2>3. ScanTypes'
    <3>1. i + 1 \in 1 .. Len(s) + 1 /\ j \in 0 .. (i + 1) - 1
      BY <1>2
    <3> QED
      BY <1>2, <2>1, <3>1 DEF ScanTypes
  <2>4. FieldOf(s, i + 1) = j
    BY <1>2, FieldNext, Chars DEF Scanned
  <2>5. PassedTo(s, i)
    <3> SUFFICES ASSUME NEW q \in 1 .. i
                 PROVE  \/ IsDigit(s[q]) \/ s[q] = Blank
                        \/ /\ s[q] = "-"
                           /\ q = 1 \/ s[q - 1] = Blank
                           /\ q < Len(s) /\ s[q + 1] # Blank
                           /\ q < i => IsDigit(s[q + 1])
      BY DEF PassedTo
    <3>1. CASE q = i
      BY <1>2, <1>3, <1>5, <3>1
    <3>2. CASE q # i
      <4>1. q \in 1 .. i - 1 /\ q < i
        BY <1>2, <3>2
      <4>2. \/ IsDigit(s[q]) \/ s[q] = Blank
            \/ /\ s[q] = "-"
               /\ q = 1 \/ s[q - 1] = Blank
               /\ q < Len(s) /\ s[q + 1] # Blank
               /\ q < i - 1 => IsDigit(s[q + 1])
        BY <1>2, <4>1 DEF Scanned, PassedTo
      <4>3. q < i - 1 \/ s[q] # "-"
        <5> SUFFICES ASSUME q = i - 1, s[q] = "-" PROVE FALSE
          BY <1>2, <4>1
        <5>1. i > 1 /\ s[i - 1] = "-"
          BY <1>2, <4>1
        <5> QED
          BY <1>5, <5>1, Chars
      <4> QED
        BY <4>2, <4>3
    <3> QED
      BY <3>1, <3>2
  <2>6. /\ Minuses(s, j, i)
        /\ \A n : n # j => (Minuses(s, n, i) <=> Minuses(s, n, i - 1))
    <3>1. FieldOf(s, i) = j
      BY <1>2 DEF Scanned
    <3> QED
      BY <1>2, <3>1, MinusesNext
  <2>7. \A n \in 0 .. 2 : Num(s, n)[i] = Num(s, n)[i - 1]
    BY <1>2, Chars, Numbered DEF DigitStep
  <2>8. \A n \in 0 .. 2 : /\ opr[n] = Wrap(Value(s, n, i, j))
                          /\ n > j => Num(s, n)[i] = 0
    <3>1. \A n \in 0 .. 2 : Value(s, n, i, j) = Value(s, n, i - 1, j)
      BY <2>6, <2>7 DEF Value
    <3> QED
      BY <1>2, <2>7, <3>1 DEF Scanned
  <2>9. Stored(s, i)
    BY <1>2, Chars, StoredNext DEF Scanned
  <2>10. Scanned'
    BY <2>1, <2>2, <2>4, <2>5, <2>6, <2>8, <2>9 DEF Scanned
  <2> QED
    BY <1>1, <2>1, <2>3, <2>10, GoOn
<1> QED
  BY <1>4, <1>5

LEMMA OtherScan == ASSUME Parsed, NEW c, OtherChar(c) PROVE Parsed'
<1>1. /\ Char(c) /\ c \notin {"-", Blank} /\ ~IsDigit(c)
      /\ result' = "false" /\ UNCHANGED <<s, i, j, chk, opr>>
  BY DEF OtherChar
<1>2. i \in 1 .. Len(s) /\ s[i] = c
  BY <1>1, AtChar
<1>3. ScanTypes /\ result = "scan"
  BY <1>1 DEF Parsed, Char
<1>4. ~WellFormed(s)
  BY <1>1, <1>2, <1>3, Refused
<1> QED
  BY <1>1, <1>3, <1>4, StopScan

LEMMA StrayScan == ASSUME Parsed, NEW c, Stray(c) PROVE Parsed'
<1>1. /\ Char(c) /\ IsDigit(c) /\ j > 2
      /\ result' = "undefined" /\ UNCHANGED <<s, i, j, chk, opr>>
  BY DEF Stray
<1>2. /\ Scanned /\ DOMAIN s = 1 .. Len(s) /\ i \in 1 .. Len(s) /\ s[i] = c
      /\ j \in Nat
  BY <1>1, AtChar
<1>3. ScanTypes'
  BY <1>1 DEF Parsed, ScanTypes
<1>4. ~InBounds(s)
  BY <1>1, <1>2 DEF Scanned, InBounds
<1> QED
  BY <1>1, <1>3, <1>4 DEF Parsed, CommandRight

LEMMA SpaceScan == ASSUME Parsed, Space PROVE Parsed'
<1>1. /\ Char(Blank) /\ s' = s /\ result' = result /\ result = "scan"
      /\ opr' = IF chk THEN [opr EXCEPT ![j] = Wrap(-@)] ELSE opr
      /\ j' = j + 1 /\ chk' = FALSE /\ i' = i + 1
  BY DEF Space, Char
<1>2. /\ Scanned /\ s \in Seq(Alphabet) /\ Len(s) \in Nat
      /\ i \in 1 .. Len(s) /\ i \in Nat \ {0} /\ s[i] = Blank
      /\ j \in 0 .. i - 1 /\ j \in Nat /\ opr \in [0 .. 2 -> CInts]
  BY <1>1, AtChar
<1>3. i' - 1 = i
  BY <1>1, <1>2
<1>4. /\ \A n : Num(s, n)[i - 1] \in Int
      /\ \A n : Num(s, n)[i] = Num(s, n)[i - 1]
  <2>1. i - 1 \in 0 .. Len(s)
    BY <1>2
  <2> QED
    BY <1>2, <2>1, Chars, Numbered DEF DigitStep
<1>5. \A n : Minuses(s, n, i) <=> Minuses(s, n, i - 1)
  BY <1>2, Chars, MinusesNext
<1>6. ~Minuses(s, j + 1, i)
  <2> SUFFICES ASSUME NEW q \in 1 .. i, FieldOf(s, q) = j + 1 PROVE FALSE
    BY DEF Minuses
  <2>1. FieldOf(s, q) <= FieldOf(s, i)
    BY <1>2, FieldGrows
  <2> QED
    BY <1>2, <2>1 DEF Scanned
<1>7. /\ j = FieldOf(s, i) /\ PassedTo(s, i - 1) /\ Stored(s, i - 1)
      /\ chk <=> Minuses(s, j, i - 1)
      /\ \A n \in 0 .. 2 : /\ opr[n] = Wrap(Value(s, n, i - 1, j))
                           /\ n > j => Num(s, n)[i - 1] = 0
  BY <1>2 DEF Scanned
<1>8. ASSUME NEW n \in 0 .. 2
      PROVE  /\ opr'[n] = Wrap(Value(s, n, i, j + 1)) /\ opr'[n] \in CInts
             /\ n > j + 1 => Num(s, n)[i] = 0
  <2>1. CASE n = j
    <3>1. opr[n] = Wrap(Num(s, n)[i - 1])
      BY <1>7, <2>1 DEF Value
    <3>2. opr'[n] = IF chk THEN Wrap(-Wrap(Num(s, n)[i - 1])) ELSE Wrap(Num(s, n)[i - 1])
      BY <1>1, <1>2, <2>1, <3>1
    <3>3. Wrap(-Wrap(Num(s, n)[i - 1])) = Wrap(-Num(s, n)[i - 1])
      BY <1>4, WrapMinus
    <3>4. Value(s, n, i, j + 1) = IF chk THEN -Num(s, n)[i - 1] ELSE Num(s, n)[i - 1]
      <4>1. n # j + 1
        BY <1>2, <2>1
      <4> QED
        BY <1>4, <1>5, <1>7, <2>1, <4>1 DEF Value
    <3>5. Wrap(Value(s, n, i, j + 1)) \in CInts
      <4>1. Value(s, n, i, j + 1) \in Int
        BY <1>4, <3>4
      <4> QED
        BY <4>1, WrapRange
    <3> QED
      BY <1>2, <2>1, <3>2, <3>3, <3>4, <3>5
  <2>2. CASE n # j
    <3>1. opr'[n] = opr[n]
      BY <1>1, <1>2, <2>2
    <3>2. Value(s, n, i, j + 1) = Value(s, n, i - 1, j)
      BY <1>4, <1>5, <1>6, <2>2 DEF Value
    <3>3. n > j + 1 => Num(s, n)[i] = 0
      <4>1. n > j + 1 => n > j
        BY <1>2
      <4> QED
        BY <1>4, <1>7, <4>1
    <3> QED
      BY <1>2, <1>7, <3>1, <3>2, <3>3
  <2> QED
    BY <2>1, <2>2
<1>9. ScanTypes'
  <2>1. i + 1 \in 1 .. Len(s) + 1 /\ j + 1 \in 0 .. (i + 1) - 1
    BY <1>2
  <2>2. opr' \in [0 .. 2 -> CInts]
    <3>1. DOMAIN opr' = 0 .. 2 /\ opr' = [n \in 0 .. 2 |-> opr'[n]]
      BY <1>1, <1>2
    <3> QED
      BY <1>8, <3>1
  <2> QED
    BY <1>1, <1>2, <2>1, <2>2 DEF ScanTypes
<1>10. Scanned'
  <2>1. FieldOf(s, i + 1) = j + 1
    BY <1>2, <1>7, FieldNext
  <2>2. PassedTo(s, i) /\ Stored(s, i)
    BY <1>2, <1>7, Chars, PassedNext, StoredNext
  <2> QED
    BY <1>1, <1>3, <1>6, <1>8, <2>1, <2>2 DEF Scanned
<1> QED
  BY <1>1, <1>9, <1>10, GoOn

LEMMA DigitScan == ASSUME Parsed, NEW c, Digit(c) PROVE Parsed'
<1>1. /\ Char(c) /\ IsDigit(c) /\ j <= 2 /\ s' = s /\ j' = j /\ chk' = chk
      /\ result' = result /\ result = "scan" /\ i' = i + 1
      /\ opr' = [opr EXCEPT ![j] = Wrap(Wrap(@ * 10) + Val(c))]
  BY DEF Digit, Char
<1>2. /\ Scanned /\ s \in Seq(Alphabet) /\ Len(s) \in Nat
      /\ DOMAIN s = 1 .. Len(s) /\ i \in 1 .. Len(s) /\ i \in Nat \ {0} /\ s[i] = c
      /\ j \in 0 .. i - 1 /\ j \in Nat /\ opr \in [0 .. 2 -> CInts] /\ chk \in BOOLEAN
  BY <1>1, AtChar
<1>3. i' - 1 = i
  BY <1>1, <1>2
<1>4. c # Blank /\ c # "-" /\ Val(c) \in Int
  BY <1>1, Chars, ValInt
<1>5. /\ j = FieldOf(s, i) /\ PassedTo(s, i - 1) /\ Stored(s, i - 1)
      /\ chk <=> Minuses(s, j, i - 1)
      /\ \A n \in 0 .. 2 : /\ opr[n] = Wrap(Value(s, n, i - 1, j))
                           /\ n > j => Num(s, n)[i - 1] = 0
  BY <1>2 DEF Scanned
<1>6. j \in 0 .. 2
  BY <1>1, <1>2
<1>7. /\ \A n : Num(s, n)[i - 1] \in Int
      /\ \A n : Num(s, n)[i] = IF n = j THEN Num(s, n)[i - 1] * 10 + Val(c)
                                        ELSE Num(s, n)[i - 1]
  <2>1. i - 1 \in 0 .. Len(s)
    BY <1>2
  <2> QED
    BY <1>1, <1>2, <1>5, <2>1, Numbered DEF DigitStep
<1>8. \A n : Minuses(s, n, i) <=> Minuses(s, n, i - 1)
  BY <1>2, <1>4, MinusesNext
<1>9. ASSUME NEW n \in 0 .. 2
      PROVE  /\ opr'[n] = Wrap(Value(s, n, i, j)) /\ opr'[n] \in CInts
             /\ n > j => Num(s, n)[i] = 0
  <2>1. CASE n = j
    <3>1. opr[n] = Wrap(Num(s, n)[i - 1])
      BY <1>5, <2>1 DEF Value
    <3>2. opr'[n] = Wrap(Wrap(Wrap(Num(s, n)[i - 1]) * 10) + Val(c))
      BY <1>1, <1>2, <2>1, <3>1
    <3>3. opr'[n] = Wrap(Num(s, n)[i - 1] * 10 + Val(c))
      BY <1>4, <1>7, <3>2, WrapDigit
    <3>4. Value(s, n, i, j) = Num(s, n)[i - 1] * 10 + Val(c)
      BY <1>7, <2>1 DEF Value
    <3>5. Wrap(Num(s, n)[i - 1] * 10 + Val(c)) \in CInts
      <4>1. Num(s, n)[i - 1] * 10 + Val(c) \in Int
        BY <1>4, <1>7
      <4> QED
        BY <4>1, WrapRange
    <3> QED
      BY <1>2, <2>1, <3>3, <3>4, <3>5
  <2>2. CASE n # j
    <3>1. opr'[n] = opr[n]
      BY <1>1, <1>2, <2>2
    <3>2. Value(s, n, i, j) = Value(s, n, i - 1, j)
      BY <1>7, <1>8, <2>2 DEF Value
    <3> QED
      BY <1>2, <1>5, <1>7, <2>2, <3>1, <3>2
  <2> QED
    BY <2>1, <2>2
<1>10. ScanTypes'
  <2>1. i + 1 \in 1 .. Len(s) + 1 /\ j \in 0 .. (i + 1) - 1
    BY <1>2
  <2>2. opr' \in [0 .. 2 -> CInts]
    <3>1. opr' = [n \in 0 .. 2 |-> opr'[n]]
      BY <1>1, <1>2
    <3> QED
      BY <1>9, <3>1
  <2> QED
    BY <1>1, <1>2, <2>1, <2>2 DEF ScanTypes
<1>11. Scanned'
  <2>1. FieldOf(s, i + 1) = j
    BY <1>2, <1>4, <1>5, FieldNext
  <2>2. PassedTo(s, i) /\ Stored(s, i)
    BY <1>1, <1>2, <1>5, PassedNext, StoredNext
  <2> QED
    BY <1>1, <1>3, <1>5, <1>8, <1>9, <2>1, <2>2 DEF Scanned
<1> QED
  BY <1>1, <1>10, <1>11, GoOn

\* A line is accepted with the numbers in it, but for the last one's sign where
\* it has less than three.
LEMMA ScanEnds == ASSUME Parsed, End PROVE Parsed'
<1>1. /\ result = "scan" /\ i > Len(s) /\ UNCHANGED <<s, i, j, chk>> /\ result' = "true"
      /\ opr' = IF chk THEN [opr EXCEPT ![2] = Wrap(-@)] ELSE opr
  BY DEF End
<1>2. /\ Scanned /\ s \in Seq(Alphabet) /\ Len(s) \in Nat
      /\ DOMAIN s = 1 .. Len(s) /\ i - 1 = Len(s) /\ i = Len(s) + 1
      /\ j \in 0 .. i - 1 /\ j \in Nat /\ opr \in [0 .. 2 -> CInts] /\ chk \in BOOLEAN
  <2>1. ScanTypes /\ Scanned
    BY <1>1 DEF Parsed
  <2>2. s \in Seq(Alphabet) /\ Len(s) \in Nat /\ DOMAIN s = 1 .. Len(s)
    BY <2>1, LenProperties DEF ScanTypes
  <2>3. i = Len(s) + 1
    BY <1>1, <2>1, <2>2 DEF ScanTypes
  <2> QED
    BY <2>1, <2>2, <2>3 DEF ScanTypes
<1>3. /\ j = Spaces(s) /\ PassedTo(s, Len(s)) /\ Stored(s, Len(s))
      /\ chk <=> Minuses(s, j, Len(s))
      /\ \A n \in 0 .. 2 : /\ opr[n] = Wrap(Value(s, n, Len(s), j))
                           /\ n > j => Magnitude(s, n) = 0
  <2>1. \A n : Num(s, n)[Len(s)] = Magnitude(s, n)
    BY <1>2, Numbered
  <2> QED
    BY <1>2, <2>1 DEF Scanned, Spaces
<1>4. \A n : /\ Magnitude(s, n) \in Int
             /\ Signed(s, n) = IF Minuses(s, n, Len(s)) THEN -Magnitude(s, n)
                                                        ELSE Magnitude(s, n)
             /\ Value(s, n, Len(s), j) = IF n # j THEN Signed(s, n) ELSE Magnitude(s, n)
  <2>1. \A n : Num(s, n)[Len(s)] = Magnitude(s, n) /\ Magnitude(s, n) \in Int
    <3>1. Len(s) \in 0 .. Len(s)
      BY <1>2
    <3> QED
      BY <1>2, <3>1, Numbered
  <2>2. \A n : Signed(s, n) = IF Minuses(s, n, Len(s)) THEN -Magnitude(s, n)
                                                       ELSE Magnitude(s, n)
    BY <1>2 DEF Signed, Minuses
  <2> QED
    BY <2>1, <2>2 DEF Value
<1>5. WellFormed(s)
  <2> SUFFICES ASSUME NEW q \in 1 .. Len(s)
               PROVE  \/ IsDigit(s[q]) \/ s[q] = Blank
                      \/ /\ s[q] = "-"
                         /\ q = 1 \/ s[q - 1] = Blank
                         /\ q < Len(s) /\ IsDigit(s[q + 1])
    BY <1>2 DEF WellFormed
  <2> QED
    BY <1>3 DEF PassedTo
<1>6. /\ opr' \in [0 .. 2 -> CInts]
      /\ opr'[2] = IF chk THEN Wrap(-opr[2]) ELSE opr[2]
      /\ \A n \in 0 .. 1 : opr'[n] = opr[n]
  <2>1. opr[2] \in Int
    BY <1>2 DEF CInts
  <2>2. Wrap(-opr[2]) \in CInts
    BY <2>1, WrapRange
  <2> QED
    BY <1>1, <1>2, <2>2
<1>7. ASSUME NEW n \in 0 .. 2, n # j \/ n = 2 PROVE opr'[n] = Wrap(Signed(s, n))
  <2>1. CASE n = 2 /\ n = j
    <3>1. opr[n] = Wrap(Magnitude(s, n))
      BY <1>3, <1>4, <2>1
    <3>2. Wrap(-opr[n]) = Wrap(-Magnitude(s, n))
      BY <1>4, <3>1, WrapMinus
    <3>3. Signed(s, n) = IF chk THEN -Magnitude(s, n) ELSE Magnitude(s, n)
      BY <1>3, <1>4, <2>1
    <3> QED
      BY <1>6, <2>1, <3>1, <3>2, <3>3
  <2>2. CASE n = 2 /\ n # j /\ chk
    <3>1. j < 2
      <4>1. PICK q \in 1 .. Len(s) : s[q] = "-" /\ FieldOf(s, q) = j
        BY <1>3, <2>2 DEF Minuses
      <4>2. q < Len(s) /\ IsDigit(s[q + 1])
        BY <1>3, <4>1, Chars DEF PassedTo
      <4>3. FieldOf(s, q + 1) = j
        BY <4>1, Chars, FieldNext
      <4>4. j <= 2
        <5>1. q + 1 \in 1 .. Len(s)
          BY <1>2, <4>2
        <5> QED
          BY <1>3, <4>2, <4>3, <5>1 DEF Stored
      <4> QED
        BY <1>2, <2>2, <4>4
    <3>2. Signed(s, n) = 0
      BY <1>2, <1>3, <1>4, <2>2, <3>1
    <3>3. opr[n] = 0
      BY <1>3, <1>4, <2>2, <3>2, WrapZero
    <3> QED
      BY <1>6, <2>2, <3>2, <3>3, WrapZero
  <2>3. CASE n # j /\ (n # 2 \/ ~chk)
    <3>1. opr'[n] = opr[n]
      BY <1>6, <2>3
    <3> QED
      BY <1>3, <1>4, <2>3, <3>1
  <2> QED
    BY <1>7, <2>1, <2>2, <2>3
<1>8. ScanTypes'
  BY <1>1, <1>2, <1>6 DEF Parsed, ScanTypes
<1>9. CommandRight'
  <2>1. result' = "true" /\ s' = s /\ j = Spaces(s)
    BY <1>1, <1>3
  <2> QED
    BY <1>5, <1>7, <2>1 DEF CommandRight
<1>10. InBounds(s')
  BY <1>1, <1>2, <1>3 DEF Stored, InBounds
<1> QED
  BY <1>1, <1>8, <1>9, <1>10 DEF Parsed

LEMMA ScanNext == Parsed /\ Next => Parsed'
  BY BeginScan, MinusScan, SpaceScan, DigitScan, StrayScan, OtherScan, ScanEnds DEF Next

-----------------------------------------------------------------------------
(* What arrives, and what handle_read() cuts out of it.                    *)

Coming == socket \o flight
Left   == SubSeq(socket, Len(Buffer) + 1, Len(socket)) \o flight
Cut(b) == SubSeq(b, 1, EndOfLine(b) - 1)

\* The end of a sequence from position k.
From(t, k) == SubSeq(t, k, Len(t))

LEMMA FromIs ==
  ASSUME NEW S, NEW t \in Seq(S), NEW k \in 1 .. Len(t) + 1
  PROVE  /\ Len(t) \in Nat /\ From(t, k) \in Seq(S) /\ Len(From(t, k)) = Len(t) - k + 1
         /\ \A p \in 1 .. Len(t) - k + 1 : From(t, k)[p] = t[k + p - 1]
<1>1. Len(t) \in Nat
  BY LenProperties
<1>2. \A p \in k .. Len(t) : t[p] \in S
  BY <1>1, ElementOfSeq
<1> QED
  BY <1>1, <1>2, SubSeqProperties DEF From

\* What read() returns is the beginning of what comes.
LEMMA ReadBegins ==
  ASSUME socket \in Seq(Bytes), flight \in Seq(Bytes)
  PROVE  /\ Coming \in Seq(Bytes) /\ Len(Coming) \in Nat /\ Buffer \in Seq(Bytes)
         /\ Len(Buffer) \in Nat /\ Len(Buffer) <= Len(Coming) /\ DOMAIN Buffer = 1 .. Len(Buffer)
         /\ \A p \in 1 .. Len(Buffer) : Buffer[p] = Coming[p]
         /\ Left = From(Coming, Len(Buffer) + 1)
         /\ SubSeq(socket, Len(Buffer) + 1, Len(socket)) \in Seq(Bytes)
<1> DEFINE n == IF Len(socket) < BufSize THEN Len(socket) ELSE BufSize
<1>1. /\ Len(socket) \in Nat /\ Len(flight) \in Nat /\ Coming \in Seq(Bytes)
      /\ Len(Coming) = Len(socket) + Len(flight)
      /\ \A p \in 1 .. Len(socket) + Len(flight) :
           Coming[p] = IF p <= Len(socket) THEN socket[p] ELSE flight[p - Len(socket)]
  BY LenProperties, ConcatProperties DEF Coming
<1>2. n \in Nat /\ n <= Len(socket)
  BY <1>1, BufAssumption
<1>3. Buffer = SubSeq(socket, 1, n)
  BY DEF Buffer
<1> HIDE DEF n
<1>4. \A p \in 1 .. Len(socket) : socket[p] \in Bytes
  BY ElementOfSeq
<1>5. /\ Buffer \in Seq(Bytes) /\ Len(Buffer) = n
      /\ \A p \in 1 .. n : Buffer[p] = socket[p]
  <2>1. /\ Buffer \in Seq(Bytes) /\ Len(Buffer) = IF 1 <= n THEN n - 1 + 1 ELSE 0
        /\ \A p \in 1 .. n - 1 + 1 : Buffer[p] = socket[1 + p - 1]
    BY <1>2, <1>3, <1>4, <1>1, SubSeqProperties
  <2> QED
    BY <1>2, <2>1
<1>6. DOMAIN Buffer = 1 .. Len(Buffer)
  BY <1>5, LenProperties
<1> DEFINE rest == SubSeq(socket, n + 1, Len(socket))
<1>7. /\ rest \in Seq(Bytes) /\ Len(rest) = Len(socket) - n
      /\ \A p \in 1 .. Len(socket) - n : rest[p] = socket[n + p]
  <2>1. /\ rest \in Seq(Bytes)
        /\ Len(rest) = IF n + 1 <= Len(socket) THEN Len(socket) - (n + 1) + 1 ELSE 0
        /\ \A p \in 1 .. Len(socket) - (n + 1) + 1 : rest[p] = socket[(n + 1) + p - 1]
    BY <1>1, <1>2, <1>4, SubSeqProperties
  <2> QED
    BY <1>1, <1>2, <2>1
<1> HIDE DEF rest
<1>8. /\ rest \o flight \in Seq(Bytes) /\ Len(rest \o flight) = Len(rest) + Len(flight)
      /\ \A p \in 1 .. Len(rest) + Len(flight) :
           (rest \o flight)[p] = IF p <= Len(rest) THEN rest[p] ELSE flight[p - Len(rest)]
  BY <1>7, ConcatProperties
<1>9. /\ From(Coming, n + 1) \in Seq(Bytes) /\ Len(From(Coming, n + 1)) = Len(Coming) - n
      /\ \A p \in 1 .. Len(Coming) - n : From(Coming, n + 1)[p] = Coming[n + p]
  <2>1. n + 1 \in 1 .. Len(Coming) + 1
    BY <1>1, <1>2
  <2>2. /\ From(Coming, n + 1) \in Seq(Bytes)
        /\ Len(From(Coming, n + 1)) = Len(Coming) - (n + 1) + 1
        /\ \A p \in 1 .. Len(Coming) - (n + 1) + 1 :
             From(Coming, n + 1)[p] = Coming[(n + 1) + p - 1]
    BY <1>1, <2>1, FromIs
  <2> QED
    BY <1>1, <1>2, <2>2
<1>10. rest \o flight = From(Coming, n + 1)
  <2>1. ASSUME NEW p \in 1 .. Len(rest) + Len(flight)
        PROVE  (rest \o flight)[p] = From(Coming, n + 1)[p]
    <3>1. CASE p <= Len(rest)
      <4>1. p \in 1 .. Len(socket) - n /\ n + p \in 1 .. Len(socket) + Len(flight)
            /\ n + p <= Len(socket) /\ p \in 1 .. Len(Coming) - n
        BY <1>1, <1>2, <1>7, <3>1
      <4> QED
        BY <1>1, <1>7, <1>8, <1>9, <3>1, <4>1
    <3>2. CASE p > Len(rest)
      <4>1. /\ n + p \in 1 .. Len(socket) + Len(flight) /\ ~(n + p <= Len(socket))
            /\ p \in 1 .. Len(Coming) - n /\ (n + p) - Len(socket) = p - Len(rest)
        BY <1>1, <1>2, <1>7, <3>2
      <4>2. ~(p <= Len(rest))
        BY <1>1, <1>2, <1>7, <3>2
      <4>3. (rest \o flight)[p] = flight[p - Len(rest)]
        BY <1>8, <4>2
      <4>4. Coming[n + p] = flight[p - Len(rest)]
        BY <1>1, <4>1
      <4> QED
        BY <1>9, <4>1, <4>3, <4>4
    <3> QED
      BY <1>1, <1>2, <1>7, <3>1, <3>2
  <2>2. Len(rest \o flight) = Len(From(Coming, n + 1))
    BY <1>1, <1>2, <1>7, <1>8, <1>9
  <2> QED
    BY <1>8, <1>9, <2>1, <2>2, SeqEqual
<1>11. Left = rest \o flight
  BY <1>5 DEF Left, rest
<1>12. \A p \in 1 .. n : Buffer[p] = Coming[p]
  BY <1>1, <1>2, <1>5
<1>13. SubSeq(socket, Len(Buffer) + 1, Len(socket)) \in Seq(Bytes)
  BY <1>5, <1>7 DEF rest
<1>14. Left = From(Coming, Len(Buffer) + 1)
  BY <1>5, <1>10, <1>11
<1>15. Len(Coming) \in Nat /\ Len(Buffer) \in Nat /\ Len(Buffer) <= Len(Coming)
  BY <1>1, <1>2, <1>5
<1>16. \A p \in 1 .. Len(Buffer) : Buffer[p] = Coming[p]
  BY <1>5, <1>12
<1> QED
  BY <1>1, <1>5, <1>6, <1>13, <1>14, <1>15, <1>16

\* A line ends with its end of line, and nowhere else.
LEMMA Ended ==
  ASSUME NEW line \in Seq(Alphabet), NEW e \in Eols
  PROVE  /\ line \o e \in Seq(Bytes) /\ Len(line \o e) = Len(line) + Len(e)
         /\ Len(e) \in 1 .. 2 /\ Len(line) \in Nat /\ line \in Seq(Bytes)
         /\ \A p \in 1 .. Len(line) : (line \o e)[p] = line[p] /\ line[p] \in Alphabet
         /\ \A p \in 1 .. Len(line) + Len(e) :
              /\ (line \o e)[p] = "LF" <=> p = Len(line) + Len(e)
              /\ (line \o e)[p] = "CR" <=> Len(e) = 2 /\ p = Len(line) + 1
<1>1. line \in Seq(Bytes) /\ Len(line) \in Nat
  BY LenProperties, SeqMonotonic DEF Bytes
<1>2. \A p \in 1 .. Len(line) : line[p] \in Alphabet /\ line[p] \notin {"CR", "LF"}
  <2>1. \A p \in 1 .. Len(line) : line[p] \in Alphabet
    BY ElementOfSeq
  <2> QED
    BY <2>1, BufAssumption
<1>3. /\ e \in Seq(Bytes)
      /\ \/ Len(e) = 1 /\ e[1] = "LF"
         \/ Len(e) = 2 /\ e[1] = "CR" /\ e[2] = "LF"
  <2>1. "LF" \in Bytes /\ "CR" \in Bytes
    BY DEF Bytes
  <2>2. CASE e = <<"LF">>
    BY <2>1, <2>2
  <2>3. CASE e = <<"CR", "LF">>
    BY <2>1, <2>3
  <2> QED
    BY <2>2, <2>3 DEF Eols
<1>4. /\ line \o e \in Seq(Bytes) /\ Len(line \o e) = Len(line) + Len(e)
      /\ \A p \in 1 .. Len(line) + Len(e) :
           (line \o e)[p] = IF p <= Len(line) THEN line[p] ELSE e[p - Len(line)]
  BY <1>1, <1>3, ConcatProperties
<1>5. ASSUME NEW p \in 1 .. Len(line) PROVE (line \o e)[p] = line[p]
  BY <1>1, <1>3, <1>4
<1>6. ASSUME NEW p \in 1 .. Len(line) + Len(e)
      PROVE  /\ (line \o e)[p] = "LF" <=> p = Len(line) + Len(e)
             /\ (line \o e)[p] = "CR" <=> Len(e) = 2 /\ p = Len(line) + 1
  <2>1. CASE p <= Len(line)
    <3>1. p \in 1 .. Len(line) /\ p # Len(line) + Len(e) /\ p # Len(line) + 1
      BY <1>1, <1>3, <2>1
    <3> QED
      BY <1>2, <1>5, <3>1
  <2>2. CASE p > Len(line)
    <3>1. p - Len(line) \in 1 .. Len(e) /\ (line \o e)[p] = e[p - Len(line)]
      BY <1>1, <1>3, <1>4, <2>2
    <3>2. CASE Len(e) = 1
      <4>1. p - Len(line) = 1 /\ p = Len(line) + Len(e)
        BY <1>1, <3>1, <3>2
      <4> QED
        BY <1>3, <3>1, <3>2, <4>1
    <3>3. CASE Len(e) = 2
      <4>1. \/ p - Len(line) = 1 /\ p # Len(line) + Len(e) /\ p = Len(line) + 1
            \/ p - Len(line) = 2 /\ p = Len(line) + Len(e) /\ p # Len(line) + 1
        BY <1>1, <3>1, <3>3
      <4> QED
        BY <1>3, <3>1, <3>3, <4>1
    <3> QED
      BY <1>3, <3>2, <3>3
  <2> QED
    BY <1>1, <1>3, <2>1, <2>2
<1> QED
  BY <1>1, <1>2, <1>3, <1>4, <1>5, <1>6

LEMMA FirstOf ==
  ASSUME NEW p \in Int, NEW ps, ps = {p}
  PROVE  First(ps) = p
  BY DEF First

\* Of the end of a line, what is before its end of line is the end of the line.
LEMMA CutFrom ==
  ASSUME NEW line \in Seq(Alphabet), NEW e \in Eols, NEW k \in 1 .. Len(line \o e)
  PROVE  Cut(From(line \o e, k)) = From(line, k) /\ From(line, k) \in Seq(Alphabet)
<1> DEFINE L == Len(line)
           m == L + Len(e) - k + 1
           b == From(line \o e, k)
<1>1. /\ L \in Nat /\ Len(e) \in 1 .. 2 /\ line \o e \in Seq(Bytes) /\ Len(line \o e) = L + Len(e)
      /\ \A p \in 1 .. L : (line \o e)[p] = line[p] /\ line[p] \in Alphabet
      /\ \A p \in 1 .. L + Len(e) :
           /\ (line \o e)[p] = "LF" <=> p = L + Len(e)
           /\ (line \o e)[p] = "CR" <=> Len(e) = 2 /\ p = L + 1
      /\ line \in Seq(Bytes)
  BY Ended
<1>2. /\ m \in Nat \ {0} /\ k \in Nat \ {0} /\ k <= L + Len(e)
      /\ L \in Nat /\ Len(e) \in 1 .. 2
  BY <1>1
<1>3. /\ b \in Seq(Bytes) /\ Len(b) = m /\ DOMAIN b = 1 .. m
      /\ \A p \in 1 .. m : b[p] = (line \o e)[k + p - 1]
  <2>1. /\ b \in Seq(Bytes) /\ Len(b) = Len(line \o e) - k + 1
        /\ \A p \in 1 .. Len(line \o e) - k + 1 : b[p] = (line \o e)[k + p - 1]
    <3>1. k \in 1 .. Len(line \o e) + 1
      OBVIOUS
    <3>2. line \o e \in Seq(Bytes)
      BY <1>1
    <3> QED
      BY <3>1, <3>2, FromIs
  <2>2. Len(line \o e) - k + 1 = m
    BY <1>1
  <2>3. DOMAIN b = 1 .. Len(b)
    BY <2>1, LenProperties
  <2> QED
    BY <2>1, <2>2, <2>3
<1> HIDE DEF b
<1>4. LineFeeds(b) = {m}
  <2>1. ASSUME NEW p \in 1 .. m PROVE b[p] = "LF" <=> p = m
    <3>1. k + p - 1 \in 1 .. L + Len(e) /\ (k + p - 1 = L + Len(e) <=> p = m)
      BY <1>2
    <3>2. b[p] = (line \o e)[k + p - 1]
      BY <1>3
    <3>3. (line \o e)[k + p - 1] = "LF" <=> k + p - 1 = L + Len(e)
      BY <1>1, <3>1
    <3> QED
      BY <3>1, <3>2, <3>3
  <2>2. m \in 1 .. m
    BY <1>2
  <2> QED
    BY <1>3, <2>1, <2>2 DEF LineFeeds
<1>5. CrLfs(b) = IF Len(e) = 2 /\ m > 1 THEN {m - 1} ELSE {}
  <2>1. ASSUME NEW p \in 1 .. m PROVE b[p] = "CR" <=> Len(e) = 2 /\ p = m - 1
    <3>1. k + p - 1 \in 1 .. L + Len(e)
      BY <1>2
    <3>2. b[p] = (line \o e)[k + p - 1]
      BY <1>3
    <3>3. (line \o e)[k + p - 1] = "CR" <=> Len(e) = 2 /\ k + p - 1 = L + 1
      BY <1>1, <3>1
    <3>4. Len(e) = 2 => (k + p - 1 = L + 1 <=> p = m - 1)
      BY <1>2
    <3> QED
      BY <3>2, <3>3, <3>4
  <2>2. \A p : p \in CrLfs(b) <=> p \in 1 .. m /\ p + 1 = m /\ b[p] = "CR"
    BY <1>3, <1>4 DEF CrLfs
  <2>3. \A p : p \in CrLfs(b) <=> p \in 1 .. m /\ p = m - 1 /\ Len(e) = 2
    BY <1>2, <2>1, <2>2
  <2>4. m - 1 \in 1 .. m <=> m > 1
    BY <1>2
  <2> QED
    BY <2>3, <2>4
<1>6. EndOfLine(b) = IF Len(e) = 2 /\ m > 1 THEN m - 1 ELSE m
  <2>1. First({m}) = m /\ First({m - 1}) = m - 1
    BY <1>2, FirstOf
  <2> QED
    BY <1>4, <1>5, <2>1 DEF EndOfLine
<1>7. CASE k <= L + 1
  <2>1. EndOfLine(b) - 1 = L - k + 1 /\ L - k + 1 \in Nat /\ L - k + 1 <= m
    <3>1. CASE Len(e) = 1
      BY <1>1, <1>2, <1>6, <1>7, <3>1
    <3>2. CASE Len(e) = 2
      <4>1. m > 1
        BY <1>1, <1>2, <1>7, <3>2
      <4>2. EndOfLine(b) = m - 1
        BY <1>6, <3>2, <4>1
      <4> QED
        BY <1>1, <1>2, <1>7, <3>2, <4>2
    <3>3. Len(e) = 1 \/ Len(e) = 2
      BY <1>1
    <3> QED
      BY <3>1, <3>2, <3>3
  <2>2. /\ From(line, k) \in Seq(Alphabet) /\ Len(From(line, k)) = L - k + 1
        /\ \A p \in 1 .. L - k + 1 : From(line, k)[p] = line[k + p - 1]
    <3>1. k \in 1 .. L + 1
      BY <1>7
    <3> QED
      BY <3>1, FromIs
  <2>3. /\ Cut(b) \in Seq(Bytes) /\ Len(Cut(b)) = L - k + 1
        /\ \A p \in 1 .. L - k + 1 : Cut(b)[p] = b[p]
    <3>1. \A p \in 1 .. L - k + 1 : b[p] \in Bytes
      BY <1>3, <2>1, ElementOfSeq
    <3>2. /\ SubSeq(b, 1, L - k + 1) \in Seq(Bytes)
          /\ Len(SubSeq(b, 1, L - k + 1)) = IF 1 <= L - k + 1 THEN (L - k + 1) - 1 + 1 ELSE 0
          /\ \A p \in 1 .. (L - k + 1) - 1 + 1 : SubSeq(b, 1, L - k + 1)[p] = b[1 + p - 1]
      <4>1. 1 \in Int /\ L - k + 1 \in Int
        BY <2>1
      <4> QED
        BY <3>1, <4>1, SubSeqProperties
    <3>3. Cut(b) = SubSeq(b, 1, L - k + 1)
      BY <2>1 DEF Cut
    <3> QED
      BY <2>1, <3>2, <3>3
  <2>4. ASSUME NEW p \in 1 .. L - k + 1 PROVE Cut(b)[p] = From(line, k)[p]
    <3>1. p \in 1 .. m /\ k + p - 1 \in 1 .. L
      BY <1>1, <1>2, <2>1
    <3> QED
      BY <1>1, <1>3, <2>2, <2>3, <3>1
  <2>5. From(line, k) \in Seq(Bytes)
    <3>1. Alphabet \subseteq Bytes
      BY DEF Bytes
    <3> QED
      BY <2>2, <3>1, SeqMonotonic
  <2>6. Cut(b) = From(line, k)
    BY <2>2, <2>3, <2>4, <2>5, SeqEqual
  <2> QED
    BY <2>2, <2>6 DEF b
<1>8. CASE k > L + 1
  <2>1. EndOfLine(b) - 1 = 0 /\ L < k
    <3>1. m = 1 /\ L < k
      <4> DEFINE d == Len(e)
      <4>1. d \in 1 .. 2 /\ L \in Nat /\ k \in Nat /\ k <= L + d /\ k > L + 1
            /\ m = L + d - k + 1
        BY <1>2, <1>8
      <4> HIDE DEF d, L, m
      <4> QED
        BY <4>1
    <3>2. EndOfLine(b) = 1
      BY <1>6, <3>1
    <3> QED
      BY <3>1, <3>2
  <2>2. SubSeq(b, 1, 0) = <<>> /\ SubSeq(line, k, L) = <<>>
    BY <1>1, <1>2, <2>1, SubSeqEmpty
  <2>3. Cut(b) = <<>> /\ From(line, k) = <<>>
    BY <2>1, <2>2 DEF Cut, From
  <2> QED
    BY <2>3 DEF b
<1> QED
  BY <1>1, <1>2, <1>7, <1>8

-----------------------------------------------------------------------------
(* The inductive invariant: what comes is what the server has not read of  *)
(* what the client wrote.                                                  *)

Whole(n) == lines[n] \o eol

Wire ==
  /\ patient \in BOOLEAN /\ hungup \in BOOLEAN /\ eol \in Eols
  /\ lines \in Seq(Seq(Alphabet)) /\ lines[1] \in Ids /\ lines[2] \in Lines
  /\ sent \in 0 .. 2 /\ flight \in Seq(Bytes) /\ socket \in Seq(Bytes)
  /\ state \in {"READ_ID", "READ_OPR", "closed", "exit"}

\* In the beginning that is everything; later the end of the second line, or of
\* Ctrl+C, as what was read behind the id is dropped.  A client that waits has
\* written nothing before the server has asked for it.
Everything ==
  /\ sent = 0 => Coming = <<>>
  /\ sent = 1 => Coming = Whole(1)
  /\ sent = 2 => \/ Coming = CtrlC
                 \/ ~patient /\ \E t \in {CtrlC, Whole(2)} : Coming = Whole(1) \o t
Remainder ==
  /\ sent # 0 /\ (sent = 1 => Coming = <<>>)
  /\ sent = 2 => \E t \in {CtrlC, Whole(2)} :
                   \E k \in 1 .. Len(t) + 1 : Coming = From(t, k) /\ (patient => k = 1)

Stream ==
  /\ result # "idle" => state # "READ_ID"
  /\ state = "READ_ID" => Everything
  /\ state = "READ_OPR" /\ result = "idle" => Remainder

HInv == Wire /\ Stream /\ Parsed

LEMMA CtrlCIs ==
  /\ CtrlC \in Seq(Bytes) /\ Len(CtrlC) = 2 /\ CtrlC # <<>>
  /\ \A p \in 1 .. 2 : CtrlC[p] # "LF"
<1>1. "IAC" \in Bytes /\ "IP" \in Bytes
  BY DEF Bytes
<1> QED
  BY <1>1 DEF CtrlC

\* A number and the length of an end of line.
LEMMA PlusEol ==
  ASSUME NEW a \in Nat, NEW b \in 1 .. 2
  PROVE  a + b \in Nat \ {0} /\ a + b \in 1 .. a + b /\ a + b <= a + 2
  OBVIOUS

LEMMA WholeIs ==
  ASSUME Wire, NEW n \in 1 .. 2
  PROVE  /\ lines[n] \in Seq(Alphabet) /\ Whole(n) \in Seq(Bytes)
         /\ Len(Whole(n)) \in Nat \ {0} /\ Whole(n)[Len(Whole(n))] = "LF"
         /\ \A p \in 1 .. Len(Whole(n)) : Whole(n)[p] = "LF" => p = Len(Whole(n))
<1>1. lines[n] \in Seq(Alphabet)
  <2>1. CASE n = 1
    BY <2>1, BufAssumption DEF Wire
  <2>2. CASE n = 2
    BY <2>2, LinesAssumption DEF Wire
  <2> QED
    BY <2>1, <2>2
<1>2. eol \in Eols
  BY DEF Wire
<1>3. /\ Whole(n) \in Seq(Bytes) /\ Len(Whole(n)) = Len(lines[n]) + Len(eol)
      /\ Len(eol) \in 1 .. 2 /\ Len(lines[n]) \in Nat
      /\ \A p \in 1 .. Len(lines[n]) + Len(eol) :
           Whole(n)[p] = "LF" <=> p = Len(lines[n]) + Len(eol)
  BY <1>1, <1>2, Ended DEF Whole
<1>4. /\ Len(lines[n]) + Len(eol) \in Nat \ {0}
      /\ Len(lines[n]) + Len(eol) \in 1 .. Len(lines[n]) + Len(eol)
  <2>1. Len(eol) \in 1 .. 2 /\ Len(lines[n]) \in Nat
    BY <1>3
  <2> QED
    BY <2>1, PlusEol
<1> QED
  BY <1>1, <1>3, <1>4

\* A read that holds the end of a line holds all of the line that is left.
LEMMA ReadsAll ==
  ASSUME Wire, NEW n \in 1 .. 2, NEW k \in 1 .. Len(Whole(n)) + 1,
         Coming = From(Whole(n), k), LineFeeds(Buffer) # {}
  PROVE  /\ Left = <<>> /\ Cut(Buffer) = From(lines[n], k) /\ Cut(Buffer) \in Seq(Alphabet)
         /\ k \in 1 .. Len(lines[n]) + 2
<1>1. /\ lines[n] \in Seq(Alphabet) /\ Whole(n) \in Seq(Bytes) /\ Len(Whole(n)) \in Nat \ {0}
      /\ \A p \in 1 .. Len(Whole(n)) : Whole(n)[p] = "LF" => p = Len(Whole(n))
  BY WholeIs
<1>2. /\ Coming \in Seq(Bytes) /\ Len(Coming) \in Nat /\ Buffer \in Seq(Bytes)
      /\ Len(Buffer) \in Nat /\ Len(Buffer) <= Len(Coming) /\ DOMAIN Buffer = 1 .. Len(Buffer)
      /\ \A p \in 1 .. Len(Buffer) : Buffer[p] = Coming[p]
      /\ Left = From(Coming, Len(Buffer) + 1)
  BY ReadBegins DEF Wire
<1>3. /\ Len(Coming) = Len(Whole(n)) - k + 1
      /\ \A p \in 1 .. Len(Whole(n)) - k + 1 : Coming[p] = Whole(n)[k + p - 1]
  BY <1>1, FromIs
<1>4. PICK p \in 1 .. Len(Buffer) : Buffer[p] = "LF"
  BY <1>2 DEF LineFeeds
<1>5. p \in 1 .. Len(Coming) /\ Coming[p] = "LF" /\ k + p - 1 \in 1 .. Len(Whole(n))
  BY <1>1, <1>2, <1>3, <1>4
<1>6. Whole(n)[k + p - 1] = "LF"
  BY <1>3, <1>5
<1>7. k + p - 1 = Len(Whole(n))
  BY <1>1, <1>5, <1>6
<1>8. Len(Buffer) = Len(Coming) /\ k \in 1 .. Len(Whole(n))
  BY <1>1, <1>2, <1>3, <1>4, <1>7
<1>9. Buffer = Coming
  BY <1>2, <1>8, SeqEqual
<1>10. Left = <<>>
  <2>1. From(Coming, Len(Coming) + 1) = <<>>
    BY <1>2, SubSeqEmpty DEF From
  <2> QED
    BY <1>2, <1>8, <2>1
<1>11. Cut(Buffer) = From(lines[n], k) /\ From(lines[n], k) \in Seq(Alphabet)
  <2>1. eol \in Eols
    BY DEF Wire
  <2> QED
    BY <1>1, <1>8, <1>9, <2>1, CutFrom DEF Whole
<1>12. k \in 1 .. Len(lines[n]) + 2
  <2>1. Len(Whole(n)) = Len(lines[n]) + Len(eol) /\ Len(eol) \in 1 .. 2 /\ Len(lines[n]) \in Nat
    BY <1>1, Ended DEF Whole, Wire
  <2>2. Len(Whole(n)) <= Len(lines[n]) + 2
    BY <2>1, PlusEol
  <2> QED
    BY <1>1, <1>8, <2>1, <2>2
<1> QED
  BY <1>10, <1>11, <1>12

\* There is no end of line in Ctrl+C.
LEMMA NoFeed ==
  ASSUME Wire, NEW k \in 1 .. 3, Coming = From(CtrlC, k)
  PROVE  LineFeeds(Buffer) = {}
<1>1. /\ Len(Buffer) \in Nat /\ Len(Buffer) <= Len(Coming) /\ DOMAIN Buffer = 1 .. Len(Buffer)
      /\ \A p \in 1 .. Len(Buffer) : Buffer[p] = Coming[p]
  BY ReadBegins DEF Wire
<1>2. /\ Len(Coming) = 2 - k + 1
      /\ \A p \in 1 .. 2 - k + 1 : Coming[p] = CtrlC[k + p - 1]
  <2>1. CtrlC \in Seq(Bytes) /\ Len(CtrlC) = 2 /\ k \in 1 .. Len(CtrlC) + 1
    BY CtrlCIs
  <2>2. /\ Len(From(CtrlC, k)) = Len(CtrlC) - k + 1
        /\ \A p \in 1 .. Len(CtrlC) - k + 1 : From(CtrlC, k)[p] = CtrlC[k + p - 1]
    BY <2>1, FromIs, Zenon
  <2> QED
    BY <2>1, <2>2
<1>3. ASSUME NEW p \in DOMAIN Buffer, Buffer[p] = "LF" PROVE FALSE
  <2>1. p \in 1 .. 2 - k + 1 /\ k + p - 1 \in 1 .. 2
    BY <1>1, <1>2
  <2>2. Buffer[p] = CtrlC[k + p - 1]
    BY <1>1, <1>2, <2>1
  <2> QED
    BY <1>3, <2>1, <2>2, CtrlCIs
<1> QED
  BY <1>3 DEF LineFeeds

LEMMA FromOne ==
  ASSUME NEW S, NEW t \in Seq(S)
  PROVE  From(t, 1) = t /\ 1 \in 1 .. Len(t) + 1
<1>1. Len(t) \in Nat
  BY LenProperties
<1> QED
  BY <1>1, SubSeqFull DEF From

\* The first line that the server takes.
LEMMA TakesFirst ==
  ASSUME HInv, state = "READ_ID", LineFeeds(Buffer) # {}
  PROVE  /\ sent # 0
         /\ sent = 1 => Left = <<>> /\ Cut(Buffer) = lines[1]
         /\ sent = 2 => ~patient /\ \E t \in {CtrlC, Whole(2)} :
                                      \E k \in 1 .. Len(t) + 1 : Left = From(t, k)
<1> USE DEF HInv
<1>0. Everything /\ Wire
  BY DEF Stream
<1>1. /\ Len(Buffer) \in Nat /\ Len(Buffer) <= Len(Coming) /\ DOMAIN Buffer = 1 .. Len(Buffer)
      /\ \A p \in 1 .. Len(Buffer) : Buffer[p] = Coming[p]
      /\ Left = From(Coming, Len(Buffer) + 1)
  BY ReadBegins DEF Wire
<1>2. PICK p \in 1 .. Len(Buffer) : Buffer[p] = "LF"
  BY <1>1 DEF LineFeeds
<1>3. sent # 0
  <2> SUFFICES ASSUME sent = 0 PROVE FALSE
    OBVIOUS
  <2>1. Len(Coming) = 0
    BY <1>0 DEF Everything
  <2> QED
    BY <1>1, <1>2, <2>1
<1>4. ASSUME sent = 1 PROVE Left = <<>> /\ Cut(Buffer) = lines[1]
  <2>1. Whole(1) \in Seq(Bytes) /\ lines[1] \in Seq(Alphabet)
    BY <1>0, WholeIs
  <2>2. Coming = From(Whole(1), 1) /\ 1 \in 1 .. Len(Whole(1)) + 1
    BY <1>0, <1>4, <2>1, FromOne DEF Everything
  <2>3. Left = <<>> /\ Cut(Buffer) = From(lines[1], 1)
    BY <1>0, <2>2, ReadsAll
  <2> QED
    BY <2>1, <2>3, FromOne
<1>5. ASSUME sent = 2
      PROVE  ~patient /\ \E t \in {CtrlC, Whole(2)} : \E k \in 1 .. Len(t) + 1 : Left = From(t, k)
  <2>1. Coming # CtrlC
    <3> SUFFICES ASSUME Coming = CtrlC PROVE FALSE
      OBVIOUS
    <3>1. Coming = From(CtrlC, 1) /\ 1 \in 1 .. 3
      BY CtrlCIs, FromOne
    <3> QED
      BY <1>0, <3>1, NoFeed
  <2>2. PICK t \in {CtrlC, Whole(2)} : Coming = Whole(1) \o t
    BY <1>0, <1>5, <2>1 DEF Everything
  <2>3. t \in Seq(Bytes) /\ Whole(1) \in Seq(Bytes)
    BY <1>0, <2>2, CtrlCIs, WholeIs
  <2> DEFINE W == Len(Whole(1))  n == Len(Buffer)
  <2>4. /\ W \in Nat \ {0} /\ Whole(1)[W] = "LF"
        /\ \A q \in 1 .. W : Whole(1)[q] = "LF" => q = W
    BY <1>0, WholeIs
  <2>5. /\ Len(t) \in Nat /\ Coming \in Seq(Bytes) /\ Len(Coming) = W + Len(t)
        /\ \A q \in 1 .. W + Len(t) :
             Coming[q] = IF q <= W THEN Whole(1)[q] ELSE t[q - W]
    BY <2>2, <2>3, LenProperties, ConcatProperties
  <2> HIDE DEF W, n
  <2>6. n \in Nat /\ n >= W /\ n <= W + Len(t)
    <3>1. n \in Nat /\ n <= W + Len(t) /\ p \in 1 .. n
      BY <1>1, <2>5 DEF n
    <3>2. Coming[p] = "LF" /\ p \in 1 .. W + Len(t)
      BY <1>1, <1>2, <2>4, <2>5, <3>1 DEF n
    <3>3. p <= W => p = W
      BY <2>4, <2>5, <3>1, <3>2
    <3> QED
      BY <2>4, <3>1, <3>3
  <2> DEFINE k == n - W + 1
  <2>7. k \in 1 .. Len(t) + 1
    BY <2>4, <2>5, <2>6
  <2>8. From(Coming, n + 1) = From(t, k)
    <3>1. n + 1 \in 1 .. Len(Coming) + 1
      BY <2>4, <2>5, <2>6
    <3>2. /\ From(Coming, n + 1) \in Seq(Bytes)
          /\ Len(From(Coming, n + 1)) = Len(Coming) - (n + 1) + 1
          /\ \A q \in 1 .. Len(Coming) - (n + 1) + 1 :
               From(Coming, n + 1)[q] = Coming[(n + 1) + q - 1]
      BY <2>5, <3>1, FromIs
    <3>3. /\ From(t, k) \in Seq(Bytes) /\ Len(From(t, k)) = Len(t) - k + 1
          /\ \A q \in 1 .. Len(t) - k + 1 : From(t, k)[q] = t[k + q - 1]
      BY <2>3, <2>7, FromIs
    <3>4. Len(Coming) - (n + 1) + 1 = Len(t) - k + 1
      BY <2>4, <2>5, <2>6
    <3>5. ASSUME NEW q \in 1 .. Len(t) - k + 1
          PROVE  From(Coming, n + 1)[q] = From(t, k)[q]
      <4>1. /\ (n + 1) + q - 1 \in 1 .. W + Len(t) /\ ~((n + 1) + q - 1 <= W)
            /\ ((n + 1) + q - 1) - W = k + q - 1
        BY <2>4, <2>5, <2>6
      <4>2. Coming[(n + 1) + q - 1] = t[k + q - 1]
        BY <2>5, <4>1
      <4> QED
        BY <3>2, <3>3, <3>4, <4>2
    <3> QED
      BY <3>2, <3>3, <3>4, <3>5, SeqEqual
  <2> HIDE DEF k
  <2>9. ~patient
    BY <1>0, <1>5, <2>1 DEF Everything
  <2> QED
    BY <1>1, <2>2, <2>7, <2>8, <2>9 DEF n
<1> QED
  BY <1>3, <1>4, <1>5

\* The second one: of a client that waits, it is the whole command.
LEMMA TakesSecond ==
  ASSUME HInv, state = "READ_OPR", result = "idle", LineFeeds(Buffer) # {}
  PROVE  /\ sent = 2 /\ Cut(Buffer) \in Seq(Alphabet)
         /\ patient => Cut(Buffer) = lines[2]
<1>0. Remainder /\ Wire
  BY DEF HInv, Stream
<1>1. sent = 2
  <2>1. sent \in {1, 2}
    BY <1>0 DEF Remainder, Wire
  <2> SUFFICES ASSUME sent = 1 PROVE FALSE
    BY <2>1
  <2>2. Len(Coming) = 0
    BY <1>0 DEF Remainder
  <2>3. Len(Buffer) \in Nat /\ Len(Buffer) <= 0 /\ DOMAIN Buffer = 1 .. Len(Buffer)
    BY <1>0, <2>2, ReadBegins DEF Wire
  <2> QED
    BY <2>3 DEF LineFeeds
<1>2. PICK t \in {CtrlC, Whole(2)} :
        \E k \in 1 .. Len(t) + 1 : Coming = From(t, k) /\ (patient => k = 1)
  BY <1>0, <1>1 DEF Remainder
<1>3. PICK k \in 1 .. Len(t) + 1 : Coming = From(t, k) /\ (patient => k = 1)
  BY <1>2
<1>4. t = Whole(2)
  <2> SUFFICES ASSUME t = CtrlC PROVE FALSE
    BY <1>2
  <2>1. Coming = From(CtrlC, k) /\ k \in 1 .. 3
    BY <1>3, CtrlCIs
  <2> QED
    BY <1>0, <2>1, NoFeed
<1>5. /\ Cut(Buffer) = From(lines[2], k) /\ Cut(Buffer) \in Seq(Alphabet)
      /\ k \in 1 .. Len(lines[2]) + 2
  <2>1. Coming = From(Whole(2), k) /\ k \in 1 .. Len(Whole(2)) + 1
    BY <1>3, <1>4
  <2> QED
    BY <1>0, <2>1, ReadsAll
<1>6. lines[2] \in Seq(Alphabet)
  BY <1>0, WholeIs DEF Wire
<1>7. patient => Cut(Buffer) = lines[2]
  BY <1>3, <1>5, <1>6, FromOne
<1> QED
  BY <1>1, <1>5, <1>7

-----------------------------------------------------------------------------
(* The invariant holds after every step.                                   *)

LEMMA ParsedSame == Parsed /\ UNCHANGED parser => Parsed'
  BY DEF Parsed, ScanTypes, Scanned, CommandRight, parser

LEMMA WireSame == Wire /\ UNCHANGED <<client, flight, socket, state>> => Wire'
  BY DEF Wire, client

LEMMA StreamSame ==
  Stream /\ UNCHANGED <<client, flight, socket, state, result>> => Stream'
<1> SUFFICES ASSUME Stream, UNCHANGED <<client, flight, socket, state, result>> PROVE Stream'
  OBVIOUS
<1>1. UNCHANGED <<patient, lines, sent, eol, state, result>>
  BY DEF client
<1>2. Coming' = Coming /\ Whole(1)' = Whole(1) /\ Whole(2)' = Whole(2)
  BY <1>1 DEF Coming, Whole
<1>3. (Everything => Everything') /\ (Remainder => Remainder')
  BY <1>1, <1>2 DEF Everything, Remainder
<1> QED
  BY <1>1, <1>3 DEF Stream

LEMMA Sequel ==
  ASSUME NEW t \in Seq(Bytes), socket \in Seq(Bytes), flight \in Seq(Bytes),
         socket' = socket, flight' = flight \o t
  PROVE  flight' \in Seq(Bytes) /\ Coming' = Coming \o t
<1>1. flight' \in Seq(Bytes)
  BY ConcatProperties
<1>2. (socket \o flight) \o t = socket \o (flight \o t)
  BY ConcatAssociative
<1> QED
  BY <1>1, <1>2 DEF Coming

\* What the client writes comes after what it has written.
LEMMA WriteInv ==
  ASSUME HInv, MayWrite, NEW m \in 1 .. 2, NEW t,
         (m = sent + 1 /\ t = Whole(m)) \/ (m = 2 /\ t = CtrlC),
         sent' = m, flight' = flight \o t,
         UNCHANGED <<patient, lines, eol, hungup, socket, state, parser>>
  PROVE  HInv'
<1>0. Wire /\ Stream /\ Parsed
  BY DEF HInv
<1>1. sent \in {0, 1} /\ (patient /\ sent = 1 => state = "READ_OPR")
  BY <1>0 DEF MayWrite, Wire
<1>2. t \in Seq(Bytes)
  BY <1>0, CtrlCIs, WholeIs
<1>3. flight' \in Seq(Bytes) /\ Coming' = Coming \o t
  BY <1>0, <1>2, Sequel DEF Wire
<1>4. Whole(1)' = Whole(1) /\ Whole(2)' = Whole(2)
  BY DEF Whole
<1>5. Wire'
  BY <1>0, <1>3 DEF Wire
<1>6. Coming = <<>> => Coming' = t
  BY <1>2, <1>3, ConcatEmptySeq
<1>7. ASSUME state = "READ_ID" PROVE Everything'
  <2>1. Everything
    BY <1>0, <1>7 DEF Stream
  <2>2. CASE sent = 0
    <3>1. Coming' = t
      BY <1>6, <2>1, <2>2 DEF Everything
    <3> QED
      BY <1>4, <2>2, <3>1 DEF Everything
  <2>3. CASE sent = 1
    <3>1. ~patient' /\ m = 2 /\ t \in {CtrlC, Whole(2)}
      BY <1>1, <1>7, <2>3
    <3>2. Coming' = Whole(1) \o t
      BY <1>3, <2>1, <2>3 DEF Everything
    <3>3. \E u \in {CtrlC, Whole(2)'} : Coming' = Whole(1)' \o u
      BY <1>4, <3>1, <3>2
    <3>4. ~(sent' = 0) /\ ~(sent' = 1)
      BY <3>1
    <3> QED
      BY <3>1, <3>3, <3>4, Zenon DEF Everything
  <2> QED
    BY <1>1, <2>2, <2>3
<1>8. ASSUME state = "READ_OPR", result = "idle" PROVE Remainder'
  <2>1. sent = 1 /\ Coming = <<>>
    BY <1>0, <1>1, <1>8 DEF Stream, Remainder
  <2>2. m = 2 /\ t \in {CtrlC, Whole(2)}
    BY <2>1
  <2>3. Coming' = From(t, 1) /\ 1 \in 1 .. Len(t) + 1
    BY <1>2, <1>6, <2>1, FromOne
  <2> QED
    BY <1>4, <2>2, <2>3 DEF Remainder
<1>9. Stream'
  <2>1. state' = state /\ result' = result
    BY DEF parser
  <2> QED
    BY <1>0, <1>7, <1>8, <2>1 DEF Stream
<1>10. Parsed'
  BY <1>0, ParsedSame
<1> QED
  BY <1>5, <1>9, <1>10 DEF HInv

LEMMA SendInv == HInv /\ SendLine => HInv'
<1> SUFFICES ASSUME HInv, SendLine PROVE HInv'
  OBVIOUS
<1>0. Wire
  BY DEF HInv
<1> DEFINE m == sent + 1
<1>1. m \in 1 .. 2 /\ MayWrite /\ sent' = m
  BY <1>0 DEF SendLine, MayWrite, Wire
<1>2. m = sent + 1
  OBVIOUS
<1> HIDE DEF m
<1>3. flight' = flight \o Whole(m)
  <2>1. eol \in Seq(Bytes)
    <3>1. "LF" \in Bytes /\ "CR" \in Bytes
      BY DEF Bytes
    <3>2. CASE eol = <<"LF">>
      BY <3>1, <3>2
    <3>3. CASE eol = <<"CR", "LF">>
      BY <3>1, <3>3
    <3> QED
      BY <1>0, <3>2, <3>3 DEF Wire, Eols
  <2>2. lines[m] \in Seq(Bytes)
    <3>1. Alphabet \subseteq Bytes
      BY DEF Bytes
    <3>2. lines[m] \in Seq(Alphabet)
      BY <1>0, <1>1, WholeIs
    <3> QED
      BY <3>1, <3>2, SeqMonotonic
  <2>3. (flight \o lines[m]) \o eol = flight \o (lines[m] \o eol)
    <3>1. flight \in Seq(Bytes)
      BY <1>0 DEF Wire
    <3>2. \A a, b, c \in Seq(Bytes) : (a \o b) \o c = a \o (b \o c)
      BY ConcatAssociative
    <3> QED
      BY <2>1, <2>2, <3>1, <3>2, Zenon
  <2>4. flight' = flight \o lines[m] \o eol
    BY <1>1 DEF SendLine
  <2> QED
    BY <2>3, <2>4 DEF Whole
<1>4. UNCHANGED <<patient, lines, eol, hungup, socket, state, parser>>
  BY DEF SendLine
<1>5. (m = sent + 1 /\ Whole(m) = Whole(m)) \/ (m = 2 /\ Whole(m) = CtrlC)
  BY <1>2
<1> QED
  BY <1>1, <1>3, <1>4, <1>5, WriteInv

LEMMA InterruptInv == HInv /\ Interrupt => HInv'
<1> SUFFICES ASSUME HInv, Interrupt PROVE HInv'
  OBVIOUS
<1>1. /\ MayWrite /\ sent' = 2 /\ flight' = flight \o CtrlC
      /\ UNCHANGED <<patient, lines, eol, hungup, socket, state, parser>>
  BY DEF Interrupt
<1>2. 2 \in 1 .. 2 /\ (2 = 2 /\ CtrlC = CtrlC)
  OBVIOUS
<1> QED
  BY <1>1, <1>2, WriteInv

LEMMA DeliverInv == HInv /\ Deliver => HInv'
<1> SUFFICES ASSUME HInv, Deliver PROVE HInv'
  OBVIOUS
<1>0. Wire /\ Stream /\ Parsed
  BY DEF HInv
<1>1. PICK n \in 1 .. Len(flight) : /\ socket' = socket \o SubSeq(flight, 1, n)
                                    /\ flight' = SubSeq(flight, n + 1, Len(flight))
  BY DEF Deliver
<1>2. UNCHANGED <<client, state, parser>>
  BY DEF Deliver
<1> DEFINE a == SubSeq(flight, 1, n)  b == SubSeq(flight, n + 1, Len(flight))
<1>3. a \in Seq(Bytes) /\ b \in Seq(Bytes) /\ a \o b = flight
  <2>1. flight \in Seq(Bytes) /\ Len(flight) \in Nat
    BY <1>0, LenProperties DEF Wire
  <2>2. n \in Nat \ {0} /\ n <= Len(flight)
    BY <2>1
  <2>3. /\ 1 \in 1 .. Len(flight) + 1 /\ n \in 1 - 1 .. Len(flight)
        /\ Len(flight) \in n .. Len(flight)
    BY <2>1, <2>2
  <2>4. a \o b = SubSeq(flight, 1, Len(flight))
    BY <2>1, <2>3, ConcatAdjacentSubSeq
  <2>5. /\ \A p \in 1 .. n : flight[p] \in Bytes
        /\ \A p \in n + 1 .. Len(flight) : flight[p] \in Bytes
    BY <2>1, <2>2, ElementOfSeq
  <2>6. 1 \in Int /\ n \in Int /\ n + 1 \in Int /\ Len(flight) \in Int
    BY <2>1, <2>2
  <2>7. a \in Seq(Bytes) /\ b \in Seq(Bytes)
    BY <2>5, <2>6, SubSeqProperties
  <2> QED
    BY <2>1, <2>4, <2>7, SubSeqFull
<1>4. socket' = socket \o a /\ flight' = b
  BY <1>1
<1> HIDE DEF a, b
<1>5. socket' \in Seq(Bytes) /\ flight' \in Seq(Bytes) /\ Coming' = Coming
  <2>1. socket \in Seq(Bytes)
    BY <1>0 DEF Wire
  <2>2. socket \o a \in Seq(Bytes) /\ (socket \o a) \o b = socket \o (a \o b)
    <3>1. a \in Seq(Bytes) /\ b \in Seq(Bytes)
      BY <1>3
    <3> QED
      BY <2>1, <3>1, ConcatProperties, ConcatAssociative
  <2> QED
    BY <1>3, <1>4, <2>2 DEF Coming
<1>6. Wire'
  BY <1>0, <1>2, <1>5 DEF Wire, client
<1>7. Stream'
  BY <1>0, <1>2, <1>5 DEF Stream, Everything, Remainder, Whole, client, parser
<1> QED
  BY <1>0, <1>2, <1>6, <1>7, ParsedSame DEF HInv

\* The id leaves to the command what the invariant says of it.
LEMMA TakeInv == HInv /\ TakeLine => HInv'
<1> SUFFICES ASSUME HInv, TakeLine PROVE HInv'
  OBVIOUS
<1>0. Wire /\ Stream /\ Parsed
  BY DEF HInv
<1>1. /\ Readable /\ LineFeeds(Buffer) # {}
      /\ TakeId(Cut(Buffer)) \/ TakeCommand(Cut(Buffer))
      /\ socket' = SubSeq(socket, Len(Buffer) + 1, Len(socket))
      /\ UNCHANGED <<client, flight>>
  BY DEF TakeLine, Cut
<1>2. socket' \in Seq(Bytes) /\ Coming' = Left
  BY <1>0, <1>1, ReadBegins DEF Wire, Coming, Left
<1>3. CASE TakeId(Cut(Buffer))
  <2>1. /\ state = "READ_ID" /\ state' \in {"READ_OPR", "closed"}
        /\ UNCHANGED parser /\ result' = "idle"
    BY <1>1, <1>3 DEF TakeId, Readable, parser
  <2>2. Wire'
    BY <1>0, <1>1, <1>2, <2>1 DEF Wire, client
  <2>3. /\ sent # 0
        /\ sent = 1 => Left = <<>>
        /\ sent = 2 => ~patient /\ \E t \in {CtrlC, Whole(2)} :
                                     \E k \in 1 .. Len(t) + 1 : Left = From(t, k)
    BY <1>1, <2>1, TakesFirst
  <2>4. Remainder'
    BY <1>1, <1>2, <2>3 DEF Remainder, Whole, client
  <2>5. Stream'
    BY <2>1, <2>4 DEF Stream
  <2> QED
    BY <1>0, <2>1, <2>2, <2>5, ParsedSame DEF HInv
<1>4. CASE TakeCommand(Cut(Buffer))
  <2>1. /\ state = "READ_OPR" /\ state' = state /\ result = "idle" /\ result' = "start"
        /\ s' = Cut(Buffer) /\ i' = 1 /\ j' = 0 /\ chk' = FALSE
        /\ opr' = [n \in 0 .. 2 |-> 0]
    BY <1>1, <1>4 DEF TakeCommand, Readable
  <2>2. Wire'
    BY <1>0, <1>1, <1>2, <2>1 DEF Wire, client
  <2>3. Stream'
    BY <2>1 DEF Stream
  <2>4. s' \in Seq(Alphabet)
    BY <1>1, <2>1, TakesSecond
  <2>5. Len(s') \in Nat
    BY <2>4, LenProperties
  <2>6. opr' \in [0 .. 2 -> CInts]
    <3>1. 0 \in CInts
      BY LinesAssumption DEF CInts
    <3> QED
      BY <2>1, <3>1
  <2>7. i' \in 1 .. Len(s') + 1 /\ j' \in 0 .. i' - 1
    BY <2>1, <2>5
  <2>8. ScanTypes'
    BY <2>1, <2>4, <2>6, <2>7 DEF ScanTypes
  <2>9. CommandRight'
    BY <2>1 DEF CommandRight
  <2>10. Parsed'
    BY <2>1, <2>4, <2>8, <2>9 DEF Parsed
  <2> QED
    BY <2>2, <2>3, <2>10 DEF HInv
<1> QED
  BY <1>1, <1>3, <1>4

\* The scan does not go back to where a line is awaited, nor to its start.
LEMMA ScanGoesOn ==
  ASSUME Parsed, Next
  PROVE  result # "idle" /\ result' \in {"scan", "true", "false", "undefined"}
<1>1. CASE Begin
  BY <1>1 DEF Begin
<1>2. CASE Minus \/ Space \/ End
  BY <1>2 DEF Minus, Space, End, Char
<1>3. CASE \E c \in Alphabet : Digit(c) \/ Stray(c) \/ OtherChar(c)
  BY <1>3 DEF Digit, Stray, OtherChar, Char
<1> QED
  BY <1>1, <1>2, <1>3 DEF Next

LEMMA RestInv ==
  ASSUME HInv, HangUp \/ Disconnected \/ NoNewline \/ Scan \/ Answer \/ UNCHANGED hvars
  PROVE  HInv'
<1>0. Wire /\ Stream /\ Parsed
  BY DEF HInv
<1>1. CASE HangUp
  <2>1. Wire'
    BY <1>0, <1>1 DEF HangUp, Wire
  <2>2. UNCHANGED <<patient, lines, sent, eol, flight, socket, state>> /\ UNCHANGED parser
    BY <1>1 DEF HangUp
  <2>3. Coming' = Coming /\ Whole(1)' = Whole(1) /\ Whole(2)' = Whole(2) /\ result' = result
    BY <2>2 DEF Coming, Whole, parser
  <2>4. (Everything => Everything') /\ (Remainder => Remainder')
    BY <2>2, <2>3 DEF Everything, Remainder
  <2>5. Stream'
    BY <1>0, <2>2, <2>3, <2>4 DEF Stream
  <2> QED
    BY <1>0, <2>1, <2>2, <2>5, ParsedSame DEF HInv
<1>2. CASE Disconnected \/ NoNewline \/ Answer
  <2>1. /\ state' \in {"closed", "exit"}
        /\ UNCHANGED <<client, flight, socket>> /\ UNCHANGED parser
    BY <1>2 DEF Disconnected, NoNewline, Answer
  <2>2. Wire'
    BY <1>0, <2>1 DEF Wire, client
  <2>3. Stream'
    BY <2>1 DEF Stream
  <2> QED
    BY <1>0, <2>1, <2>2, <2>3, ParsedSame DEF HInv
<1>3. CASE Scan
  <2>1. Next /\ UNCHANGED <<client, flight, socket, state>>
    BY <1>3 DEF Scan
  <2>2. Wire'
    BY <1>0, <2>1, WireSame
  <2>3. result # "idle" /\ result' # "idle"
    BY <1>0, <2>1, ScanGoesOn
  <2>4. Stream'
    BY <1>0, <2>1, <2>3 DEF Stream
  <2> QED
    BY <1>0, <2>1, <2>2, <2>4, ScanNext DEF HInv
<1>4. CASE UNCHANGED hvars
  <2>1. UNCHANGED <<client, flight, socket, state>> /\ UNCHANGED parser
    BY <1>4 DEF hvars
  <2>2. UNCHANGED <<client, flight, socket, state, result>>
    BY <2>1 DEF parser
  <2> QED
    BY <1>0, <2>1, <2>2, WireSame, StreamSame, ParsedSame DEF HInv
<1> QED
  BY <1>1, <1>2, <1>3, <1>4

LEMMA HInvNext == HInv /\ [HNext]_hvars => HInv'
  BY SendInv, InterruptInv, DeliverInv, TakeInv, RestInv DEF HNext, HServer

LEMMA HInvInit == HInit => HInv
<1> SUFFICES ASSUME HInit PROVE HInv
  OBVIOUS
<1>1. PICK id \in Ids, line \in Lines : lines = <<id, line>>
  BY DEF HInit
<1>2. id \in Seq(Alphabet) /\ line \in Seq(Alphabet)
  BY BufAssumption, LinesAssumption
<1>3. lines \in Seq(Seq(Alphabet)) /\ lines[1] \in Ids /\ lines[2] \in Lines
  BY <1>1, <1>2
<1>4. <<>> \in Seq(Bytes) /\ <<>> \in Seq(Alphabet) /\ Len(<<>>) = 0
  BY EmptySeq
<1>5. Wire
  <2>1. /\ patient \in BOOLEAN /\ eol \in Eols /\ sent = 0 /\ hungup = FALSE
        /\ flight = <<>> /\ socket = <<>> /\ state = "READ_ID"
    BY DEF HInit
  <2>2. flight \in Seq(Bytes) /\ socket \in Seq(Bytes)
    BY <1>4, <2>1
  <2>3. sent \in 0 .. 2
    BY <2>1
  <2>4. hungup \in BOOLEAN
    BY <2>1, Zenon
  <2> QED
    BY <1>3, <2>1, <2>2, <2>3, <2>4 DEF Wire
<1>6. sent = 0 /\ Coming = <<>>
  BY <1>4, ConcatEmptySeq DEF HInit, Coming
<1>7. Everything
  BY <1>6 DEF Everything
<1>8. Stream
  BY <1>7 DEF HInit, Stream
<1>9. ScanTypes
  <2>1. 0 \in CInts
    BY LinesAssumption DEF CInts
  <2>2. opr \in [0 .. 2 -> CInts]
    BY <2>1 DEF HInit
  <2>3. s = <<>> /\ i = 1 /\ j = 0 /\ chk = FALSE /\ result = "idle"
    BY DEF HInit
  <2>4. s \in Seq(Alphabet) /\ Len(s) = 0
    BY <1>4, <2>3
  <2>5. i \in 1 .. Len(s) + 1 /\ j \in 0 .. i - 1
    BY <2>3, <2>4
  <2> QED
    BY <2>2, <2>3, <2>4, <2>5 DEF ScanTypes
<1>10. Parsed
  BY <1>9 DEF HInit, Parsed, CommandRight
<1> QED
  BY <1>5, <1>8, <1>10 DEF HInv

LEMMA HInvAlways == HSpec => []HInv
  BY HInvInit, HInvNext, PTL DEF HSpec

-----------------------------------------------------------------------------
(* The theorems.                                                           *)

\* Whatever is cut out of the stream, the scan of get3Num stays in its line and
\* the numbers in the range of int; it writes beyond opr[] only on a line with a
\* digit behind its third space, and accepts no such line.
THEOREM ScanInLine == HSpec => []HTypeOK
<1>1. HInv => HTypeOK
  <2> SUFFICES ASSUME HInv PROVE HTypeOK
    OBVIOUS
  <2>1. /\ Wire /\ ScanTypes
        /\ result = "undefined" => ~InBounds(s)
        /\ result = "true" => InBounds(s)
    BY DEF HInv, Parsed
  <2>2. s \in Seq(Bytes) /\ Len(s) \in Nat
    <3>1. Alphabet \subseteq Bytes
      BY DEF Bytes
    <3>2. s \in Seq(Alphabet)
      BY <2>1 DEF ScanTypes
    <3> QED
      BY <3>1, <3>2, SeqMonotonic, LenProperties
  <2>3. i \in 1 .. Len(s) + 1 /\ j \in 0 .. Len(s)
    BY <2>1, <2>2 DEF ScanTypes
  <2> QED
    BY <2>1, <2>2, <2>3 DEF Wire, ScanTypes, HTypeOK
<1> QED
  BY <1>1, HInvAlways, PTL

\* get3Num takes for a command what is one, and reads the numbers off it
\* digit for digit, modulo the range of int: for lines of any length.
THEOREM ScanRight == HSpec => []CommandRight
<1>1. HInv => CommandRight
  BY DEF HInv, Parsed
<1> QED
  BY <1>1, HInvAlways, PTL

\* What handle_read hands on of a client that waits for its prompts is the
\* line that it wrote, however the stream was cut in pieces.
THEOREM LinesWhole == HSpec => WholeLines
<1> DEFINE Whole1 ==
      state = "READ_ID" /\ state' = "READ_OPR" => lines[1] = Id
    Whole2 ==
      result # "start" /\ result' = "start" =>
        state = "READ_OPR" /\ result = "idle" /\ sent = 2 /\ s' = lines[2]
<1>1. ASSUME HInv, [HNext]_hvars, patient PROVE Whole1 /\ Whole2
  <2>1. CASE TakeLine
    <3>1. /\ Readable /\ LineFeeds(Buffer) # {}
          /\ TakeId(Cut(Buffer)) \/ TakeCommand(Cut(Buffer))
      BY <2>1 DEF TakeLine, Cut
    <3>2. CASE TakeId(Cut(Buffer))
      <4>1. /\ state = "READ_ID" /\ result' = result
            /\ state' = IF Cut(Buffer) = Id THEN "READ_OPR" ELSE "closed"
        BY <3>2 DEF TakeId, parser
      <4>2. sent \in 0 .. 2
        BY <1>1 DEF HInv, Wire
      <4>3. Cut(Buffer) = lines[1]
        BY <1>1, <3>1, <4>1, <4>2, TakesFirst
      <4> QED
        BY <4>1, <4>3
    <3>3. CASE TakeCommand(Cut(Buffer))
      <4>1. state = "READ_OPR" /\ state' = state /\ result = "idle" /\ s' = Cut(Buffer)
        BY <3>1, <3>3 DEF TakeCommand, Readable
      <4>2. sent = 2 /\ Cut(Buffer) = lines[2]
        BY <1>1, <3>1, <4>1, TakesSecond
      <4> QED
        BY <4>1, <4>2
    <3> QED
      BY <3>1, <3>2, <3>3
  <2>2. CASE Scan
    <3>1. result' # "start" /\ state' = state
      BY <1>1, <2>2, ScanGoesOn DEF Scan, HInv
    <3> QED
      BY <3>1
  <2>3. CASE Disconnected \/ NoNewline \/ Answer
    <3>1. state' \in {"closed", "exit"} /\ result' = result
      BY <2>3 DEF Disconnected, NoNewline, Answer, parser
    <3> QED
      BY <3>1
  <2>4. CASE SendLine \/ Interrupt \/ HangUp \/ Deliver \/ UNCHANGED hvars
    <3>1. state' = state /\ result' = result
      BY <2>4 DEF SendLine, Interrupt, HangUp, Deliver, parser, hvars
    <3> QED
      BY <3>1
  <2> QED
    BY <1>1, <2>1, <2>2, <2>3, <2>4 DEF HNext, HServer
<1>2. HInv /\ [HNext]_hvars => [patient => Whole1 /\ Whole2]_hvars
  BY <1>1
<1> QED
  BY <1>2, HInvAlways, PTL DEF HSpec, WholeLines

=============================================================================
