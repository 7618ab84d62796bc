--------------------------- MODULE BookingProofs ---------------------------
(***************************************************************************)
(* Proofs about Booking, for any number of servers, connections and users, *)
(* and about the sessions of one write_server as edits of Reservation.     *)
(***************************************************************************)
EXTENDS BookingRefinement, Numbers, FiniteSetTheorems

(***************************************************************************)
(* The types, with integer counts: that no count is negative depends on    *)
(* what is counted and is part of ReadCount.                               *)
(***************************************************************************)
Types ==
  /\ record   \in [Ids -> Bookings]
  /\ locks    \in [Servers -> [Ids -> LockTypes]]
  /\ pc       \in [Servers -> {"down", "select", "lock", "show", "commit",
                               "unlock"}]
  /\ conn_fd  \in [Servers -> Fds \cup {NoFd}]
  /\ clientID \in [Servers -> Ids]
  /\ curData  \in [Servers -> Bookings]
  /\ state    \in [Servers -> [Fds -> {"CLOSED", "READ_ID", "READ_OPR"}]]
  /\ id       \in [Servers -> [Fds -> Ids]]
  /\ vis      \in [WriteServers -> [Ids -> BOOLEAN]]
  /\ readCnt  \in [ReadServers -> [Ids -> Int]]
  /\ shown    \in [Servers -> [Fds -> Bookings]]
  /\ refused  \in SUBSET Ids

\* In the middle of a handler, conn_fd is a connection with a session on the
\* record clientID; only write_server commits.
Serving ==
  \A s \in Servers :
    /\ pc[s] \in {"lock", "show", "commit"} =>
         /\ conn_fd[s] \in Fds
         /\ state[s][conn_fd[s]] = "READ_OPR"
         /\ id[s][conn_fd[s]] = clientID[s]
    /\ pc[s] = "commit" => s \in WriteServers

\* A connection that has named no user stands at the first record.
Unnamed == \A s \in Servers, f \in Fds : state[s][f] # "READ_OPR" => id[s][f] = 0

\* The kernel grants only locks that agree, of the one kind a server asks for.
LockTable ==
  /\ \A s \in Servers, k \in Ids : locks[s][k] \in {"F_UNLCK", Kind(s)}
  /\ \A s, p \in Servers, k \in Ids :
       s # p => Compatible(locks[s][k], locks[p][k])

Shape == Types /\ Serving /\ Unnamed /\ LockTable

LEMMA ZeroFacts == ZeroBooking \in Bookings /\ 0 \in Ids
  BY RecordsAssumption DEF ZeroBooking, Bookings, Ids, Objects

LEMMA WrapInt == ASSUME NEW x \in Int PROVE Wrap(x) \in Int
  BY RecordsAssumption DEF Wrap

\* Changing one entry of a two-dimensional table.
LEMMA Entry ==
  ASSUME NEW A, NEW B, NEW C, NEW t \in [A -> [B -> C]],
         NEW a \in A, NEW b \in B, NEW c \in C
  PROVE  [t EXCEPT ![a][b] = c] \in [A -> [B -> C]]
  OBVIOUS

\* An unlock request is never blocked.
LEMMA UnlockGranted ==
  ASSUME NEW s, NEW k
  PROVE  ~Blocked(s, k, "F_UNLCK")
  BY DEF Blocked, Compatible

LEMMA ShapeInit == Init => Shape
<1> SUFFICES ASSUME Init PROVE Shape
  OBVIOUS
<1> USE ZeroFacts, RecordsAssumption DEF Init
<1>1. Types
  BY DEF Types, LockTypes, Servers
<1>2. Serving /\ Unnamed
  BY DEF Serving, Unnamed
<1>3. LockTable
  BY DEF LockTable, Compatible
<1> QED
  BY <1>1, <1>2, <1>3 DEF Shape

\* What SetLock does to the lock table.
LEMMA SetLockTable ==
  ASSUME Types, LockTable, NEW s \in Servers, NEW k \in Ids,
         NEW t \in {"F_UNLCK", Kind(s)}, SetLock(s, k, t)
  PROVE  /\ locks' \in [Servers -> [Ids -> LockTypes]]
         /\ LockTable'
<1>1. t \in LockTypes
  BY DEF Kind, LockTypes
<1>2. CASE Blocked(s, k, t)
  BY <1>2 DEF SetLock, Types, LockTable
<1>3. CASE ~Blocked(s, k, t)
  <2>1. locks' = [locks EXCEPT ![s][k] = t]
    BY <1>3 DEF SetLock
  <2>2. locks' \in [Servers -> [Ids -> LockTypes]]
    BY <2>1, <1>1 DEF Types
  <2>3. \A p \in Servers, j \in Ids :
          locks'[p][j] = IF p = s /\ j = k THEN t ELSE locks[p][j]
    BY <2>1 DEF Types
  <2>4. \A p \in Servers \ {s} : Compatible(t, locks[p][k])
    BY <1>3 DEF Blocked
  <2>5. \A p \in Servers, j \in Ids : locks'[p][j] \in {"F_UNLCK", Kind(p)}
    BY <2>3 DEF LockTable
  <2>6. \A p, q \in Servers, j \in Ids :
          p # q => Compatible(locks'[p][j], locks'[q][j])
    BY <2>3, <2>4 DEF LockTable, Compatible
  <2> QED
    BY <2>2, <2>5, <2>6 DEF LockTable
<1> QED
  BY <1>2, <1>3

\* The record a session ends on: its lock may go, nothing else.
LEMMA EndSteps ==
  ASSUME Types, LockTable, NEW s \in Servers, NEW k \in Ids,
         \/ s \in ReadServers /\ EndReading(s, k)
         \/ s \in WriteServers /\ EndWriting(s, k)
  PROVE  /\ locks' \in [Servers -> [Ids -> LockTypes]]
         /\ LockTable'
         /\ vis' \in [WriteServers -> [Ids -> BOOLEAN]]
         /\ readCnt' \in [ReadServers -> [Ids -> Int]]
<1>1. vis' \in [WriteServers -> [Ids -> BOOLEAN]]
  <2>1. CASE s \in ReadServers /\ EndReading(s, k)
    BY <2>1 DEF Types, EndReading
  <2>2. CASE s \in WriteServers /\ EndWriting(s, k)
    <3>1. vis \in [WriteServers -> [Ids -> BOOLEAN]] /\ FALSE \in BOOLEAN
      BY DEF Types
    <3>2. vis' = [vis EXCEPT ![s][k] = FALSE]
      BY <2>2 DEF EndWriting
    <3> QED
      BY <2>2, <3>1, <3>2, Entry, Zenon
  <2> QED
    BY <2>1, <2>2
<1>2. readCnt' \in [ReadServers -> [Ids -> Int]]
  <2>1. CASE s \in ReadServers /\ EndReading(s, k)
    BY <2>1 DEF Types, EndReading
  <2>2. CASE s \in WriteServers /\ EndWriting(s, k)
    BY <2>2 DEF Types, EndWriting
  <2> QED
    BY <2>1, <2>2
<1>3. CASE UNCHANGED locks
  BY <1>1, <1>2, <1>3 DEF Types, LockTable
<1>4. CASE SetLock(s, k, "F_UNLCK")
  BY <1>1, <1>2, <1>4, SetLockTable
<1> QED
  BY <1>3, <1>4 DEF EndReading, EndWriting

LEMMA ShapeNext == Shape /\ [Next]_vars => Shape'
<1> SUFFICES ASSUME Shape, [Next]_vars PROVE Shape'
  OBVIOUS
<1> USE ZeroFacts, RecordsAssumption, ServersAssumption
<1>. USE DEF Shape
<1>0. ASSUME NEW s \in Servers, Exit(s) PROVE Shape'
  <2>1. Types'
    BY <1>0 DEF Exit, Types, LockTypes
  <2>2. Serving' /\ Unnamed'
    BY <1>0 DEF Exit, Types, Serving, Unnamed
  <2>3. LockTable'
    BY <1>0 DEF Exit, Types, LockTable, Compatible
  <2> QED
    BY <2>1, <2>2, <2>3
<1>1. ASSUME NEW s \in Servers, Start(s) PROVE Shape'
  BY <1>1 DEF Start, Types, Serving, Unnamed, LockTable
<1>2. ASSUME NEW s \in Servers, TakeLock(s) PROVE Shape'
  <2>1. /\ locks' \in [Servers -> [Ids -> LockTypes]]
        /\ LockTable'
    BY <1>2, SetLockTable DEF TakeLock, Types
  <2>2. vis' \in [WriteServers -> [Ids -> BOOLEAN]]
    <3>1. vis \in [WriteServers -> [Ids -> BOOLEAN]] /\ TRUE \in BOOLEAN
      BY DEF Types
    <3>2. clientID[s] \in Ids
      BY DEF Types
    <3>3. CASE s \in ReadServers
      BY <1>2, <3>1, <3>3 DEF TakeLock
    <3>4. CASE s \in WriteServers
      <4>1. s \notin ReadServers
        BY <3>4
      <4>2. vis' = [vis EXCEPT ![s][clientID[s]] = TRUE]
        BY <1>2, <4>1 DEF TakeLock
      <4> QED
        BY <3>1, <3>2, <3>4, <4>2, Entry, Zenon
    <3> QED
      BY <3>3, <3>4 DEF Servers
  <2>3. readCnt' \in [ReadServers -> [Ids -> Int]]
    <3>1. CASE s \in ReadServers
      <4>1. readCnt' = [readCnt EXCEPT ![s][clientID[s]] = @ + 1]
        BY <1>2, <3>1 DEF TakeLock
      <4>2. readCnt[s][clientID[s]] + 1 \in Int /\ clientID[s] \in Ids
        BY <3>1 DEF Types
      <4> QED
        BY <3>1, <4>1, <4>2, Entry DEF Types
    <3>2. CASE s \notin ReadServers
      BY <1>2, <3>2 DEF TakeLock, Types
    <3> QED
      BY <3>1, <3>2
  <2>4. Types'
    BY <1>2, <2>1, <2>2, <2>3 DEF TakeLock, Types
  <2>5. Serving' /\ Unnamed'
    BY <1>2 DEF TakeLock, Types, Serving, Unnamed
  <2> QED
    BY <2>1, <2>4, <2>5
<1>3. ASSUME NEW s \in Servers, Show(s) PROVE Shape'
  BY <1>3 DEF Show, Return, Types, Serving, Unnamed, LockTable
<1>4. ASSUME NEW s \in Servers, Commit(s) PROVE Shape'
  BY <1>4 DEF Commit, CloseThenUnlock, ReqClose, Types, Serving, Unnamed,
             LockTable
<1>5. ASSUME NEW s \in Servers, Unlock(s) PROVE Shape'
  <2>1. /\ locks' \in [Servers -> [Ids -> LockTypes]]
        /\ LockTable'
        /\ vis' \in [WriteServers -> [Ids -> BOOLEAN]]
        /\ readCnt' \in [ReadServers -> [Ids -> Int]]
    BY <1>5, EndSteps DEF Unlock, Types, Servers
  <2>2. Return(s) /\ UNCHANGED <<record, state, id, shown, refused>>
    BY <1>5 DEF Unlock
  <2>3. Types' /\ Serving' /\ Unnamed'
    BY <2>1, <2>2 DEF Return, Types, Serving, Unnamed
  <2> QED
    BY <2>1, <2>3
<1>6. ASSUME NEW s \in Servers, NEW f \in Fds, Handle(s, f) PROVE Shape'
  <2>1. CASE Accept(s, f)
    BY <2>1 DEF Accept, Types, Serving, Unnamed, LockTable
  <2>2. CASE ReadServerEOF(s, f) \/ WriteServerEOF(s, f)
    <3>1. /\ locks' \in [Servers -> [Ids -> LockTypes]]
          /\ LockTable'
          /\ vis' \in [WriteServers -> [Ids -> BOOLEAN]]
          /\ readCnt' \in [ReadServers -> [Ids -> Int]]
      BY <2>2, EndSteps DEF ReadServerEOF, WriteServerEOF, Types, LockTable
    <3>2. /\ ReqClose(s, f) /\ pc[s] = "select"
          /\ UNCHANGED <<record, pc, conn_fd, clientID, curData, refused>>
      BY <2>2 DEF ReadServerEOF, WriteServerEOF, Readable
    <3>3. Types' /\ Unnamed'
      BY <3>1, <3>2 DEF ReqClose, Types, Unnamed
    <3>4. Serving'
      BY <3>2 DEF ReqClose, Types, Serving
    <3> QED
      BY <3>1, <3>3, <3>4
  <2>3. ASSUME BadId(s, f) \/ \E k \in Ids : IdLocked(s, f, k)
        PROVE  Shape'
    <3>1. ReqClose(s, f) /\ pc[s] = "select"
      BY <2>3 DEF BadId, IdLocked, Readable
    <3>2. UNCHANGED <<record, locks, pc, conn_fd, clientID, curData, vis,
                      readCnt, refused>>
      BY <2>3 DEF BadId, IdLocked
    <3>3. Types' /\ Unnamed'
      BY <3>1, <3>2 DEF ReqClose, Types, Unnamed
    <3>4. Serving'
      BY <3>1, <3>2 DEF ReqClose, Types, Serving
    <3> QED
      BY <3>2, <3>3, <3>4 DEF LockTable
  <2>4. ASSUME NEW k \in Ids, IdFree(s, f, k) PROVE Shape'
    BY <2>4 DEF IdFree, Readable, Types, Serving, Unnamed, LockTable
  <2>5. ASSUME ExitLine(s, f) \/ BadCommand(s, f) PROVE Shape'
    <3>1. CloseThenUnlock(s, f) /\ pc[s] = "select"
      BY <2>5 DEF ExitLine, BadCommand, InSession, Readable
    <3>2. UNCHANGED <<record, locks, vis, readCnt, refused>>
      BY <2>5 DEF ExitLine, BadCommand
    <3>3. Types' /\ Unnamed'
      BY <3>1, <3>2 DEF CloseThenUnlock, ReqClose, Types, Unnamed
    <3>4. Serving'
      BY <3>1, <3>2 DEF CloseThenUnlock, ReqClose, Types, Serving
    <3> QED
      BY <3>2, <3>3, <3>4 DEF LockTable
  <2>6. ASSUME NEW opr \in Commands, Command(s, f, opr) PROVE Shape'
    <3>1. curData' \in [Servers -> Bookings]
      BY <2>6, WrapInt DEF Command, Types, Bookings, Objects
    <3> QED
      BY <2>6, <3>1 DEF Command, InSession, Readable, Types, Serving, Unnamed,
                        LockTable
  <2> QED
    BY <1>0, <1>6, <2>1, <2>2, <2>3, <2>4, <2>5, <2>6
       DEF Handle, ReadFails, PartialLine
<1>7. CASE UNCHANGED vars
  BY <1>7 DEF vars, Types, Serving, Unnamed, LockTable
<1> QED
  BY <1>0, <1>1, <1>2, <1>3, <1>4, <1>5, <1>6, <1>7
     DEF Next, Step, Kill, AcceptFull

LEMMA ShapeAlways == Spec => []Shape
  BY ShapeInit, ShapeNext, PTL DEF Spec

-----------------------------------------------------------------------------
(***************************************************************************)
(* The inductive invariant.  Each conjunct but the last speaks of a single *)
(* server, so a step of one server leaves it alone for all the others.     *)
(***************************************************************************)

\* ReadCount and NothingLeaked, for one server.
Counts(s) ==
  s \in ReadServers =>
    \A k \in Ids : readCnt[s][k] = Cardinality(Sessions(s, k))
                                    + (IF Releasing(s, k) THEN 1 ELSE 0)

Leaks(s) ==
  \A k \in Ids :
    (locks[s][k] # "F_UNLCK" \/ (s \in WriteServers /\ vis[s][k]))
      => Sessions(s, k) # {} \/ Releasing(s, k)

\* vis reserves a record, from before the lock call until after the unlock
\* call, for a single session: the claim a handler is about to make is free.
Claims(s) ==
  s \in WriteServers =>
    /\ pc[s] = "lock" => ~vis[s][clientID[s]]
    /\ \A k \in Ids \ {0} :
         /\ Sessions(s, k) # {} => vis[s][k]
         /\ Releasing(s, k) => Sessions(s, k) = {}
         /\ \A f, g \in Sessions(s, k) : f = g

\* A session holds the file lock it asked for, unless it was refused.
Held(s) ==
  \A k \in Ids \ (refused \cup {0}) :
    Sessions(s, k) # {} => locks[s][k] = Kind(s)

ServerInv(s) == Counts(s) /\ Leaks(s) /\ Claims(s) /\ Held(s)

IInv == Shape /\ (\A s \in Servers : ServerInv(s)) /\ ShownStaysTrue

-----------------------------------------------------------------------------
(* A step of one server leaves the others alone.                           *)

Untouched(p) ==
  /\ pc'[p] = pc[p] /\ conn_fd'[p] = conn_fd[p] /\ clientID'[p] = clientID[p]
  /\ state'[p] = state[p] /\ id'[p] = id[p] /\ shown'[p] = shown[p]
  /\ locks'[p] = locks[p]
  /\ p \in WriteServers => vis'[p] = vis[p]
  /\ p \in ReadServers => readCnt'[p] = readCnt[p]

LEMMA LockOfOne ==
  ASSUME Types, NEW s \in Servers, NEW p \in Servers \ {s}, NEW k, NEW t,
         SetLock(s, k, t)
  PROVE  locks'[p] = locks[p]
  BY DEF SetLock, Types

LEMMA EndOfOne ==
  ASSUME Types, NEW s \in Servers, NEW p \in Servers \ {s}, NEW k,
         EndReading(s, k) \/ EndWriting(s, k)
  PROVE  /\ locks'[p] = locks[p]
         /\ p \in WriteServers => vis'[p] = vis[p]
         /\ p \in ReadServers => readCnt'[p] = readCnt[p]
<1>1. locks'[p] = locks[p]
  BY LockOfOne DEF EndReading, EndWriting
<1>2. p \in WriteServers => vis'[p] = vis[p]
  BY DEF EndReading, EndWriting, Types
<1>3. p \in ReadServers => readCnt'[p] = readCnt[p]
  BY DEF EndReading, EndWriting, Types
<1> QED
  BY <1>1, <1>2, <1>3

LEMMA Frame ==
  ASSUME Shape, NEW s \in Servers, Step(s), NEW p \in Servers \ {s}
  PROVE  Untouched(p) /\ refused \subseteq refused'
<1> USE DEF Untouched, Shape, Types
<1>0. ASSUME Exit(s) PROVE Untouched(p) /\ refused \subseteq refused'
  BY <1>0 DEF Exit, Servers
<1>1. CASE Start(s) \/ Show(s) \/ Commit(s)
  BY <1>1 DEF Start, Show, Return, Commit, CloseThenUnlock, ReqClose
<1>2. CASE TakeLock(s)
  BY <1>2, LockOfOne DEF TakeLock
<1>3. CASE Unlock(s)
  BY <1>3, EndOfOne DEF Unlock, Return
<1>4. ASSUME NEW f \in Fds, Handle(s, f)
      PROVE  Untouched(p) /\ refused \subseteq refused'
  <2>1. CASE Accept(s, f) \/ BadId(s, f) \/ \E k \in Ids : IdLocked(s, f, k)
    BY <2>1 DEF Accept, BadId, IdLocked, ReqClose
  <2>2. CASE ReadServerEOF(s, f) \/ WriteServerEOF(s, f)
    BY <2>2, EndOfOne DEF ReadServerEOF, WriteServerEOF, ReqClose
  <2>3. CASE \E k \in Ids : IdFree(s, f, k)
    BY <2>3 DEF IdFree
  <2>4. CASE ExitLine(s, f) \/ BadCommand(s, f)
    BY <2>4 DEF ExitLine, BadCommand, CloseThenUnlock, ReqClose
  <2>5. CASE \E opr \in Commands : Command(s, f, opr)
    BY <2>5 DEF Command
  <2> QED
    BY <1>0, <1>4, <2>1, <2>2, <2>3, <2>4, <2>5
       DEF Handle, ReadFails, PartialLine
<1> QED
  BY <1>0, <1>1, <1>2, <1>3, <1>4 DEF Step, Kill, AcceptFull

LEMMA UntouchedInv ==
  ASSUME NEW p \in Servers, ServerInv(p), Untouched(p), refused \subseteq refused'
  PROVE  /\ ServerInv(p)'
         /\ \A k \in Ids : Informed(p, k)' = Informed(p, k)
<1>1. \A k \in Ids : /\ Sessions(p, k)' = Sessions(p, k)
                     /\ Releasing(p, k)' = Releasing(p, k)
  BY DEF Untouched, Sessions, Releasing
<1>2. \A k \in Ids : Informed(p, k)' = Informed(p, k)
  BY <1>1 DEF Untouched, Informed
<1>3. Counts(p)'
  BY <1>1 DEF Untouched, ServerInv, Counts
<1>4. Leaks(p)'
  BY <1>1 DEF Untouched, ServerInv, Leaks
<1>5. Claims(p)'
  BY <1>1 DEF Untouched, ServerInv, Claims
<1>6. Held(p)'
  BY <1>1 DEF Untouched, ServerInv, Held
<1> QED
  BY <1>2, <1>3, <1>4, <1>5, <1>6 DEF ServerInv

-----------------------------------------------------------------------------
(* A step of a server and its own invariant, by what becomes of its        *)
(* sessions.                                                               *)

\* Lock, vis and count are not touched, and neither is any session.
LEMMA QuietInv ==
  ASSUME NEW s \in Servers, ServerInv(s), refused \subseteq refused',
         \A k \in Ids : Sessions(s, k)' = Sessions(s, k),
         pc[s] # "unlock", pc'[s] # "unlock", locks'[s] = locks[s],
         s \in WriteServers => vis'[s] = vis[s],
         s \in ReadServers => readCnt'[s] = readCnt[s],
         pc'[s] = "lock" /\ s \in WriteServers => ~vis[s][clientID'[s]]
  PROVE  ServerInv(s)'
<1>1. \A k \in Ids : ~Releasing(s, k) /\ ~Releasing(s, k)'
  BY DEF Releasing
<1>2. Counts(s)'
  BY <1>1 DEF ServerInv, Counts
<1>3. Leaks(s)'
  BY <1>1 DEF ServerInv, Leaks
<1>4. Claims(s)'
  BY <1>1 DEF ServerInv, Claims
<1>5. Held(s)'
  BY DEF ServerInv, Held
<1> QED
  BY <1>2, <1>3, <1>4, <1>5 DEF ServerInv

LEMMA SessionsFinite ==
  ASSUME NEW s, NEW k
  PROVE  /\ IsFiniteSet(Sessions(s, k)) /\ Cardinality(Sessions(s, k)) \in Nat
         /\ Cardinality(Sessions(s, k)) = 0 <=> Sessions(s, k) = {}
<1>1. IsFiniteSet(Sessions(s, k))
  BY ServersAssumption, FS_Subset DEF Sessions
<1> QED
  BY <1>1, FS_CardinalityType, FS_EmptySet

\* A session is closed, and its record is about to be released.
LEMMA ClosingInv ==
  ASSUME NEW s \in Servers, ServerInv(s), refused \subseteq refused',
         NEW k \in Ids, NEW f \in Sessions(s, k),
         \A j \in Ids : Sessions(s, j)' = Sessions(s, j) \ {f},
         \A j \in Ids \ {k} : f \notin Sessions(s, j),
         pc[s] # "unlock", pc'[s] = "unlock", clientID'[s] = k,
         locks'[s] = locks[s],
         s \in WriteServers => vis'[s] = vis[s],
         s \in ReadServers => readCnt'[s] = readCnt[s]
  PROVE  ServerInv(s)'
<1>1. \A j \in Ids : ~Releasing(s, j) /\ (Releasing(s, j)' <=> j = k)
  BY DEF Releasing
<1>2. \A j \in Ids \ {k} : Sessions(s, j)' = Sessions(s, j)
  <2>1. \A S : f \notin S => S \ {f} = S
    OBVIOUS
  <2> QED
    BY <2>1
<1>3. Counts(s)'
  <2>1. Cardinality(Sessions(s, k)') = Cardinality(Sessions(s, k)) - 1
    BY SessionsFinite, FS_RemoveElement
  <2>2. Cardinality(Sessions(s, k)) \in Nat
    BY SessionsFinite
  <2> QED
    BY <1>1, <1>2, <2>1, <2>2 DEF ServerInv, Counts
<1>4. Leaks(s)'
  BY <1>1, <1>2 DEF ServerInv, Leaks
<1>5. Claims(s)'
  BY <1>1, <1>2 DEF ServerInv, Claims
<1>6. Held(s)'
  BY <1>2 DEF ServerInv, Held
<1> QED
  BY <1>3, <1>4, <1>5, <1>6 DEF ServerInv

\* What a server does to lock, vis and count of a record it gives back.
LEMMA EndEffect ==
  ASSUME Types, NEW s \in Servers, NEW k \in Ids,
         \/ s \in ReadServers /\ EndReading(s, k)
         \/ s \in WriteServers /\ EndWriting(s, k)
  PROVE  /\ \A j \in Ids \ {k} : locks'[s][j] = locks[s][j]
         /\ s \in WriteServers => /\ locks'[s][k] = "F_UNLCK"
                                 /\ vis'[s] = [vis[s] EXCEPT ![k] = FALSE]
         /\ s \in ReadServers =>
              /\ readCnt'[s] = [readCnt[s] EXCEPT ![k] = @ - 1]
              /\ locks'[s][k] = IF readCnt[s][k] = 1 THEN "F_UNLCK"
                                                     ELSE locks[s][k]
<1>1. SetLock(s, k, "F_UNLCK") => locks' = [locks EXCEPT ![s][k] = "F_UNLCK"]
  BY UnlockGranted DEF SetLock
<1>2. CASE s \in ReadServers /\ EndReading(s, k)
  <2>1. s \notin WriteServers
    BY <1>2, ServersAssumption
  <2>2. readCnt' = [readCnt EXCEPT ![s][k] = @ - 1]
    BY <1>2 DEF EndReading
  <2>3. locks' = IF readCnt[s][k] = 1
                   THEN [locks EXCEPT ![s][k] = "F_UNLCK"] ELSE locks
    BY <1>1, <1>2 DEF EndReading
  <2> QED
    BY <1>2, <2>1, <2>2, <2>3 DEF Types
<1>3. CASE s \in WriteServers /\ EndWriting(s, k)
  <2>1. s \notin ReadServers
    BY <1>3, ServersAssumption
  <2>2. vis' = [vis EXCEPT ![s][k] = FALSE]
    BY <1>3 DEF EndWriting
  <2>3. locks' = [locks EXCEPT ![s][k] = "F_UNLCK"]
    BY <1>1, <1>3 DEF EndWriting
  <2>4. vis'[s] = [vis[s] EXCEPT ![k] = FALSE]
    BY <1>3, <2>2 DEF Types
  <2> QED
    BY <2>1, <2>3, <2>4 DEF Types
<1> QED
  BY <1>2, <1>3

\* A record is given back: its session is gone already, or goes now.
LEMMA ReleasedInv ==
  ASSUME Types, NEW s \in Servers, ServerInv(s), refused \subseteq refused',
         NEW k \in Ids,
         \/ s \in ReadServers /\ EndReading(s, k)
         \/ s \in WriteServers /\ EndWriting(s, k),
         \A j \in Ids \ {k} : Sessions(s, j)' = Sessions(s, j),
         Sessions(s, k)' \subseteq Sessions(s, k),
         pc'[s] = "select", \A j \in Ids \ {k} : ~Releasing(s, j),
         s \in ReadServers =>
           readCnt[s][k] = Cardinality(Sessions(s, k)') + 1,
         s \in WriteServers /\ k # 0 => Sessions(s, k)' = {}
  PROVE  ServerInv(s)'
<1>1. \A j \in Ids : ~Releasing(s, j)'
  BY DEF Releasing
<1>2. /\ Cardinality(Sessions(s, k)') \in Nat
      /\ Cardinality(Sessions(s, k)') = 0 <=> Sessions(s, k)' = {}
  <2>1. IsFiniteSet(Sessions(s, k)')
    BY SessionsFinite, FS_Subset
  <2> QED
    BY <2>1, FS_CardinalityType, FS_EmptySet
<1>3. Counts(s)'
  <2>1. CASE s \in ReadServers
    <3>1. readCnt'[s] = [readCnt[s] EXCEPT ![k] = @ - 1]
      BY <2>1, EndEffect
    <3> QED
      BY <1>1, <1>2, <2>1, <3>1 DEF ServerInv, Counts, Types
  <2> QED
    BY <2>1 DEF Counts
<1>4. Leaks(s)' /\ Held(s)'
  <2>1. CASE s \in ReadServers
    <3>1. s \notin WriteServers
      BY <2>1, ServersAssumption
    <3>2. /\ \A j \in Ids \ {k} : locks'[s][j] = locks[s][j]
          /\ locks'[s][k] = IF readCnt[s][k] = 1 THEN "F_UNLCK"
                                                 ELSE locks[s][k]
      BY <2>1, EndEffect
    <3>3. readCnt[s][k] = 1 <=> Sessions(s, k)' = {}
      BY <1>2, <2>1
    <3>4. Sessions(s, k)' # {} => Sessions(s, k) # {}
      OBVIOUS
    <3>5. Leaks(s)'
      BY <1>1, <3>1, <3>2, <3>3 DEF ServerInv, Leaks
    <3> QED
      BY <3>2, <3>3, <3>4, <3>5 DEF ServerInv, Held
  <2>2. CASE s \in WriteServers
    <3>1. /\ \A j \in Ids \ {k} : locks'[s][j] = locks[s][j]
          /\ locks'[s][k] = "F_UNLCK"
          /\ vis'[s] = [vis[s] EXCEPT ![k] = FALSE]
      BY <2>2, EndEffect
    <3>2. \A j \in Ids \ {k} : vis'[s][j] = vis[s][j]
      BY <2>2, <3>1 DEF Types
    <3>3. ~vis'[s][k]
      BY <2>2, <3>1 DEF Types
    <3>4. Leaks(s)'
      BY <1>1, <3>1, <3>2, <3>3 DEF ServerInv, Leaks
    <3> QED
      BY <2>2, <3>1, <3>4 DEF ServerInv, Held
  <2> QED
    BY <2>1, <2>2 DEF Servers
<1>5. Claims(s)'
  <2>1. CASE s \in WriteServers
    <3>1. vis'[s] = [vis[s] EXCEPT ![k] = FALSE]
      BY <2>1, EndEffect
    <3>2. \A j \in Ids \ {k} : vis'[s][j] = vis[s][j]
      BY <2>1, <3>1 DEF Types
    <3> QED
      BY <1>1, <2>1, <3>2 DEF ServerInv, Claims
  <2> QED
    BY <2>1 DEF Claims
<1> QED
  BY <1>3, <1>4, <1>5 DEF ServerInv

\* A session begins with the lock call.
LEMMA TakeLockInv ==
  ASSUME Shape, NEW s \in Servers, ServerInv(s), TakeLock(s)
  PROVE  ServerInv(s)'
<1> DEFINE k == clientID[s]
           f == conn_fd[s]
<1> USE DEF Shape
<1>1. /\ k \in Ids /\ f \in Fds
      /\ pc[s] = "lock" /\ pc'[s] = "show"
      /\ state[s][f] = "READ_OPR" /\ id[s][f] = k
  BY DEF TakeLock, Types, Serving
<1>2. /\ f \notin Sessions(s, k)
      /\ \A j \in Ids : Sessions(s, j)' =
           IF j = k THEN Sessions(s, k) \cup {f} ELSE Sessions(s, j)
  BY <1>1 DEF TakeLock, Sessions, Types
<1>3. \A j \in Ids : ~Releasing(s, j) /\ ~Releasing(s, j)'
  BY <1>1 DEF Releasing
<1>4. \A j \in Ids \ {k} : locks'[s][j] = locks[s][j]
  BY DEF TakeLock, SetLock, Types
<1>5. s \in ReadServers => readCnt'[s] = [readCnt[s] EXCEPT ![k] = @ + 1]
  BY DEF TakeLock, Types
<1>6. s \in WriteServers => vis'[s] = [vis[s] EXCEPT ![k] = TRUE]
  <2>1. s \in WriteServers => vis' = [vis EXCEPT ![s][k] = TRUE]
    BY ServersAssumption DEF TakeLock
  <2> QED
    BY <2>1 DEF Types
<1>7. k \notin refused' => locks'[s][k] = Kind(s)
  BY <1>1 DEF TakeLock, SetLock, Types
<1>8. refused \subseteq refused'
  BY DEF TakeLock
<1> HIDE DEF k, f
<1>9. Counts(s)'
  <2>1. Cardinality(Sessions(s, k) \cup {f}) = Cardinality(Sessions(s, k)) + 1
    BY <1>2, SessionsFinite, FS_AddElement
  <2>2. \A j \in Ids : Cardinality(Sessions(s, j)) \in Nat
    BY SessionsFinite
  <2>3. ASSUME s \in ReadServers, NEW j \in Ids
        PROVE  readCnt'[s][j] = Cardinality(Sessions(s, j)')
                                  + (IF Releasing(s, j)' THEN 1 ELSE 0)
    <3>1. readCnt[s][j] = Cardinality(Sessions(s, j))
      BY <1>3, <2>2, <2>3 DEF ServerInv, Counts
    <3>2. readCnt'[s][j] = IF j = k THEN readCnt[s][j] + 1 ELSE readCnt[s][j]
      BY <1>5, <2>3 DEF Types
    <3>3. readCnt'[s][j] = Cardinality(Sessions(s, j)')
      BY <1>2, <2>1, <3>1, <3>2
    <3>4. readCnt'[s][j] \in Int
      BY <2>2, <3>1, <3>2
    <3> QED
      BY <1>3, <3>3, <3>4
  <2> QED
    BY <2>3 DEF Counts
<1>10. \A j \in Ids : s \in WriteServers => (vis'[s][j] <=> j = k \/ vis[s][j])
  <2>1. CASE s \in WriteServers
    <3>1. vis[s] \in [Ids -> BOOLEAN]
      BY <2>1 DEF Types
    <3> QED
      BY <1>1, <1>6, <2>1, <3>1
  <2> QED
    BY <2>1
<1>11. Leaks(s)'
  <2>1. ASSUME NEW j \in Ids,
               locks'[s][j] # "F_UNLCK" \/ (s \in WriteServers /\ vis'[s][j])
        PROVE  Sessions(s, j)' # {}
    <3>1. CASE j = k
      BY <1>2, <3>1
    <3>2. CASE j # k
      <4>1. Sessions(s, j) # {}
        BY <1>3, <1>4, <1>10, <2>1, <3>2 DEF ServerInv, Leaks
      <4> QED
        BY <1>2, <3>2, <4>1
    <3> QED
      BY <3>1, <3>2
  <2> QED
    BY <2>1 DEF Leaks
<1>12. Claims(s)'
  <2>1. CASE s \in WriteServers
    <3>1. ~vis[s][k]
      BY <1>1, <2>1 DEF ServerInv, Claims, k
    <3>2. k # 0 => Sessions(s, k) = {}
      BY <1>1, <2>1, <3>1 DEF ServerInv, Claims
    <3>3. ASSUME NEW j \in Ids \ {0}
          PROVE  /\ Sessions(s, j)' # {} => vis'[s][j]
                 /\ \A x, y \in Sessions(s, j)' : x = y
      <4>1. CASE j = k
        <5>1. Sessions(s, j)' = {f}
          BY <1>2, <3>2, <4>1
        <5> QED
          BY <1>10, <2>1, <4>1, <5>1
      <4>2. CASE j # k
        BY <1>2, <1>10, <2>1, <4>2 DEF ServerInv, Claims
      <4> QED
        BY <4>1, <4>2
    <3> QED
      BY <1>1, <1>3, <3>3 DEF Claims
  <2> QED
    BY <2>1 DEF Claims
<1>13. Held(s)'
  <2>1. ASSUME NEW j \in Ids \ (refused' \cup {0}), Sessions(s, j)' # {}
        PROVE  locks'[s][j] = Kind(s)
    <3>1. CASE j = k
      BY <1>7, <2>1, <3>1
    <3>2. CASE j # k
      BY <1>2, <1>4, <1>8, <2>1, <3>2 DEF ServerInv, Held
    <3> QED
      BY <3>1, <3>2
  <2> QED
    BY <2>1 DEF Held, Kind
<1> QED
  BY <1>9, <1>11, <1>12, <1>13 DEF ServerInv

\* A server starts with nothing, and ends with nothing.
LEMMA NothingInv ==
  ASSUME NEW s \in Servers,
         \A k \in Ids : /\ Sessions(s, k) = {} /\ ~Releasing(s, k)
                        /\ locks[s][k] = "F_UNLCK"
                        /\ s \in WriteServers => ~vis[s][k]
                        /\ s \in ReadServers => readCnt[s][k] = 0,
         pc[s] # "lock"
  PROVE  ServerInv(s)
<1>1. Counts(s)
  BY SessionsFinite DEF Counts
<1> QED
  BY <1>1 DEF ServerInv, Leaks, Claims, Held

\* The steps that close a session: ExitLine, BadCommand and Commit.
LEMMA CloseThenUnlockInv ==
  ASSUME Shape, NEW s \in Servers, ServerInv(s), NEW f \in Fds,
         state[s][f] = "READ_OPR", pc[s] \in {"select", "commit"},
         CloseThenUnlock(s, f), UNCHANGED <<locks, vis, readCnt, refused>>
  PROVE  ServerInv(s)'
<1>1. id[s][f] \in Ids /\ f \in Sessions(s, id[s][f])
  BY DEF Shape, Types, Sessions
<1>2. \A j \in Ids : Sessions(s, j)' = Sessions(s, j) \ {f}
  BY DEF Shape, Types, Sessions, CloseThenUnlock, ReqClose
<1>3. \A j \in Ids \ {id[s][f]} : f \notin Sessions(s, j)
  BY DEF Sessions
<1>4. pc'[s] = "unlock" /\ clientID'[s] = id[s][f]
  BY DEF Shape, Types, CloseThenUnlock
<1> QED
  BY <1>1, <1>2, <1>3, <1>4, ClosingInv

\* The client of a connection of write_server is gone.
LEMMA WriteServerEOFInv ==
  ASSUME Shape, NEW s \in Servers, ServerInv(s), NEW f \in Fds,
         WriteServerEOF(s, f)
  PROVE  ServerInv(s)'
<1>0. PICK k \in Ids : k = id[s][f]
  BY DEF Shape, Types
<1>1. /\ pc[s] = "select" /\ pc'[s] = "select"
      /\ s \in WriteServers /\ s \notin ReadServers
      /\ EndWriting(s, k) /\ refused \subseteq refused'
  BY <1>0, ServersAssumption DEF WriteServerEOF, Readable, Shape, Types
<1>2. \A j \in Ids : Sessions(s, j)' = Sessions(s, j) \ {f}
  BY <1>0, <1>1 DEF WriteServerEOF, ReqClose, Sessions, Shape, Types
<1>3. \A j \in Ids \ {k} : Sessions(s, j)' = Sessions(s, j)
  BY <1>0, <1>1 DEF WriteServerEOF, ReqClose, Sessions, Shape, Types
<1>4. ~(\E j \in Ids : Releasing(s, j))
  BY <1>1 DEF Releasing
<1>5. k # 0 => f \in Sessions(s, k)
  BY <1>0, <1>1 DEF Shape, Unnamed, Sessions
<1>6. k # 0 => Sessions(s, k)' = {}
  <2>1. ASSUME k # 0 PROVE Sessions(s, k) = {f}
    BY <1>1, <1>5, <2>1 DEF ServerInv, Claims
  <2> QED
    BY <1>1, <1>2, <2>1
<1> QED
  BY <1>1, <1>2, <1>3, <1>4, <1>6, ReleasedInv DEF Shape

\* The same in read_server, which counts sessions and not connections.
LEMMA ReadServerEOFInv ==
  ASSUME Shape, NEW s \in Servers, ServerInv(s), NEW f \in Fds,
         ReadServerEOF(s, f)
  PROVE  ServerInv(s)'
<1>0. PICK k \in Ids : k = id[s][f]
  BY DEF Shape, Types
<1>1. /\ pc[s] = "select" /\ pc'[s] = "select"
      /\ s \in ReadServers /\ s \notin WriteServers
      /\ refused \subseteq refused'
  BY ServersAssumption DEF ReadServerEOF, Readable, Shape, Types
<1>2. \A j \in Ids : ~Releasing(s, j)
  BY <1>1 DEF Releasing
<1>3. \A j \in Ids : Sessions(s, j)' = Sessions(s, j) \ {f}
  BY <1>0, <1>1 DEF ReadServerEOF, ReqClose, Sessions, Shape, Types
<1>4. \A j \in Ids \ {k} : Sessions(s, j)' = Sessions(s, j)
  BY <1>0, <1>1 DEF ReadServerEOF, ReqClose, Sessions, Shape, Types
<1>5. CASE Counted(s, f)
  <2>1. f \in Sessions(s, k) /\ EndReading(s, k)
    BY <1>0, <1>1, <1>5 DEF Counted, ReadServerEOF, Sessions
  <2>2. Cardinality(Sessions(s, k)') = Cardinality(Sessions(s, k)) - 1
    BY <1>1, <1>3, <2>1, SessionsFinite, FS_RemoveElement
  <2>3. readCnt[s][k] = Cardinality(Sessions(s, k))
    BY <1>1, <1>2, SessionsFinite DEF ServerInv, Counts
  <2>4. Cardinality(Sessions(s, k)) \in Nat
    BY SessionsFinite
  <2>5. readCnt[s][k] = Cardinality(Sessions(s, k)') + 1
    BY <2>2, <2>3, <2>4
  <2> QED
    BY <1>1, <1>2, <1>3, <1>4, <2>1, <2>5, ReleasedInv DEF Shape
<1>6. CASE ~Counted(s, f)
  <2>1. \A j \in Ids : f \notin Sessions(s, j)
    BY <1>6 DEF Counted, Sessions
  <2>2. \A j \in Ids : Sessions(s, j)' = Sessions(s, j)
    BY <1>1, <1>6 DEF ReadServerEOF, ReqClose, Sessions, Shape, Types, Counted
  <2>3. UNCHANGED <<readCnt, locks, vis>>
    BY <1>6 DEF ReadServerEOF
  <2> QED
    BY <1>1, <2>2, <2>3, QuietInv
<1> QED
  BY <1>5, <1>6

\* A handler releases the record of the session it has closed.
LEMMA UnlockInv ==
  ASSUME Shape, NEW s \in Servers, ServerInv(s), Unlock(s)
  PROVE  ServerInv(s)'
<1>0. PICK k \in Ids : k = clientID[s]
  BY DEF Shape, Types
<1>1. /\ pc[s] = "unlock" /\ pc'[s] = "select" /\ refused \subseteq refused'
      /\ \A j \in Ids : Releasing(s, j) <=> j = k
  BY <1>0 DEF Unlock, Return, Releasing, Shape, Types
<1>2. \A j \in Ids : Sessions(s, j)' = Sessions(s, j)
  BY <1>1 DEF Unlock, Sessions
<1>3. \/ s \in ReadServers /\ EndReading(s, k)
      \/ s \in WriteServers /\ EndWriting(s, k)
  BY <1>0 DEF Unlock, Servers
<1>4. s \in ReadServers => readCnt[s][k] = Cardinality(Sessions(s, k)') + 1
  BY <1>1, <1>2 DEF ServerInv, Counts
<1>5. s \in WriteServers /\ k # 0 => Sessions(s, k)' = {}
  BY <1>1, <1>2 DEF ServerInv, Claims
<1> QED
  BY <1>1, <1>2, <1>3, <1>4, <1>5, ReleasedInv DEF Shape

LEMMA ExitInv ==
  ASSUME Shape, NEW s \in Servers, Exit(s)
  PROVE  ServerInv(s)'
<1>1. \A k \in Ids : Sessions(s, k)' = {} /\ ~Releasing(s, k)'
  BY DEF Exit, Sessions, Releasing, Shape, Types
<1>2. \A k \in Ids : /\ locks'[s][k] = "F_UNLCK"
                     /\ s \in WriteServers => ~vis'[s][k]
                     /\ s \in ReadServers => readCnt'[s][k] = 0
  BY DEF Exit, Shape, Types
<1>3. pc'[s] # "lock"
  BY DEF Exit, Shape, Types
<1>4. Cardinality({}) = 0
  BY FS_EmptySet
<1> QED
  BY <1>1, <1>2, <1>3, <1>4 DEF ServerInv, Counts, Leaks, Claims, Held

\* Steps that only move a handler or a connection without a session.
LEMMA QuietStepsInv ==
  ASSUME Shape, NEW s \in Servers, ServerInv(s), NEW f \in Fds,
         \/ Accept(s, f) \/ BadId(s, f)
         \/ \E k \in Ids : IdLocked(s, f, k) \/ IdFree(s, f, k)
         \/ \E opr \in Commands : Command(s, f, opr)
  PROVE  ServerInv(s)'
<1>1. UNCHANGED <<locks, vis, readCnt, refused>>
  BY DEF Accept, BadId, IdLocked, IdFree, Command
<1>2. CASE Accept(s, f) \/ BadId(s, f) \/ \E k \in Ids : IdLocked(s, f, k)
  <2>1. pc[s] = "select" /\ state[s][f] # "READ_OPR"
    BY <1>2 DEF Accept, BadId, IdLocked, Readable
  <2>2. UNCHANGED <<pc, conn_fd>>
    BY <1>2 DEF Accept, BadId, IdLocked
  <2>3. /\ \A g \in Fds \ {f} : state'[s][g] = state[s][g] /\ id'[s][g] = id[s][g]
        /\ state'[s][f] # "READ_OPR"
    BY <1>2 DEF Accept, BadId, IdLocked, ReqClose, Shape, Types
  <2>4. \A k \in Ids : Sessions(s, k)' = Sessions(s, k)
    BY <2>1, <2>2, <2>3 DEF Sessions
  <2> QED
    BY <1>1, <2>1, <2>2, <2>4, QuietInv
<1>3. ASSUME NEW k \in Ids, IdFree(s, f, k) PROVE ServerInv(s)'
  <2>1. /\ pc[s] = "select" /\ state[s][f] # "READ_OPR"
        /\ pc'[s] = "lock" /\ conn_fd'[s] = f /\ clientID'[s] = k
        /\ \A g \in Fds \ {f} : state'[s][g] = state[s][g] /\ id'[s][g] = id[s][g]
    BY <1>3 DEF IdFree, Readable, Shape, Types
  <2>2. \A j \in Ids : Sessions(s, j)' = Sessions(s, j)
    BY <2>1 DEF Sessions
  <2>3. s \in WriteServers => ~vis[s][k]
    BY <1>3 DEF IdFree, Barred
  <2> QED
    BY <1>1, <2>1, <2>2, <2>3, QuietInv
<1>4. ASSUME NEW opr \in Commands, Command(s, f, opr) PROVE ServerInv(s)'
  <2>1. pc[s] = "select" /\ pc'[s] = "commit"
    BY <1>4 DEF Command, InSession, Readable, Shape, Types
  <2>2. \A k \in Ids : Sessions(s, k)' = Sessions(s, k)
    BY <1>4, <2>1 DEF Command, Sessions
  <2> QED
    BY <1>1, <2>1, <2>2, QuietInv
<1> QED
  BY <1>2, <1>3, <1>4

LEMMA StepInv ==
  ASSUME Shape, NEW s \in Servers, ServerInv(s), Step(s)
  PROVE  ServerInv(s)'
<1>1. ASSUME Commit(s) PROVE ServerInv(s)'
  <2>1. /\ conn_fd[s] \in Fds /\ state[s][conn_fd[s]] = "READ_OPR"
        /\ pc[s] = "commit" /\ CloseThenUnlock(s, conn_fd[s])
        /\ UNCHANGED <<locks, vis, readCnt, refused>>
    BY <1>1 DEF Commit, Shape, Serving
  <2> QED
    BY <2>1, CloseThenUnlockInv
<1>2. ASSUME NEW f \in Fds, ExitLine(s, f) \/ BadCommand(s, f)
      PROVE  ServerInv(s)'
  BY <1>2, CloseThenUnlockInv DEF ExitLine, BadCommand, InSession, Readable
<1>3. ASSUME NEW f \in Fds, Handle(s, f) PROVE ServerInv(s)'
  BY <1>2, <1>3, ExitInv, QuietStepsInv, ReadServerEOFInv, WriteServerEOFInv
     DEF Handle, ReadFails, PartialLine
<1>4. ASSUME Start(s) \/ Show(s) PROVE ServerInv(s)'
  <2>1. \A k \in Ids : Sessions(s, k)' = Sessions(s, k)
    BY <1>4 DEF Start, Show, Return, Sessions, Shape, Types
  <2>2. pc[s] # "unlock" /\ pc'[s] = "select"
    BY <1>4 DEF Start, Show, Return, Shape, Types
  <2>3. UNCHANGED <<locks, vis, readCnt, refused>>
    BY <1>4 DEF Start, Show
  <2> QED
    BY <2>1, <2>2, <2>3, QuietInv
<1> QED
  BY <1>1, <1>3, <1>4, ExitInv, TakeLockInv, UnlockInv
     DEF Step, Kill, AcceptFull

-----------------------------------------------------------------------------
(* Exclusion follows from the invariant, and with it what clients were     *)
(* shown stays true.                                                       *)

LEMMA Exclusive ==
  ASSUME Shape, \A s \in Servers : ServerInv(s)
  PROVE  ExclusiveUnlessRefused
<1> SUFFICES ASSUME NEW k \in Ids \ (refused \cup {0}),
                    NEW s \in WriteServers, NEW p \in Servers,
                    NEW f \in Sessions(s, k), NEW g \in Sessions(p, k)
             PROVE  s = p /\ f = g
  BY DEF ExclusiveUnlessRefused
<1>1. s \in Servers /\ s \notin ReadServers
  BY ServersAssumption DEF Servers
<1>2. locks[s][k] = "F_WRLCK" /\ locks[p][k] # "F_UNLCK"
  BY <1>1 DEF ServerInv, Held, Kind
<1>3. s = p
  BY <1>1, <1>2 DEF Shape, LockTable, Compatible
<1> QED
  BY <1>1, <1>3 DEF ServerInv, Claims

\* Which sessions have been shown their record after a step, and what.
LEMMA InformedStep ==
  ASSUME Shape, NEW s \in Servers, Step(s), NEW k \in Ids,
         NEW f \in Informed(s, k)'
  PROVE  \/ Show(s) /\ k = clientID[s] /\ shown'[s][f] = record'[k]
         \/ /\ f \in Informed(s, k) /\ shown'[s][f] = shown[s][f]
            /\ \/ record'[k] = record[k]
               \/ k = clientID[s] /\ f # conn_fd[s] /\ pc[s] = "commit"
<1> USE DEF Shape
<1>0. f \in Fds /\ state'[s][f] = "READ_OPR" /\ id'[s][f] = k
  BY DEF Informed, Sessions
<1>1. ~Exit(s)
  BY <1>0 DEF Exit, Types
<1>2. CASE Start(s)
  BY <1>0, <1>2 DEF Start, Informed, Sessions, Types
<1>3. CASE TakeLock(s)
  BY <1>0, <1>3 DEF TakeLock, Informed, Sessions, Types
<1>4. CASE Show(s)
  <2>1. CASE f = conn_fd[s]
    BY <1>0, <1>4, <2>1 DEF Show, Serving, Types
  <2>2. CASE f # conn_fd[s]
    BY <1>0, <1>4, <2>2 DEF Show, Informed, Sessions, Types
  <2> QED
    BY <2>1, <2>2
<1>5. CASE Commit(s)
  BY <1>0, <1>5 DEF Commit, CloseThenUnlock, ReqClose, Informed, Sessions, Types
<1>6. CASE Unlock(s)
  BY <1>0, <1>6 DEF Unlock, Return, Informed, Sessions, Types
<1>7. ASSUME NEW g \in Fds, Handle(s, g)
      PROVE  /\ f \in Informed(s, k) /\ shown'[s][f] = shown[s][f]
             /\ record'[k] = record[k]
  <2>1. CASE \/ ReadServerEOF(s, g) \/ WriteServerEOF(s, g) \/ BadId(s, g)
             \/ \E j \in Ids : IdLocked(s, g, j)
    <3>1. /\ pc[s] = "select" /\ ReqClose(s, g) /\ UNCHANGED record
      BY <2>1 DEF ReadServerEOF, WriteServerEOF, BadId, IdLocked, Readable
    <3> QED
      BY <1>0, <3>1 DEF ReqClose, Informed, Sessions, Types
  <2>2. CASE ExitLine(s, g) \/ BadCommand(s, g)
    <3>1. /\ pc[s] = "select" /\ ReqClose(s, g) /\ UNCHANGED record
      BY <2>2 DEF ExitLine, BadCommand, CloseThenUnlock, InSession, Readable
    <3> QED
      BY <1>0, <3>1 DEF ReqClose, Informed, Sessions, Types
  <2>3. CASE Accept(s, g)
    BY <1>0, <2>3 DEF Accept, Informed, Sessions, Types
  <2>4. CASE \E j \in Ids : IdFree(s, g, j)
    <3>1. f # g
      BY <2>4 DEF IdFree, Informed, Sessions, Types
    <3> QED
      BY <1>0, <2>4, <3>1 DEF IdFree, Readable, Informed, Sessions, Types
  <2>5. CASE \E opr \in Commands : Command(s, g, opr)
    BY <1>0, <2>5 DEF Command, InSession, Readable, Informed, Sessions, Types
  <2> QED
    BY <1>1, <1>7, <2>1, <2>2, <2>3, <2>4, <2>5
       DEF Handle, ReadFails, PartialLine
<1> QED
  BY <1>1, <1>2, <1>3, <1>4, <1>5, <1>6, <1>7 DEF Step, Kill, AcceptFull

LEMMA ShownNext ==
  ASSUME Shape, \A s \in Servers : ServerInv(s), ShownStaysTrue,
         NEW s \in Servers, Step(s)
  PROVE  ShownStaysTrue'
<1> SUFFICES ASSUME NEW k \in Ids \ (refused' \cup {0}), NEW p \in Servers,
                    NEW f \in Informed(p, k)'
             PROVE  shown'[p][f] = record'[k]
  BY DEF ShownStaysTrue
<1>1. \A q \in Servers \ {s} : Untouched(q)
  BY Frame
<1>2. refused \subseteq refused'
  BY DEF Step, Start, Kill, Exit, AcceptFull, Handle, Accept, ReadFails,
         PartialLine, ReadServerEOF, WriteServerEOF, BadId, IdLocked, IdFree,
         ExitLine, BadCommand, Command, TakeLock, Show, Commit, Unlock
<1>3. \A q \in Servers : \A g \in Informed(q, k) : shown[q][g] = record[k]
  BY <1>2 DEF ShownStaysTrue
<1>4. \A w \in WriteServers, q \in Servers :
        \A g \in Sessions(w, k), h \in Sessions(q, k) : w = q /\ g = h
  BY <1>2, Exclusive DEF ExclusiveUnlessRefused
<1>5. ASSUME pc[s] = "commit", k = clientID[s]
      PROVE  s \in WriteServers /\ conn_fd[s] \in Sessions(s, k)
  BY <1>5 DEF Shape, Serving, Sessions
<1>6. CASE p = s
  <2>1. \/ shown'[s][f] = record'[k]
        \/ /\ f \in Informed(s, k) /\ shown'[s][f] = shown[s][f]
           /\ \/ record'[k] = record[k]
              \/ k = clientID[s] /\ f # conn_fd[s] /\ pc[s] = "commit"
    BY <1>6, InformedStep
  <2> QED
    BY <1>3, <1>4, <1>5, <1>6, <2>1 DEF Informed
<1>7. CASE p # s
  <2>1. f \in Informed(p, k) /\ shown'[p][f] = shown[p][f]
    BY <1>1, <1>7 DEF Untouched, Informed, Sessions
  <2>2. f \in Sessions(p, k)
    BY <2>1 DEF Informed
  <2>3. record'[k] = record[k] \/ (pc[s] = "commit" /\ k = clientID[s])
    BY DEF Shape, Types, Step, Start, Kill, Exit, AcceptFull, Handle, Accept,
           ReadFails, PartialLine, ReadServerEOF, WriteServerEOF, BadId,
           IdLocked, IdFree, ExitLine, BadCommand, Command, TakeLock, Show,
           Commit, Unlock
  <2>4. ~(pc[s] = "commit" /\ k = clientID[s])
    BY <1>4, <1>5, <1>7, <2>2
  <2> QED
    BY <1>3, <2>1, <2>3, <2>4
<1> QED
  BY <1>6, <1>7

LEMMA IInvInit == Init => IInv
<1> SUFFICES ASSUME Init PROVE IInv
  OBVIOUS
<1>1. Shape
  BY ShapeInit
<1>2. ASSUME NEW s \in Servers PROVE ServerInv(s)
  <2>1. \A k \in Ids : Sessions(s, k) = {} /\ ~Releasing(s, k)
    BY DEF Init, Sessions, Releasing
  <2> QED
    BY <2>1, NothingInv DEF Init
<1>3. ShownStaysTrue
  BY DEF Init, ShownStaysTrue, Informed, Sessions
<1> QED
  BY <1>1, <1>2, <1>3 DEF IInv

LEMMA IInvNext == IInv /\ [Next]_vars => IInv'
<1> SUFFICES ASSUME IInv, [Next]_vars PROVE IInv'
  OBVIOUS
<1>1. Shape'
  BY ShapeNext DEF IInv
<1>2. ASSUME NEW s \in Servers, Step(s) PROVE IInv'
  <2>1. ASSUME NEW p \in Servers PROVE ServerInv(p)'
    <3>1. CASE p = s
      BY <1>2, <3>1, StepInv DEF IInv
    <3>2. CASE p # s
      BY <1>2, <3>2, Frame, UntouchedInv DEF IInv
    <3> QED
      BY <3>1, <3>2
  <2>2. ShownStaysTrue'
    BY <1>2, ShownNext DEF IInv
  <2> QED
    BY <1>1, <2>1, <2>2 DEF IInv
<1>3. CASE UNCHANGED vars
  <2>1. \A s \in Servers : Untouched(s) /\ refused \subseteq refused'
    BY <1>3 DEF vars, Untouched
  <2>2. \A s \in Servers : ServerInv(s)'
    BY <2>1, UntouchedInv DEF IInv
  <2>3. ShownStaysTrue'
    BY <1>3 DEF vars, IInv, ShownStaysTrue, Informed, Sessions
  <2> QED
    BY <1>1, <2>2, <2>3 DEF IInv
<1> QED
  BY <1>2, <1>3 DEF Next

LEMMA IInvAlways == Spec => []IInv
  BY IInvInit, IInvNext, PTL DEF Spec

-----------------------------------------------------------------------------
(* What the invariant gives.                                               *)

\* Every variable keeps its type; no readCnt falls below zero although the
\* code decrements it without a test (server.c:233, 333-337).
THEOREM TypeCorrect == Spec => []TypeOK
<1>1. ASSUME IInv PROVE TypeOK
  <2>1. \A s \in ReadServers, k \in Ids : readCnt[s][k] \in Nat
    BY <1>1, SessionsFinite DEF IInv, ServerInv, Counts, Servers
  <2> QED
    BY <1>1, <2>1 DEF IInv, Shape, Types, TypeOK
<1> QED
  BY <1>1, IInvAlways, PTL

\* read_server counts the sessions on a record exactly.
THEOREM CountIsExact == Spec => []ReadCount
<1>1. IInv => ReadCount
  BY DEF IInv, ServerInv, Counts, ReadCount, Servers
<1> QED
  BY <1>1, IInvAlways, PTL

\* No lock and no vis mark outlives the sessions it was taken for.
THEOREM NoLeak == Spec => []NothingLeaked
<1>1. IInv => NothingLeaked
  BY DEF IInv, ServerInv, Leaks, NothingLeaked
<1> QED
  BY <1>1, IInvAlways, PTL

\* One write_server process has one session on a record (but the first).
THEOREM OneWriter == Spec => []OneWriterPerServer
<1>1. IInv => OneWriterPerServer
  BY DEF IInv, ServerInv, Claims, OneWriterPerServer, Servers
<1> QED
  BY <1>1, IInvAlways, PTL

\* All processes together: a write session excludes every other session on
\* its record, as long as no lock call on the record was refused.
THEOREM Exclusion == Spec => []ExclusiveUnlessRefused
<1>1. IInv => ExclusiveUnlessRefused
  BY Exclusive DEF IInv
<1> QED
  BY <1>1, IInvAlways, PTL

\* What a client was shown stays the content of the file during its session.
THEOREM ShownIsTrue == Spec => []ShownStaysTrue
<1>1. IInv => ShownStaysTrue
  BY DEF IInv
<1> QED
  BY <1>1, IInvAlways, PTL

-----------------------------------------------------------------------------
(* What the tests of server.c:316 and 319 leave of RecordsValid when        *)
(* amounts are as large as they like.                                      *)

\* A booking of ints that are not negative, whose sum is within the limit
\* or else no int.
ValidUnlessOverflow(b) ==
  /\ \A o \in Objects : b[o] \in 0 .. IntHalf - 1
  /\ b[0] + b[1] + b[2] <= Limit \/ b[0] + b[1] + b[2] >= IntHalf

LEMMA WrapSmall ==
  ASSUME NEW x \in Int, -IntHalf <= x, x < IntHalf
  PROVE  Wrap(x) = x
<1>1. IntHalf \in Nat /\ IntHalf > 0
  BY RecordsAssumption
<1>2. x + IntHalf \in 0 .. (2 * IntHalf) - 1
  BY <1>1
<1>3. (x + IntHalf) % (2 * IntHalf) = x + IntHalf
  BY <1>1, <1>2
<1> QED
  BY <1>1, <1>3 DEF Wrap

LEMMA WrapRange == ASSUME NEW x \in Int PROVE Wrap(x) \in CInts
<1>1. IntHalf \in Nat \ {0} /\ Wrap(x) = Around(IntHalf, x)
  BY RecordsAssumption DEF Wrap, Around
<1> QED
  BY <1>1, AroundRange DEF CInts

LEMMA OtherStepsCompute ==
  ASSUME IInv, NEW s \in Servers, Step(s), ~Commit(s),
         \A f \in Fds, opr \in Commands : ~Command(s, f, opr)
  PROVE  /\ record' = record
         /\ \A p \in Servers : curData'[p] \in {curData[p], ZeroBooking}
BY DEF IInv, Shape, Step, Types, Start, Kill, Exit, AcceptFull, Handle,
       Accept, ReadFails, PartialLine, ReadServerEOF, WriteServerEOF,
       BadId, IdLocked, IdFree, ExitLine, BadCommand, CloseThenUnlock,
       TakeLock, Show, Return, Unlock

LEMMA AcceptableInts ==
  ASSUME NEW b \in [Objects -> CInts], Acceptable(b)
  PROVE  ValidUnlessOverflow(b)
<1>1. IntHalf \in Nat /\ IntHalf > 0
  BY RecordsAssumption
<1>2. \A o \in Objects : b[o] \in Int /\ b[o] >= 0 /\ b[o] <= IntHalf - 1
  BY <1>1 DEF Acceptable, CInts
<1>3. 0 \in Objects /\ 1 \in Objects /\ 2 \in Objects
  BY DEF Objects
<1>4. ASSUME b[0] + b[1] + b[2] < IntHalf PROVE b[0] + b[1] + b[2] <= Limit
  <2>1. Wrap(b[0] + b[1] + b[2]) = b[0] + b[1] + b[2]
    BY <1>1, <1>2, <1>3, <1>4, WrapSmall
  <2> QED
    BY <2>1 DEF Acceptable
<1> QED
  BY <1>1, <1>2, <1>3, <1>4 DEF ValidUnlessOverflow

Computed ==
  /\ \A k \in Ids : ValidUnlessOverflow(record[k])
  /\ \A s \in Servers : curData[s] \in [Objects -> CInts]

LEMMA ComputedAlways ==
  ASSUME \A k \in Ids : ValidUnlessOverflow(InitRecord[k])
  PROVE  Spec => []Computed
<1>1. ZeroBooking \in [Objects -> CInts]
  BY RecordsAssumption DEF ZeroBooking, CInts
<1>2. Init => Computed
  BY <1>1 DEF Init, Computed
<1>3. ASSUME IInv, Computed, NEW s \in Servers, Step(s) PROVE Computed'
  <2> USE DEF IInv, Shape
  <2>1. ASSUME Commit(s) PROVE Computed'
    <3>1. curData'[s] = ZeroBooking /\ \A p \in Servers \ {s} : curData'[p] = curData[p]
      <4>1. curData' = [curData EXCEPT ![s] = ZeroBooking]
        BY <2>1 DEF Commit, CloseThenUnlock
      <4> QED
        BY <1>3, <4>1 DEF Types
    <3>2. Acceptable(curData[s]) => ValidUnlessOverflow(curData[s])
      BY <1>3, AcceptableInts DEF Computed
    <3>3. \A k \in Ids :
            record'[k] = record[k] \/ (Acceptable(curData[s]) /\ record'[k] = curData[s])
      BY <1>3, <2>1 DEF Commit, Types
    <3>4. \A k \in Ids : ValidUnlessOverflow(record'[k])
      BY <1>3, <3>2, <3>3 DEF Computed
    <3> QED
      BY <1>1, <1>3, <3>1, <3>4 DEF Computed
  <2>2. ASSUME NEW f \in Fds, NEW opr \in Commands, Command(s, f, opr) PROVE Computed'
    <3>1. record[id[s][f]] \in Bookings /\ opr \in Bookings
      BY <1>3, RecordsAssumption DEF Types
    <3>2. [o \in Objects |-> Wrap(record[id[s][f]][o] + opr[o])] \in [Objects -> CInts]
      BY <3>1, WrapRange DEF Bookings
    <3>3. /\ curData'[s] = [o \in Objects |-> Wrap(record[id[s][f]][o] + opr[o])]
          /\ \A p \in Servers \ {s} : curData'[p] = curData[p]
          /\ record' = record
      BY <1>3, <2>2 DEF Command, Types
    <3> QED
      BY <1>3, <3>2, <3>3 DEF Computed
  <2>3. ASSUME ~Commit(s), \A f \in Fds, opr \in Commands : ~Command(s, f, opr)
        PROVE  Computed'
    <3>1. /\ record' = record
          /\ \A p \in Servers : curData'[p] \in {curData[p], ZeroBooking}
      BY <1>3, <2>3, OtherStepsCompute
    <3> QED
      BY <1>1, <1>3, <3>1 DEF Computed
  <2> QED
    BY <2>1, <2>2, <2>3
<1>4. IInv /\ Computed /\ [Next]_vars => Computed'
  <2>1. ASSUME Computed, UNCHANGED vars PROVE Computed'
    BY <2>1 DEF vars, Computed
  <2> QED
    BY <1>3, <2>1 DEF Next
<1> QED
  BY <1>2, <1>4, IInvAlways, PTL DEF Spec

\* Whatever amounts clients send, no booking in the file is negative, and one
\* beyond the limit has a sum beyond the largest int: overflow is the only way
\* around the tests of server.c:316 and 319.
THEOREM LimitUnlessOverflow ==
  ASSUME \A k \in Ids : ValidUnlessOverflow(InitRecord[k])
  PROVE  Spec => [](\A k \in Ids : ValidUnlessOverflow(record[k]))
<1>1. Computed => \A k \in Ids : ValidUnlessOverflow(record[k])
  BY DEF Computed
<1> QED
  BY <1>1, ComputedAlways, PTL

-----------------------------------------------------------------------------
(* RecordsValid itself, for amounts that are small against the range of    *)
(* int, which ServesReservations needs.                                    *)

\* No amount exceeds M either way, and M is small.
SmallAmounts(M) ==
  /\ M \in Nat
  /\ 3 * (Limit + M) < IntHalf
  /\ \A opr \in Commands, o \in Objects : -M <= opr[o] /\ opr[o] <= M

Near(M, b) == \A o \in Objects : -(Limit + M) <= b[o] /\ b[o] <= Limit + M

LEMMA CommandNear ==
  ASSUME NEW M, SmallAmounts(M), NEW b \in Bookings, ValidBooking(b),
         NEW opr \in Commands
  PROVE  /\ Near(M, [o \in Objects |-> Wrap(b[o] + opr[o])])
         /\ \A o \in Objects : Wrap(b[o] + opr[o]) = b[o] + opr[o]
<1> SUFFICES ASSUME NEW o \in Objects
             PROVE  /\ -(Limit + M) <= Wrap(b[o] + opr[o])
                    /\ Wrap(b[o] + opr[o]) <= Limit + M
                    /\ Wrap(b[o] + opr[o]) = b[o] + opr[o]
  BY DEF Near
<1>1. /\ Limit \in Nat /\ M \in Nat /\ IntHalf \in Nat
      /\ 3 * (Limit + M) < IntHalf
      /\ opr[o] \in Int /\ -M <= opr[o] /\ opr[o] <= M
  BY RecordsAssumption DEF SmallAmounts, Bookings
<1>2. b[o] \in Int /\ 0 <= b[o] /\ b[o] <= Limit
  <2>1. \A i \in Objects : b[i] \in Int /\ 0 <= b[i]
    BY DEF ValidBooking, Bookings
  <2>2. b[0] + b[1] + b[2] <= Limit /\ o \in {0, 1, 2}
    BY DEF ValidBooking, Objects
  <2>3. 0 \in Objects /\ 1 \in Objects /\ 2 \in Objects
    BY DEF Objects
  <2> QED
    BY <1>1, <2>1, <2>2, <2>3
<1>3. Wrap(b[o] + opr[o]) = b[o] + opr[o]
  BY <1>1, <1>2, WrapSmall
<1> QED
  BY <1>1, <1>2, <1>3

LEMMA AcceptableNear ==
  ASSUME NEW M, SmallAmounts(M), NEW b \in Bookings, Near(M, b), Acceptable(b)
  PROVE  ValidBooking(b)
<1>1. /\ Limit \in Nat /\ M \in Nat /\ IntHalf \in Nat
      /\ 3 * (Limit + M) < IntHalf
  BY RecordsAssumption DEF SmallAmounts
<1>2. 0 \in Objects /\ 1 \in Objects /\ 2 \in Objects
  BY DEF Objects
<1>3. \A o \in Objects : b[o] \in Int /\ -(Limit + M) <= b[o] /\ b[o] <= Limit + M
  BY DEF Near, Bookings
<1>4. Wrap(b[0] + b[1] + b[2]) = b[0] + b[1] + b[2]
  BY <1>1, <1>2, <1>3, WrapSmall
<1> QED
  BY <1>4 DEF Acceptable, ValidBooking

Bounded(M) == RecordsValid /\ \A s \in Servers : Near(M, curData[s])

LEMMA BoundedAlways ==
  ASSUME NEW CONSTANT M, SmallAmounts(M),
         \A k \in Ids : ValidBooking(InitRecord[k])
  PROVE  Spec => []Bounded(M)
<1> DEFINE Inv == Bounded(M)
<1> USE DEF Bounded
<1>1. Near(M, ZeroBooking)
  BY RecordsAssumption DEF Near, SmallAmounts, ZeroBooking
<1>2. Init => Inv
  BY <1>1 DEF Init, RecordsValid
<1>3. ASSUME IInv, Inv, NEW s \in Servers, Step(s) PROVE Inv'
  <2> USE DEF IInv, Shape
  <2>1. ASSUME Commit(s) PROVE Inv'
    <3>1. curData'[s] = ZeroBooking /\ \A p \in Servers \ {s} : curData'[p] = curData[p]
      <4>1. curData' = [curData EXCEPT ![s] = ZeroBooking]
        BY <2>1 DEF Commit, CloseThenUnlock
      <4> QED
        BY <1>3, <4>1 DEF Types
    <3>2. Acceptable(curData[s]) => ValidBooking(curData[s])
      BY <1>3, AcceptableNear DEF Types
    <3>3. \A k \in Ids :
            record'[k] = record[k] \/ (Acceptable(curData[s]) /\ record'[k] = curData[s])
      BY <1>3, <2>1 DEF Commit, Types
    <3>4. RecordsValid'
      BY <1>3, <3>2, <3>3 DEF RecordsValid
    <3> QED
      BY <1>1, <1>3, <3>1, <3>4
  <2>2. ASSUME NEW f \in Fds, NEW opr \in Commands, Command(s, f, opr) PROVE Inv'
    <3>1. id[s][f] \in Ids /\ record[id[s][f]] \in Bookings
      BY <1>3 DEF Types
    <3>2. ValidBooking(record[id[s][f]])
      BY <1>3, <3>1 DEF RecordsValid
    <3>3. Near(M, curData'[s]) /\ \A p \in Servers \ {s} : curData'[p] = curData[p]
      BY <1>3, <2>2, <3>1, <3>2, CommandNear DEF Command, Types
    <3> QED
      BY <1>3, <2>2, <3>3 DEF Command, RecordsValid
  <2>3. ASSUME ~Commit(s), \A f \in Fds, opr \in Commands : ~Command(s, f, opr)
        PROVE  Inv'
    <3>1. /\ record' = record
          /\ \A p \in Servers : curData'[p] \in {curData[p], ZeroBooking}
      BY <1>3, <2>3, OtherStepsCompute
    <3> QED
      BY <1>1, <1>3, <3>1 DEF RecordsValid
  <2> QED
    BY <2>1, <2>2, <2>3
<1>4. IInv /\ Inv /\ [Next]_vars => Inv'
  <2>1. ASSUME Inv, UNCHANGED vars PROVE Inv'
    BY <2>1 DEF vars, RecordsValid
  <2> QED
    BY <1>3, <2>1 DEF Next
<1> QED
  BY <1>2, <1>4, IInvAlways, PTL DEF Spec

-----------------------------------------------------------------------------
(* The sessions of a single write_server w are the edits of Reservation.   *)

\* What the client of a write session was shown is in the file.  Unlike
\* ShownStaysTrue this does not depend on the file locks: readers change nothing.
EditsTrue(w) == \A k \in Ids \ {0} : \A f \in Informed(w, k) : shown[w][f] = record[k]

\* A result that is about to be written was computed from the file as it is.
Pending(w) ==
  pc[w] = "commit" =>
    \E opr \in Commands :
      curData[w] = [o \in Objects |-> Wrap(record[clientID[w]][o] + opr[o])]

\* What is being edited, by Edit's own definition or by the file.
Edited(w, k) == IF Informed(w, k) = {} THEN NoEdit ELSE record[k]

LEMMA EditIs ==
  ASSUME NEW w, WriteServers = {w}, EditsTrue(w), NEW k \in Ids \ {0}
  PROVE  Edit(k) = Edited(w, k)
<1>1. Writers(k) = {} <=> Informed(w, k) = {}
  <2>1. \A f \in Informed(w, k) : <<w, f>> \in WriteServers \X Fds
    BY DEF Informed, Sessions
  <2>2. \A x \in Writers(k) : x[2] \in Informed(w, k)
    BY DEF Writers
  <2>3. \A f \in Informed(w, k) : <<w, f>> \in Writers(k)
    BY <2>1 DEF Writers
  <2> QED
    BY <2>2, <2>3
<1>2. CASE Writers(k) # {}
  <2> DEFINE x == CHOOSE x \in Writers(k) : TRUE
  <2>1. x \in Writers(k)
    BY <1>2
  <2>2. Edit(k) = shown[x[1]][x[2]]
    BY <1>2 DEF Edit
  <2> HIDE DEF x
  <2>3. x[1] = w /\ x[2] \in Informed(w, k)
    BY <2>1 DEF Writers
  <2> QED
    BY <1>1, <1>2, <2>2, <2>3 DEF EditsTrue, Edited
<1>3. CASE Writers(k) = {}
  BY <1>1, <1>3 DEF Edit, Edited
<1> QED
  BY <1>2, <1>3

\* A step of a reader leaves the file and the write sessions alone, and so
\* does any step of w the file, unless it is a commit.
LEMMA FileKept ==
  ASSUME NEW s, Step(s), ~Commit(s)
  PROVE  record' = record
  BY DEF Step, Start, Kill, Exit, AcceptFull, Handle, Accept, ReadFails, PartialLine,
         ReadServerEOF, WriteServerEOF, BadId, IdLocked, IdFree, ExitLine, BadCommand,
         Command, TakeLock, Show, Unlock

LEMMA OthersKept ==
  ASSUME Types, NEW s \in Servers, Step(s), NEW p \in Servers \ {s}
  PROVE  curData'[p] = curData[p] /\ clientID'[p] = clientID[p]
  BY DEF Types, Step, Start, Kill, Exit, AcceptFull, Handle, Accept, ReadFails, PartialLine,
         ReadServerEOF, WriteServerEOF, BadId, IdLocked, IdFree, ExitLine, BadCommand,
         Command, CloseThenUnlock, TakeLock, Show, Return, Commit, Unlock

\* The only session on the record that w is about to write.
LEMMA Committer ==
  ASSUME Shape, NEW w \in WriteServers, ServerInv(w), pc[w] \in {"show", "commit"},
         clientID[w] # 0
  PROVE  /\ clientID[w] \in Ids \ {0} /\ conn_fd[w] \in Fds
         /\ Sessions(w, clientID[w]) = {conn_fd[w]}
         /\ pc[w] = "show" => Informed(w, clientID[w]) = {}
         /\ pc[w] = "commit" => Informed(w, clientID[w]) = {conn_fd[w]}
<1>1. w \in Servers /\ clientID[w] \in Ids \ {0} /\ conn_fd[w] \in Fds
  BY DEF Shape, Types, Serving, Servers
<1>2. conn_fd[w] \in Sessions(w, clientID[w])
  BY <1>1 DEF Shape, Serving, Sessions
<1>3. Sessions(w, clientID[w]) = {conn_fd[w]}
  BY <1>1, <1>2 DEF ServerInv, Claims
<1> QED
  BY <1>1, <1>3 DEF Informed

LEMMA EditsTrueNext ==
  ASSUME IInv, NEW w, WriteServers = {w}, EditsTrue(w), NEW s \in Servers, Step(s)
  PROVE  EditsTrue(w)'
<1> USE DEF IInv
<1>1. w \in WriteServers /\ w \in Servers
  BY DEF Servers
<1> SUFFICES ASSUME NEW k \in Ids \ {0}, NEW f \in Informed(w, k)'
             PROVE  shown'[w][f] = record'[k]
  BY DEF EditsTrue
<1>2. CASE s = w
  <2>1. ~(f \in Informed(w, k) /\ k = clientID[w] /\ f # conn_fd[w] /\ pc[w] = "commit")
    BY <1>1, Committer
  <2> QED
    BY <1>1, <1>2, <2>1, InformedStep DEF EditsTrue
<1>3. CASE s # w
  <2>1. Untouched(w)
    BY <1>1, <1>3, Frame
  <2>2. ~Commit(s)
    BY <1>3 DEF Commit, Shape, Serving
  <2>3. f \in Informed(w, k)
    BY <2>1 DEF Untouched, Informed, Sessions
  <2> QED
    BY <2>1, <2>2, <2>3, FileKept DEF EditsTrue, Untouched
<1> QED
  BY <1>2, <1>3

LEMMA PendingNext ==
  ASSUME IInv, NEW w, WriteServers = {w}, Pending(w), NEW s \in Servers, Step(s)
  PROVE  Pending(w)'
<1> USE DEF IInv
<1>1. w \in Servers
  BY DEF Servers
<1> SUFFICES ASSUME pc'[w] = "commit"
             PROVE  \E opr \in Commands :
                      curData'[w] = [o \in Objects |-> Wrap(record'[clientID'[w]][o] + opr[o])]
  BY DEF Pending
<1>2. CASE s = w
  <2>1. PICK f \in Fds, opr \in Commands : Command(w, f, opr)
    BY <1>1, <1>2 DEF Shape, Types, Step, Start, Kill, Exit, AcceptFull, Handle, Accept,
           ReadFails, PartialLine, ReadServerEOF, WriteServerEOF, BadId, IdLocked, IdFree,
           ExitLine, BadCommand, CloseThenUnlock, TakeLock, Show, Return, Commit, Unlock,
           Readable, InSession
  <2> QED
    BY <1>1, <2>1 DEF Command, Shape, Types
<1>3. CASE s # w
  <2>1. Untouched(w) /\ curData'[w] = curData[w] /\ clientID'[w] = clientID[w]
    BY <1>1, <1>3, Frame, OthersKept DEF Shape
  <2>2. ~Commit(s)
    BY <1>3 DEF Commit, Shape, Serving
  <2>3. record' = record
    BY <2>2, FileKept
  <2> QED
    BY <2>1, <2>3 DEF Untouched, Pending
<1> QED
  BY <1>2, <1>3

EditsAre(w) == EditsTrue(w) => \A k \in Ids \ {0} : Edit(k) = Edited(w, k)

LEMMA EditsAlways ==
  ASSUME NEW CONSTANT w, WriteServers = {w}
  PROVE  EditsAre(w) /\ EditsAre(w)'
<1>1. EditsAre(w)
  BY EditIs DEF EditsAre
<1>2. EditsAre(w)'
  BY <1>1, PTL
<1> QED
  BY <1>1, <1>2

\* The abstract state, before and after a step.
LEMMA Mapped ==
  ASSUME NEW CONSTANT w, WriteServers = {w}, EditsTrue(w), EditsTrue(w)'
  PROVE  /\ [k \in Ids \ {0} |-> Edit(k)] = [k \in Ids \ {0} |-> Edited(w, k)]
         /\ [k \in Ids \ {0} |-> Edit(k)]' = [k \in Ids \ {0} |-> Edited(w, k)']
<1>1. EditsAre(w) /\ EditsAre(w)'
  BY EditsAlways
<1> QED
  BY <1>1 DEF EditsAre

\* Which records are being edited after a step of w that is not the end of a
\* command: a step that shows a record adds one, every other step at most ends edits.
LEMMA InformedNext ==
  ASSUME Shape, NEW w \in WriteServers, ServerInv(w), Step(w), NEW k \in Ids \ {0}
  PROVE  /\ ~Show(w) \/ k # clientID[w] => Informed(w, k)' \subseteq Informed(w, k)
         /\ Show(w) \/ Commit(w) => IF k = clientID[w]
              THEN /\ Informed(w, k) = {} <=> Show(w)
                   /\ Informed(w, k)' = {} <=> Commit(w)
              ELSE Informed(w, k)' = Informed(w, k)
<1>1. w \in Servers
  BY DEF Servers
<1>2. ~Show(w) \/ k # clientID[w] => Informed(w, k)' \subseteq Informed(w, k)
  BY <1>1, InformedStep
<1>3. ASSUME Show(w) \/ Commit(w), k # clientID[w], NEW f \in Informed(w, k)
      PROVE  f \in Informed(w, k)'
  <2>1. f \in Fds /\ state[w][f] = "READ_OPR" /\ id[w][f] = k
    BY DEF Informed, Sessions
  <2>2. f # conn_fd[w]
    BY <1>1, <1>3, <2>1 DEF Show, Commit, Shape, Serving
  <2>3. pc'[w] \in {"select", "unlock"}
    BY <1>1, <1>3 DEF Show, Commit, Return, CloseThenUnlock, Shape, Types
  <2>4. state'[w][f] = state[w][f] /\ id'[w][f] = id[w][f]
    <3>1. CASE Show(w)
      BY <3>1 DEF Show
    <3>2. CASE Commit(w)
      BY <1>1, <2>1, <2>2, <3>2 DEF Commit, CloseThenUnlock, ReqClose, Shape, Types
    <3> QED
      BY <1>3, <3>1, <3>2
  <2> QED
    BY <2>1, <2>3, <2>4 DEF Informed, Sessions
<1>4. ASSUME Show(w), k = clientID[w]
      PROVE  Informed(w, k) = {} /\ Informed(w, k)' # {} /\ ~Commit(w)
  <2>1. pc[w] = "show" /\ conn_fd[w] \in Fds /\ Informed(w, k) = {}
    BY <1>4, Committer DEF Show
  <2>2. conn_fd[w] \in Informed(w, k)'
    BY <1>1, <1>4, <2>1 DEF Show, Return, Informed, Sessions, Shape, Types, Serving
  <2> QED
    BY <2>1, <2>2 DEF Commit
<1>5. ASSUME Commit(w), k = clientID[w]
      PROVE  Informed(w, k) # {} /\ Informed(w, k)' = {} /\ ~Show(w)
  <2>1. pc[w] = "commit" /\ conn_fd[w] \in Fds /\ Informed(w, k) = {conn_fd[w]}
    BY <1>5, Committer DEF Commit
  <2>2. conn_fd[w] \notin Informed(w, k)'
    BY <1>1, <1>5, <2>1 DEF Commit, CloseThenUnlock, ReqClose, Informed, Sessions, Shape, Types
  <2>3. ~Show(w)
    BY <2>1 DEF Show
  <2> QED
    BY <1>2, <2>1, <2>2, <2>3
<1> QED
  BY <1>2, <1>3, <1>4, <1>5

LEMMA RefinesStep ==
  ASSUME IInv, NEW CONSTANT M, SmallAmounts(M), Bounded(M), NEW CONSTANT w, WriteServers = {w},
         EditsTrue(w), EditsTrue(w)', Pending(w), NEW s \in Servers, Step(s)
  PROVE  [R!Next]_(R!vars)
<1> DEFINE U == Ids \ {0}
           rec == [k \in U |-> record[k]]
           edit == [k \in U |-> Edit(k)]
           after == [k \in U |-> Edit(k)']
<1>0. Shape /\ w \in WriteServers /\ w \in Servers /\ ServerInv(w)
  BY DEF IInv, Servers
<1>1. \A k \in U : edit[k] = Edited(w, k) /\ after[k] = Edited(w, k)'
  BY Mapped
<1>2. \A k \in U : record[k] \in Bookings /\ record[k] # NoEdit
  BY <1>0, NoEditAssumption DEF Shape, Types
<1>3. CASE s # w
  <2>1. Untouched(w) /\ record' = record
    <3>1. ~Commit(s)
      BY <1>0, <1>3 DEF Commit, Shape, Serving
    <3> QED
      BY <1>0, <1>3, <3>1, FileKept, Frame
  <2>2. \A k \in U : Edited(w, k)' = Edited(w, k)
    BY <2>1 DEF Untouched, Edited, Informed, Sessions
  <2>3. after = edit
    BY <1>1, <2>2
  <2> QED
    BY <2>1, <2>3 DEF R!vars
\* A record is shown: its edit begins.
<1>4. CASE s = w /\ Show(w)
  <2>1. record' = record
    BY <1>4 DEF Show
  <2>2. \A k \in U : after[k] = IF k = clientID[w] THEN record[k] ELSE edit[k]
    <3>1. \A k \in U : IF k = clientID[w] THEN Informed(w, k)' # {} /\ Informed(w, k) = {}
                                           ELSE Informed(w, k)' = Informed(w, k)
      BY <1>0, <1>4, InformedNext DEF Show, Commit
    <3>2. \A k \in U : k # clientID[w] => Edited(w, k)' = Edited(w, k)
      BY <2>1, <3>1 DEF Edited
    <3>3. \A k \in U : k = clientID[w] => Edited(w, k)' = record[k]
      BY <2>1, <3>1 DEF Edited
    <3> QED
      BY <1>1, <3>2, <3>3
  <2>3. CASE clientID[w] \in U
    <3>1. edit[clientID[w]] = NoEdit
      BY <1>0, <1>1, <1>4, <2>3, InformedNext DEF Edited
    <3>2. after = [edit EXCEPT ![clientID[w]] = rec[clientID[w]]]
      BY <2>2, <2>3
    <3>3. R!Begin(clientID[w])
      BY <2>1, <3>1, <3>2 DEF R!Begin
    <3> QED
      BY <2>3, <3>3 DEF R!Next
  <2>4. CASE clientID[w] \notin U
    <3>1. after = edit
      BY <2>2, <2>4
    <3> QED
      BY <2>1, <3>1 DEF R!vars
  <2> QED
    BY <2>3, <2>4
\* A command is applied or refused: the edit ends.
<1>5. CASE s = w /\ Commit(w)
  <2>0. clientID[w] \in U => Edited(w, clientID[w]) = record[clientID[w]]
    <3> SUFFICES ASSUME clientID[w] \in U PROVE Informed(w, clientID[w]) # {}
      BY DEF Edited
    <3>1. ~Show(w)
      BY <1>5 DEF Show, Commit
    <3> QED
      BY <1>0, <1>5, <3>1, InformedNext
  <2>1. \A k \in U : after[k] = IF k = clientID[w] THEN NoEdit ELSE edit[k]
    <3>1. \A k \in U : k # clientID[w] => record'[k] = record[k]
      BY <1>0, <1>5 DEF Commit, Shape, Types
    <3> QED
      BY <1>0, <1>1, <1>5, <3>1, InformedNext DEF Edited
  <2>2. record' = IF Acceptable(curData[w]) THEN [record EXCEPT ![clientID[w]] = curData[w]]
                  ELSE record
    BY <1>5 DEF Commit
  <2>3. CASE clientID[w] \notin U
    <3>1. after = edit
      BY <2>1, <2>3
    <3>2. [k \in U |-> record'[k]] = rec
      BY <1>0, <2>2, <2>3 DEF Shape, Types
    <3> QED
      BY <3>1, <3>2 DEF R!vars
  <2>4. CASE clientID[w] \in U /\ ~Acceptable(curData[w])
    <3>1. record' = record
      BY <2>2, <2>4
    <3>2. edit[clientID[w]] # NoEdit
      BY <1>1, <1>2, <2>0, <2>4
    <3>3. R!Abandon({clientID[w]})
      BY <2>1, <2>4, <3>1, <3>2 DEF R!Abandon
    <3> QED
      BY <2>4, <3>3 DEF R!Next
  <2>5. CASE clientID[w] \in U /\ Acceptable(curData[w])
    <3> DEFINE u == clientID[w]
    <3>1. PICK opr \in Commands : curData[w] = [o \in Objects |-> Wrap(record[u][o] + opr[o])]
      BY <1>5 DEF Pending, Commit
    <3>2. ValidBooking(record[u])
      BY <2>5 DEF Bounded, RecordsValid
    <3>3. \A o \in Objects : Wrap(record[u][o] + opr[o]) = record[u][o] + opr[o]
      BY <1>2, <2>5, <3>2, CommandNear
    <3>4. curData[w] = [o \in Objects |-> record[u][o] + opr[o]]
      BY <3>1, <3>3
    <3>5. ValidBooking(curData[w])
      BY <1>0, <2>5, AcceptableNear DEF Bounded, Shape, Types
    <3>6. edit[u] = record[u] /\ edit[u] # NoEdit
      BY <1>1, <1>2, <2>0, <2>5
    <3>7. after = [edit EXCEPT ![u] = NoEdit]
      BY <2>1, <2>5
    <3>8. [k \in U |-> record'[k]] = [rec EXCEPT ![u] = curData[w]]
      BY <1>0, <2>2, <2>5 DEF Shape, Types
    <3>9. R!Add(edit[u], opr) = curData[w]
      BY <3>4, <3>6 DEF R!Add, R!Objects, Objects
    <3>10. R!Within(curData[w])
      BY <3>5 DEF ValidBooking, R!Within, R!Objects, Objects
    <3>11. R!Update(u, opr)
      BY <3>6, <3>7, <3>8, <3>9, <3>10 DEF R!Update
    <3> QED
      BY <2>5, <3>11 DEF R!Next
  <2> QED
    BY <2>3, <2>4, <2>5
\* Any other step at most ends edits, all those of w if it dies.
<1>6. CASE s = w /\ ~Show(w) /\ ~Commit(w)
  <2>1. record' = record
    BY <1>6, FileKept
  <2> DEFINE us == {k \in U : Informed(w, k) # {} /\ Informed(w, k)' = {}}
  <2>2. \A k \in us : edit[k] # NoEdit
    BY <1>1, <1>2 DEF Edited
  <2>3. \A k \in U : after[k] = IF k \in us THEN NoEdit ELSE edit[k]
    <3>1. \A k \in U : Informed(w, k)' \subseteq Informed(w, k)
      BY <1>0, <1>6, InformedNext
    <3> QED
      BY <1>1, <2>1, <3>1 DEF Edited
  <2>4. R!Abandon(us)
    BY <2>1, <2>2, <2>3 DEF R!Abandon
  <2> QED
    BY <2>4 DEF R!Next
<1> QED
  BY <1>3, <1>4, <1>5, <1>6

\* The sessions of one write_server process, and of any read_server processes,
\* implement Reservation: no update is lost, and none is applied to a booking
\* other than the one its client has seen (server.c:240-331), provided the
\* file is valid at first and no command can make int wrap.
THEOREM ServesReservations ==
  ASSUME NEW CONSTANT w, WriteServers = {w}, NEW CONSTANT M, SmallAmounts(M),
         \A k \in Ids : ValidBooking(InitRecord[k])
  PROVE  Spec => ImplementsReservation
<1> DEFINE Inv == IInv /\ Bounded(M) /\ EditsTrue(w) /\ Pending(w)
<1>1. Init => R!Init /\ EditsTrue(w) /\ Pending(w)
  <2> SUFFICES ASSUME Init PROVE R!Init /\ EditsTrue(w) /\ Pending(w)
    OBVIOUS
  <2>1. w \in Servers
    BY DEF Servers
  <2>2. \A k \in Ids : Informed(w, k) = {}
    BY <2>1 DEF Init, Informed, Sessions
  <2>3. EditsTrue(w) /\ Pending(w)
    BY <2>1, <2>2 DEF Init, EditsTrue, Pending
  <2>4. \A k \in Ids \ {0} : Edit(k) = NoEdit
    BY <2>2, <2>3, EditIs DEF Edited
  <2>5. \A k \in Ids \ {0} : record[k] \in {b \in R!Bookings : R!Within(b)}
    BY RecordsAssumption DEF Init, R!Bookings, R!Objects, Bookings, Objects, R!Within, ValidBooking
  <2> QED
    BY <2>3, <2>4, <2>5 DEF R!Init
<1>2. EditsTrue(w) /\ Pending(w) /\ IInv /\ [Next]_vars => (EditsTrue(w) /\ Pending(w))'
  <2>1. ASSUME EditsTrue(w), Pending(w), UNCHANGED vars PROVE EditsTrue(w)' /\ Pending(w)'
    BY <2>1 DEF vars, EditsTrue, Pending, Informed, Sessions
  <2> QED
    BY <2>1, EditsTrueNext, PendingNext DEF Next
<1>3. Inv /\ EditsTrue(w)' /\ [Next]_vars => [R!Next]_(R!vars)
  <2>1. ASSUME UNCHANGED vars PROVE UNCHANGED R!vars
    BY <2>1 DEF vars, R!vars, Edit, Writers, Informed, Sessions
  <2> QED
    BY <2>1, RefinesStep DEF Next
<1>4. Spec => []Bounded(M)
  BY BoundedAlways
<1> QED
  BY <1>1, <1>2, <1>3, <1>4, IInvAlways, PTL DEF Spec, ImplementsReservation, R!Spec
=============================================================================
