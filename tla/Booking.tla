------------------------------ MODULE Booking ------------------------------
(***************************************************************************)
(* The booking servers of hw1 (server.c, compiled once as read_server and  *)
(* once as write_server).  Several server processes run side by side, each *)
(* multiplexes its own connections with select(), and all of them share    *)
(* the file bookingRecord, whose records they protect with fcntl() record  *)
(* locks.  A handler runs without interruption inside its own process, but *)
(* other processes may run between any two of its system calls on shared   *)
(* state, so a handler is cut into one step per such call; `pc' says where *)
(* a server stands.                                                        *)
(***************************************************************************)
EXTENDS CInt, FiniteSets

CONSTANTS
  ReadServers,   \* the read_server processes
  WriteServers,  \* the write_server processes
  Fds,           \* the connection descriptors a server has room for
  NoFd,          \* the conn_fd of a server that is serving nobody
  NumRecords,    \* the number of records in the file (20 in the program)
  Limit,         \* the most items one user may book (15 in the program)
  Commands,      \* the amounts get3Num may return to the write handler
  InitRecord     \* the content of bookingRecord when the system starts

Servers == ReadServers \cup WriteServers
Ids     == 0 .. NumRecords - 1   \* user id minus 902001
Objects == 0 .. 2                \* Food, Concert, Electronics
Bookings == [Objects -> Int]     \* the bookingState of a record
ZeroBooking == [o \in Objects |-> 0]

ASSUME ServersAssumption ==
  /\ ReadServers \cap WriteServers = {}
  /\ IsFiniteSet(Fds)
  /\ NoFd \notin Fds

ASSUME RecordsAssumption ==
  /\ NumRecords \in Nat \ {0}
  /\ Limit \in Nat
  /\ IntHalf \in Nat \ {0}
  /\ Commands \subseteq Bookings
  /\ InitRecord \in [Ids -> Bookings]

VARIABLES
  record,    \* the file: user -> bookingState
  locks,     \* the kernel's lock table: process -> record -> lock type
  pc,        \* where a server process stands
  conn_fd,   \* the connection a handler is serving
  clientID,  \* the handler's local copy of the user's index
  curData,   \* the handler's local copy of a record, updated by the command
  state,     \* requestP[fd].state, CLOSED when fd is not open
  id,        \* requestP[fd].id
  vis,       \* write_server: the records one of its sessions has claimed
  readCnt,   \* read_server: the number of its sessions on a record
  shown,     \* history: the booking state the client on fd was shown
  refused    \* history: records on which a server ignored a failed F_SETLK

vars == <<record, locks, pc, conn_fd, clientID, curData, state, id, vis,
          readCnt, shown, refused>>

-----------------------------------------------------------------------------
(* The kernel's record locks.  A process never conflicts with itself.      *)

LockTypes == {"F_UNLCK", "F_RDLCK", "F_WRLCK"}

\* Seeded fault: write_server asks for a shared lock as well.
SharedKind(s) == "F_RDLCK"

Kind(s) == IF s \in ReadServers THEN "F_RDLCK" ELSE "F_WRLCK"

Compatible(t, u) == "F_UNLCK" \in {t, u} \/ (t = "F_RDLCK" /\ u = "F_RDLCK")

\* test(): F_GETLK finds a lock of another process that bars lock type t.
Blocked(s, k, t) == \E p \in Servers \ {s} : ~Compatible(t, locks[p][k])

\* lock(): F_SETLK on record k; the program never looks at its result.
SetLock(s, k, t) ==
  locks' = IF Blocked(s, k, t) THEN locks ELSE [locks EXCEPT ![s][k] = t]

-----------------------------------------------------------------------------
(* A server process starts, and ends: every way to end it closes its       *)
(* connections, loses its memory and drops its locks.                      *)

Init ==
  /\ record   = InitRecord
  /\ locks    = [s \in Servers |-> [k \in Ids |-> "F_UNLCK"]]
  /\ pc       = [s \in Servers |-> "down"]
  /\ conn_fd  = [s \in Servers |-> NoFd]
  /\ clientID = [s \in Servers |-> 0]
  /\ curData  = [s \in Servers |-> ZeroBooking]
  /\ state    = [s \in Servers |-> [f \in Fds |-> "CLOSED"]]
  /\ id       = [s \in Servers |-> [f \in Fds |-> 0]]
  /\ vis      = [s \in WriteServers |-> [k \in Ids |-> FALSE]]
  /\ readCnt  = [s \in ReadServers |-> [k \in Ids |-> 0]]
  /\ shown    = [s \in Servers |-> [f \in Fds |-> ZeroBooking]]
  /\ refused  = {}

Start(s) ==
  /\ pc[s] = "down"
  /\ pc' = [pc EXCEPT ![s] = "select"]
  /\ UNCHANGED <<record, locks, conn_fd, clientID, curData, state, id, vis,
                 readCnt, shown, refused>>

Exit(s) ==
  /\ pc'       = [pc EXCEPT ![s] = "down"]
  /\ locks'    = [locks EXCEPT ![s] = [k \in Ids |-> "F_UNLCK"]]
  /\ conn_fd'  = [conn_fd EXCEPT ![s] = NoFd]
  /\ clientID' = [clientID EXCEPT ![s] = 0]
  /\ curData'  = [curData EXCEPT ![s] = ZeroBooking]
  /\ state'    = [state EXCEPT ![s] = [f \in Fds |-> "CLOSED"]]
  /\ id'       = [id EXCEPT ![s] = [f \in Fds |-> 0]]
  /\ vis'      = [p \in WriteServers |->
                    IF p = s THEN [k \in Ids |-> FALSE] ELSE vis[p]]
  /\ readCnt'  = [p \in ReadServers |->
                    IF p = s THEN [k \in Ids |-> 0] ELSE readCnt[p]]
  /\ shown'    = [shown EXCEPT ![s] = [f \in Fds |-> ZeroBooking]]
  /\ UNCHANGED <<record, refused>>

Kill(s) == pc[s] # "down" /\ Exit(s)

-----------------------------------------------------------------------------
(* A session gives its record back.                                        *)

\* Seeded fault: the first reader who leaves drops the lock of them all.
EndReadingEarly(s, k) ==
  /\ readCnt' = [readCnt EXCEPT ![s][k] = @ - 1]
  /\ SetLock(s, k, "F_UNLCK")
  /\ UNCHANGED vis

\* Seeded fault: the count is tested but never written back.
EndReadingUncounted(s, k) ==
  /\ IF readCnt[s][k] = 1 THEN SetLock(s, k, "F_UNLCK") ELSE UNCHANGED locks
  /\ UNCHANGED <<readCnt, vis>>

\* read_server: the last reader of the record unlocks it.
EndReading(s, k) ==
  /\ readCnt' = [readCnt EXCEPT ![s][k] = @ - 1]
  /\ IF readCnt[s][k] = 1 THEN SetLock(s, k, "F_UNLCK") ELSE UNCHANGED locks
  /\ UNCHANGED vis

\* Seeded fault: the file lock is forgotten.
EndWritingLocked(s, k) ==
  /\ vis' = [vis EXCEPT ![s][k] = FALSE]
  /\ UNCHANGED <<locks, readCnt>>

\* write_server.
EndWriting(s, k) ==
  /\ SetLock(s, k, "F_UNLCK")
  /\ vis' = [vis EXCEPT ![s][k] = FALSE]
  /\ UNCHANGED readCnt

-----------------------------------------------------------------------------
(* Connections.  read() on a ready descriptor returns what the client sent *)
(* since the last read, and the handler uses its first line only: one of   *)
(* the actions below is taken according to what that line is.              *)

\* reqClose(): free_request() leaves the id of the slot at 0.
ReqClose(s, f) ==
  /\ state' = [state EXCEPT ![s][f] = "CLOSED"]
  /\ id'    = [id EXCEPT ![s][f] = 0]
  /\ shown' = [shown EXCEPT ![s][f] = ZeroBooking]

Accept(s, f) ==
  /\ pc[s] = "select"
  /\ state[s][f] = "CLOSED"
  /\ state' = [state EXCEPT ![s][f] = "READ_ID"]
  /\ UNCHANGED <<record, locks, pc, conn_fd, clientID, curData, id, vis,
                 readCnt, shown, refused>>

\* accept() fails with EMFILE, which is neither EINTR, EAGAIN nor ENFILE.
AcceptFull(s) ==
  /\ pc[s] = "select"
  /\ \A f \in Fds : state[s][f] # "CLOSED"
  /\ Exit(s)

Readable(s, f) == pc[s] = "select" /\ state[s][f] # "CLOSED"

\* handle_read() < 0, or data without a newline: ERR_EXIT either way.
ReadFails(s, f)   == Readable(s, f) /\ Exit(s)
PartialLine(s, f) == Readable(s, f) /\ Exit(s)

\* Seeded fault: every connection is taken for a counted session.
AnyCounted(s, f) == TRUE

Counted(s, f) == state[s][f] = "READ_OPR"

\* The client closed the connection (or pressed ctrl+C), read_server.
ReadServerEOF(s, f) ==
  /\ s \in ReadServers
  /\ Readable(s, f)
  /\ IF Counted(s, f) THEN EndReading(s, id[s][f])
                      ELSE UNCHANGED <<readCnt, locks, vis>>
  /\ ReqClose(s, f)
  /\ UNCHANGED <<record, pc, conn_fd, clientID, curData, refused>>

\* The same in write_server: no test of the connection's state here.
WriteServerEOF(s, f) ==
  /\ s \in WriteServers
  /\ Readable(s, f)
  /\ EndWriting(s, id[s][f])
  /\ ReqClose(s, f)
  /\ UNCHANGED <<record, pc, conn_fd, clientID, curData, refused>>

-----------------------------------------------------------------------------
(* The line is a user id: test the record's lock, take it, show the record. *)

BadId(s, f) ==
  /\ Readable(s, f) /\ state[s][f] = "READ_ID"
  /\ ReqClose(s, f)
  /\ UNCHANGED <<record, locks, pc, conn_fd, clientID, curData, vis, readCnt,
                 refused>>

\* Seeded fault: the process does not look at its own sessions.
BarredByOthers(s, k) == Blocked(s, k, Kind(s))

\* Locked: another process bars the record or, in write_server, a session.
Barred(s, k) == (s \in WriteServers /\ vis[s][k]) \/ Blocked(s, k, Kind(s))

IdLocked(s, f, k) ==
  /\ Readable(s, f) /\ state[s][f] = "READ_ID"
  /\ Barred(s, k)
  /\ ReqClose(s, f)
  /\ UNCHANGED <<record, locks, pc, conn_fd, clientID, curData, vis, readCnt,
                 refused>>

IdFree(s, f, k) ==
  /\ Readable(s, f) /\ state[s][f] = "READ_ID"
  /\ ~Barred(s, k)
  /\ state'    = [state EXCEPT ![s][f] = "READ_OPR"]
  /\ id'       = [id EXCEPT ![s][f] = k]
  /\ pc'       = [pc EXCEPT ![s] = "lock"]
  /\ conn_fd'  = [conn_fd EXCEPT ![s] = f]
  /\ clientID' = [clientID EXCEPT ![s] = k]
  /\ UNCHANGED <<record, locks, curData, vis, readCnt, shown, refused>>

TakeLock(s) ==
  /\ pc[s] = "lock"
  /\ SetLock(s, clientID[s], Kind(s))
  /\ refused' = IF Blocked(s, clientID[s], Kind(s))
                  THEN refused \cup {clientID[s]} ELSE refused
  /\ IF s \in ReadServers
       THEN /\ readCnt' = [readCnt EXCEPT ![s][clientID[s]] = @ + 1]
            /\ UNCHANGED vis
       ELSE /\ vis' = [vis EXCEPT ![s][clientID[s]] = TRUE]
            /\ UNCHANGED readCnt
  /\ pc' = [pc EXCEPT ![s] = "show"]
  /\ UNCHANGED <<record, conn_fd, clientID, curData, state, id, shown>>

\* The handler returns to select(): its locals are gone.
Return(s) ==
  /\ pc'       = [pc EXCEPT ![s] = "select"]
  /\ conn_fd'  = [conn_fd EXCEPT ![s] = NoFd]
  /\ clientID' = [clientID EXCEPT ![s] = 0]
  /\ curData'  = [curData EXCEPT ![s] = ZeroBooking]

Show(s) ==
  /\ pc[s] = "show"
  /\ shown' = [shown EXCEPT ![s][conn_fd[s]] = record[clientID[s]]]
  /\ Return(s)
  /\ UNCHANGED <<record, locks, state, id, vis, readCnt, refused>>

-----------------------------------------------------------------------------
(* The line is a booking command or "Exit".                                *)

InSession(s, f) == Readable(s, f) /\ state[s][f] = "READ_OPR"

\* The connection is closed first; lock, vis and readCnt are released later.
CloseThenUnlock(s, f) ==
  /\ ReqClose(s, f)
  /\ pc'       = [pc EXCEPT ![s] = "unlock"]
  /\ conn_fd'  = [conn_fd EXCEPT ![s] = NoFd]
  /\ clientID' = [clientID EXCEPT ![s] = id[s][f]]
  /\ curData'  = [curData EXCEPT ![s] = ZeroBooking]

\* Any line but "Exit" is ignored by read_server.
ExitLine(s, f) ==
  /\ s \in ReadServers
  /\ InSession(s, f)
  /\ CloseThenUnlock(s, f)
  /\ UNCHANGED <<record, locks, vis, readCnt, refused>>

BadCommand(s, f) ==
  /\ s \in WriteServers
  /\ InSession(s, f)
  /\ CloseThenUnlock(s, f)
  /\ UNCHANGED <<record, locks, vis, readCnt, refused>>

\* lseek and read the record again, add the three numbers.
Command(s, f, opr) ==
  /\ s \in WriteServers
  /\ InSession(s, f)
  /\ curData'  = [curData EXCEPT ![s] =
                    [o \in Objects |-> Wrap(record[id[s][f]][o] + opr[o])]]
  /\ pc'       = [pc EXCEPT ![s] = "commit"]
  /\ conn_fd'  = [conn_fd EXCEPT ![s] = f]
  /\ clientID' = [clientID EXCEPT ![s] = id[s][f]]
  /\ UNCHANGED <<record, locks, state, id, vis, readCnt, shown, refused>>

Acceptable(b) ==
  /\ Wrap(b[0] + b[1] + b[2]) <= Limit
  /\ \A o \in Objects : b[o] >= 0

\* lseek and write the record if the result is acceptable, then END_READ.
Commit(s) ==
  /\ pc[s] = "commit"
  /\ record' = IF Acceptable(curData[s])
                 THEN [record EXCEPT ![clientID[s]] = curData[s]] ELSE record
  /\ CloseThenUnlock(s, conn_fd[s])
  /\ UNCHANGED <<locks, vis, readCnt, refused>>

Unlock(s) ==
  /\ pc[s] = "unlock"
  /\ IF s \in ReadServers THEN EndReading(s, clientID[s])
                          ELSE EndWriting(s, clientID[s])
  /\ Return(s)
  /\ UNCHANGED <<record, state, id, shown, refused>>

-----------------------------------------------------------------------------

Handle(s, f) ==
  \/ Accept(s, f)
  \/ ReadFails(s, f)
  \/ PartialLine(s, f)
  \/ ReadServerEOF(s, f)
  \/ WriteServerEOF(s, f)
  \/ BadId(s, f)
  \/ \E k \in Ids : IdLocked(s, f, k) \/ IdFree(s, f, k)
  \/ ExitLine(s, f)
  \/ BadCommand(s, f)
  \/ \E opr \in Commands : Command(s, f, opr)

\* The steps of one server process and of its clients.
Step(s) ==
  \/ Start(s)
  \/ Kill(s)
  \/ AcceptFull(s)
  \/ \E f \in Fds : Handle(s, f)
  \/ TakeLock(s)
  \/ Show(s)
  \/ Commit(s)
  \/ Unlock(s)

Next == \E s \in Servers : Step(s)

Spec == Init /\ [][Next]_vars

-----------------------------------------------------------------------------
(* Properties.                                                             *)

\* Every variable holds a value of the C type it models: in particular no
\* readCnt ever falls below zero, whatever order sessions end in.
TypeOK ==
  /\ record   \in [Ids -> Bookings]
  /\ locks    \in [Servers -> [Ids -> LockTypes]]
  /\ pc       \in [Servers -> {"down", "select", "lock", "show", "commit",
                               "unlock"}]
  /\ conn_fd  \in [Servers -> Fds \cup {NoFd}]
  /\ clientID \in [Servers -> Ids]
  /\ curData  \in [Servers -> Bookings]
  /\ state    \in [Servers -> [Fds -> {"CLOSED", "READ_ID", "READ_OPR"}]]
  /\ id       \in [Servers -> [Fds -> Ids]]
  /\ vis      \in [WriteServers -> [Ids -> BOOLEAN]]
  /\ readCnt  \in [ReadServers -> [Ids -> Nat]]
  /\ shown    \in [Servers -> [Fds -> Bookings]]
  /\ refused  \in SUBSET Ids

\* The connections of s with a session on record k: past the lock call.
Sessions(s, k) ==
  {f \in Fds : /\ state[s][f] = "READ_OPR"
               /\ id[s][f] = k
               /\ ~(pc[s] = "lock" /\ conn_fd[s] = f)}

\* s has closed a session on k and has not yet released the record.
Releasing(s, k) == pc[s] = "unlock" /\ clientID[s] = k

\* The count a read_server keeps of a record's sessions is exact: a count
\* too low drops the lock under a reader, one too high keeps it for ever.
ReadCount ==
  \A s \in ReadServers, k \in Ids :
    readCnt[s][k] = Cardinality(Sessions(s, k))
                      + (IF Releasing(s, k) THEN 1 ELSE 0)

\* Nothing outlives its sessions: a record is locked or marked in vis only
\* while a session of that server is on it, whether the session ends by
\* command, by error, by disconnection or by the death of the server.
NothingLeaked ==
  \A s \in Servers, k \in Ids :
    (locks[s][k] # "F_UNLCK" \/ (s \in WriteServers /\ vis[s][k]))
      => Sessions(s, k) # {} \/ Releasing(s, k)

\* One write_server never has two sessions on one record, the first record
\* excepted (see FirstRecordExclusive), even when F_SETLK failed.
OneWriterPerServer ==
  \A s \in WriteServers, k \in Ids \ {0} : \A f, g \in Sessions(s, k) : f = g

\* Across all processes, unless a failed F_SETLK was ignored on the record:
\* a write session has the record for itself, the first record excepted.
ExclusiveUnlessRefused ==
  \A k \in Ids \ (refused \cup {0}), s \in WriteServers, p \in Servers :
    \A f \in Sessions(s, k), g \in Sessions(p, k) : s = p /\ f = g

\* A session that has been shown its record.
Informed(s, k) == {f \in Sessions(s, k) : ~(pc[s] = "show" /\ conn_fd[s] = f)}

\* What a client was shown stays true as long as its session lasts: nobody
\* changes the record under a reader, nor under a writer who is about to
\* send a command (same exceptions).
ShownStaysTrue ==
  \A k \in Ids \ (refused \cup {0}), s \in Servers :
    \A f \in Informed(s, k) : shown[s][f] = record[k]

ValidBooking(b) ==
  /\ \A o \in Objects : b[o] >= 0
  /\ b[0] + b[1] + b[2] <= Limit

\* "You cannot book more than 15 items in total", nor "less than 0 items"
\* (server.c:317, 320).  It does not hold: the sum that is tested may wrap.
RecordsValid == \A k \in Ids : ValidBooking(record[k])

\* What the judge asks of one write_server ("Locked." for a second client,
\* sample_judge.py:404-411), for the first record. It does not hold.
FirstRecordExclusive ==
  \A s \in WriteServers : \A f, g \in Sessions(s, 0) : f = g

\* What the judge asks of two write_servers (sample_judge.py:439-447), for
\* the other records: no two sessions on one record. It does not hold.
ExclusiveWriters ==
  \A k \in Ids \ {0}, s, p \in WriteServers :
    \A f \in Sessions(s, k), g \in Sessions(p, k) : s = p /\ f = g

=============================================================================
