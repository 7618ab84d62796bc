----------------------------- MODULE SelectLoop -----------------------------
(***************************************************************************)
(* The main loop of a booking server (server.c, main): select() over the   *)
(* watched descriptors, then one pass over the descriptors it reported.    *)
(* Sockets block, so a read() of a connection without input would stop the *)
(* whole server.  What a handler does with its input is in Booking; here   *)
(* it only keeps the connection, closes it or ends the program.            *)
(***************************************************************************)
EXTENDS Integers

CONSTANTS
  NumFds,      \* getdtablesize(): descriptors are 0 .. NumFds-1
  ListenFd,    \* svr.listen_fd
  MaxBacklog   \* bound: connections waiting for accept()

ASSUME FdsAssumption ==
  /\ NumFds \in Nat /\ ListenFd \in Nat /\ MaxBacklog \in Nat
  /\ ListenFd < NumFds

\* accept() returns the lowest free number: all below ListenFd are in use
\* for ever (stdio and the record file).
Conns == ListenFd + 1 .. NumFds - 1

VARIABLES
  pc,        \* "down", "select" or "scan"
  readfds,   \* the descriptors watched: the listening one and the open ones
  maxfd,     \* the highest descriptor ever watched
  fds,       \* the result of the last select()
  pos,       \* i: the position of the pass over fds
  backlog,   \* connections the kernel holds for accept()
  unread,    \* open connections with unread bytes
  gone       \* open connections whose client has closed its end

lvars == <<pc, readfds, maxfd, fds, pos, backlog, unread, gone>>

LInit ==
  /\ pc = "down" /\ readfds = {} /\ maxfd = ListenFd /\ fds = {} /\ pos = 0
  /\ backlog = 0 /\ unread = {} /\ gone = {}

Start ==
  /\ pc = "down"
  /\ pc' = "select"
  /\ readfds' = {ListenFd}
  /\ maxfd' = ListenFd
  /\ UNCHANGED <<fds, pos, backlog, unread, gone>>

\* The process ends, and with it all its sockets.
Exit ==
  /\ pc' = "down" /\ readfds' = {} /\ maxfd' = ListenFd /\ fds' = {} /\ pos' = 0
  /\ backlog' = 0 /\ unread' = {} /\ gone' = {}

-----------------------------------------------------------------------------
(* The clients.                                                            *)

Connect ==
  /\ pc # "down"
  /\ backlog < MaxBacklog
  /\ backlog' = backlog + 1
  /\ UNCHANGED <<pc, readfds, maxfd, fds, pos, unread, gone>>

Send(f) ==
  /\ f \in readfds \ gone
  /\ unread' = unread \cup {f}
  /\ UNCHANGED <<pc, readfds, maxfd, fds, pos, backlog, gone>>

Leave(f) ==
  /\ f \in readfds
  /\ gone' = gone \cup {f}
  /\ UNCHANGED <<pc, readfds, maxfd, fds, pos, backlog, unread>>

-----------------------------------------------------------------------------
(* The server.                                                             *)

Ready(f) == IF f = ListenFd THEN backlog > 0 ELSE f \in unread \cup gone

\* A timeout of select() changes nothing, so only a result is a step.
Select ==
  /\ pc = "select"
  /\ fds' = {f \in readfds : f <= maxfd /\ Ready(f)}
  /\ fds' # {}
  /\ pos' = 0
  /\ pc' = "scan"
  /\ UNCHANGED <<readfds, maxfd, backlog, unread, gone>>

\* Seeded fault: the pass does not stop at maxfd.
SkipForever ==
  /\ pc = "scan" /\ pos \notin fds
  /\ pos' = pos + 1
  /\ UNCHANGED <<pc, readfds, maxfd, fds, backlog, unread, gone>>

Skip ==
  /\ pc = "scan" /\ pos <= maxfd /\ pos \notin fds
  /\ pos' = pos + 1
  /\ UNCHANGED <<pc, readfds, maxfd, fds, backlog, unread, gone>>

EndScan ==
  /\ pc = "scan" /\ pos > maxfd
  /\ pc' = "select"
  /\ UNCHANGED <<readfds, maxfd, fds, pos, backlog, unread, gone>>

At(f) == pc = "scan" /\ pos <= maxfd /\ pos = f /\ f \in fds

LowestFree(f) == f \in Conns \ readfds /\ \A g \in Conns \ readfds : f <= g

\* Seeded fault: the new connection joins the running pass.
AcceptIntoPass(f) ==
  /\ At(ListenFd) /\ LowestFree(f)
  /\ readfds' = readfds \cup {f}
  /\ fds' = fds \cup {f}
  /\ maxfd' = IF f > maxfd THEN f ELSE maxfd
  /\ backlog' = backlog - 1
  /\ pos' = pos + 1
  /\ UNCHANGED <<pc, unread, gone>>

\* Seeded fault: maxfd is not raised.
AcceptUnseen(f) ==
  /\ At(ListenFd) /\ LowestFree(f)
  /\ readfds' = readfds \cup {f}
  /\ backlog' = backlog - 1
  /\ pos' = pos + 1
  /\ UNCHANGED <<pc, maxfd, fds, unread, gone>>

Accept(f) ==
  /\ At(ListenFd) /\ LowestFree(f)
  /\ readfds' = readfds \cup {f}
  /\ maxfd' = IF f > maxfd THEN f ELSE maxfd
  /\ backlog' = backlog - 1
  /\ pos' = pos + 1
  /\ UNCHANGED <<pc, fds, unread, gone>>

\* accept() fails with EINTR, EAGAIN or ENFILE: try again in a later pass.
AcceptLater ==
  /\ At(ListenFd)
  /\ pos' = pos + 1
  /\ UNCHANGED <<pc, readfds, maxfd, fds, backlog, unread, gone>>

\* accept() fails with EMFILE.
AcceptFull == At(ListenFd) /\ Conns \subseteq readfds /\ Exit

\* read() takes all there is, or the first 512 bytes of it.
Read(f) == At(f) /\ f \in Conns /\ f \in unread

\* Seeded fault: the pass ends with the connection it has handled.
ReadKeepBreak(f) ==
  /\ Read(f)
  /\ unread' \in {unread, unread \ {f}}
  /\ pc' = "select"
  /\ UNCHANGED <<readfds, maxfd, fds, pos, backlog, gone>>

ReadKeep(f) ==
  /\ Read(f)
  /\ unread' \in {unread, unread \ {f}}
  /\ pos' = pos + 1
  /\ UNCHANGED <<pc, readfds, maxfd, fds, backlog, gone>>

ReqClose(f) ==
  /\ readfds' = readfds \ {f}
  /\ unread' = unread \ {f}
  /\ gone' = gone \ {f}

ReadClose(f) ==
  /\ Read(f)
  /\ ReqClose(f)
  /\ pos' = pos + 1
  /\ UNCHANGED <<pc, maxfd, fds, backlog>>

\* read() returns 0.
ReadEOF(f) ==
  /\ At(f) /\ f \in Conns /\ f \in gone \ unread
  /\ ReqClose(f)
  /\ pos' = pos + 1
  /\ UNCHANGED <<pc, maxfd, fds, backlog>>

\* read() fails, or what it returns has no end of line.
ReadExit(f) == At(f) /\ f \in Conns /\ Ready(f) /\ Exit

\* A signal ends the server anywhere: SIGPIPE, which nobody ignores, comes
\* from an answer to a client that is gone.
Kill == pc # "down" /\ Exit

-----------------------------------------------------------------------------

Handle(f) ==
  \/ Accept(f) \/ ReadKeep(f) \/ ReadClose(f) \/ ReadEOF(f) \/ ReadExit(f)

Server ==
  \/ Select \/ Skip \/ EndScan \/ AcceptLater \/ AcceptFull
  \/ \E f \in Conns : Handle(f)

Clients == Connect \/ \E f \in Conns : Send(f) \/ Leave(f)

LNext == Start \/ Server \/ Clients \/ Kill

\* The process is scheduled; clients need not do anything.
LSpec == LInit /\ [][LNext]_lvars /\ WF_lvars(Server)

-----------------------------------------------------------------------------
(* Properties.                                                             *)

\* The pass stays within the descriptor table, only connections have input.
TypeOK ==
  /\ pc \in {"down", "select", "scan"}
  /\ readfds \subseteq {ListenFd} \cup Conns
  /\ maxfd \in ListenFd .. NumFds - 1
  /\ fds \subseteq {ListenFd} \cup Conns
  /\ pos \in 0 .. NumFds
  /\ backlog \in 0 .. MaxBacklog
  /\ unread \subseteq readfds \cap Conns
  /\ gone \subseteq readfds \cap Conns

\* The result of select() is a snapshot, and handlers close and open
\* descriptors while it is in use: still, what is left of the pass has input,
\* so no read() and no accept() of the loop ever blocks.
NeverBlocks ==
  pc = "scan" => \A f \in fds : f >= pos => f \in readfds /\ Ready(f)

\* select() and the pass, which look no further than maxfd, see every
\* open descriptor.
AllSeen == pc # "down" => readfds \subseteq 0 .. maxfd

\* No client starves, however busy the others are: input, and a connection
\* request, is handled unless the program ends.
Served ==
  \A f \in {ListenFd} \cup Conns :
    (f \in readfds /\ Ready(f)) ~> (At(f) \/ pc = "down")

=============================================================================
