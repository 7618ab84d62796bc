----------------------------- MODULE HandleRead -----------------------------
(***************************************************************************)
(* One connection of write_server from the client's bytes to the answer:   *)
(* handle_read() cuts a line out of what one read() returns, and get3Num() *)
(* scans it.  TCP delivers a stream: the pieces a server reads need not be *)
(* the lines a client wrote.  What the server answers is in Booking.       *)
(***************************************************************************)
EXTENDS Get3Num

CONSTANTS
  Id,        \* the characters of a good id
  Ids,       \* the ids clients write
  BufSize    \* size of the buffer of handle_read (512 in the program)

ASSUME BufAssumption ==
  /\ Id \in Ids /\ Ids \subseteq Seq(Alphabet)
  /\ BufSize \in Nat
  \* No end of line is within a line.
  /\ Alphabet \cap {"CR", "LF"} = {}
  \* A line and its end always fit.
  /\ \A line \in Ids \cup Lines : Len(line) + 2 <= BufSize

Eols == {<<"LF">>, <<"CR", "LF">>}
CtrlC == <<"IAC", "IP">>

VARIABLES
  patient,   \* the client writes when it is prompted, or all at once
  lines,     \* its two lines: the id and the booking command
  sent,      \* how many of them it has written
  eol,       \* its end of line
  flight,    \* bytes written and not yet arrived
  socket,    \* bytes arrived and not yet read
  hungup,    \* the client has closed its end
  state      \* READ_ID, READ_OPR, "closed", or "exit": the server has ended

client == <<patient, lines, sent, eol, hungup>>
parser == <<s, i, j, chk, opr, result>>
hvars  == <<client, flight, socket, state, parser>>

HInit ==
  /\ patient \in BOOLEAN /\ eol \in Eols
  /\ lines \in {<<id, line>> : id \in Ids, line \in Lines} /\ sent = 0
  /\ flight = <<>> /\ socket = <<>> /\ hungup = FALSE
  /\ state = "READ_ID"
  /\ s = <<>> /\ i = 1 /\ j = 0 /\ chk = FALSE /\ opr = [n \in 0 .. 2 |-> 0]
  /\ result = "idle"

Open == state \in {"READ_ID", "READ_OPR"}

-----------------------------------------------------------------------------
(* The client and the network.                                             *)

MayWrite ==
  /\ Open /\ ~hungup /\ sent < 2
  /\ patient /\ sent = 1 => state = "READ_OPR"

SendLine ==
  /\ MayWrite
  /\ sent' = sent + 1
  /\ flight' = flight \o lines[sent'] \o eol
  /\ UNCHANGED <<patient, lines, eol, hungup, socket, state, parser>>

\* Ctrl+C of telnet, then nothing more.
Interrupt ==
  /\ MayWrite
  /\ sent' = 2
  /\ flight' = flight \o CtrlC
  /\ UNCHANGED <<patient, lines, eol, hungup, socket, state, parser>>

HangUp ==
  /\ Open /\ ~hungup
  /\ hungup' = TRUE
  /\ UNCHANGED <<patient, lines, sent, eol, flight, socket, state, parser>>

\* The bytes arrive in order, in pieces of any size.
Deliver ==
  /\ Open
  /\ \E n \in 1 .. Len(flight) :
       /\ socket' = socket \o SubSeq(flight, 1, n)
       /\ flight' = SubSeq(flight, n + 1, Len(flight))
  /\ UNCHANGED <<client, state, parser>>

-----------------------------------------------------------------------------
(* The server.                                                             *)

Readable == Open /\ result = "idle"

\* What one read() returns.
Buffer == SubSeq(socket, 1, IF Len(socket) < BufSize THEN Len(socket) ELSE BufSize)

LineFeeds(b) == {p \in DOMAIN b : b[p] = "LF"}
CrLfs(b)     == {p \in DOMAIN b : p + 1 \in LineFeeds(b) /\ b[p] = "CR"}

First(ps) == CHOOSE p \in ps : \A q \in ps : p <= q

\* The first CR LF anywhere in the buffer, and only without one the first LF.
EndOfLine(b) == IF CrLfs(b) # {} THEN First(CrLfs(b)) ELSE First(LineFeeds(b))

\* The id of a connection: it is shown its record, or it is refused.
TakeId(line) ==
  /\ state = "READ_ID"
  /\ state' = IF line = Id THEN "READ_OPR" ELSE "closed"
  /\ UNCHANGED parser

\* The call of get3Num.
TakeCommand(line) ==
  /\ state = "READ_OPR"
  /\ s' = line /\ i' = 1 /\ j' = 0 /\ chk' = FALSE
  /\ opr' = [n \in 0 .. 2 |-> 0]
  /\ result' = "start"
  /\ UNCHANGED state

\* Seeded fault: a buffer without an end of line is a line, too.
TakeAnything ==
  /\ Readable /\ Buffer # <<>>
  /\ LET line == IF LineFeeds(Buffer) = {} THEN Buffer
                 ELSE SubSeq(Buffer, 1, EndOfLine(Buffer) - 1)
     IN TakeId(line) \/ TakeCommand(line)
  /\ socket' = SubSeq(socket, Len(Buffer) + 1, Len(socket))
  /\ UNCHANGED <<client, flight>>

\* Only the first line is used: what was read behind it is dropped.
TakeLine ==
  /\ Readable /\ LineFeeds(Buffer) # {}
  /\ LET line == SubSeq(Buffer, 1, EndOfLine(Buffer) - 1)
     IN TakeId(line) \/ TakeCommand(line)
  /\ socket' = SubSeq(socket, Len(Buffer) + 1, Len(socket))
  /\ UNCHANGED <<client, flight>>

\* Ctrl+C and the end of file both end the connection; a read() that fails is
\* in Booking.
Disconnected ==
  /\ Readable
  /\ \/ socket = <<>> /\ flight = <<>> /\ hungup
     \/ /\ Buffer # <<>> /\ LineFeeds(Buffer) = {}
        /\ IsPrefix(CtrlC, Buffer)
  /\ state' = "closed"
  /\ UNCHANGED <<client, flight, socket, parser>>

\* "this really should not happen..."
NoNewline ==
  /\ Readable /\ Buffer # <<>> /\ LineFeeds(Buffer) = {}
  /\ ~IsPrefix(CtrlC, Buffer)
  /\ state' = "exit"
  /\ UNCHANGED <<client, flight, socket, parser>>

Scan == Next /\ UNCHANGED <<client, flight, socket, state>>

\* Seeded fault: a bad command is refused, but its connection stays.
AnswerBadStays ==
  /\ Open /\ result \in {"true", "false"}
  /\ state' = IF result = "true" THEN "closed" ELSE state
  /\ result' = IF result = "true" THEN result ELSE "idle"
  /\ UNCHANGED <<client, flight, socket, s, i, j, chk, opr>>

\* Whatever get3Num says, its answer ends the connection.
Answer ==
  /\ Open /\ result \in {"true", "false"}
  /\ state' = "closed"
  /\ UNCHANGED <<client, flight, socket, parser>>

HServer == TakeLine \/ Disconnected \/ NoNewline \/ Scan \/ Answer

HNext == SendLine \/ Interrupt \/ HangUp \/ Deliver \/ HServer

\* What is written arrives, and the server runs.
HSpec == HInit /\ [][HNext]_hvars /\ WF_hvars(Deliver) /\ WF_hvars(HServer)

-----------------------------------------------------------------------------
(* Properties.                                                             *)

Bytes == Alphabet \cup {"CR", "LF", "IAC", "IP"}

\* The scan stays in its line and the numbers in the range of int; and get3Num
\* writes beyond opr[] only on a line with a digit behind its third space, and
\* on each such line unless it refuses it before.
HTypeOK ==
  /\ patient \in BOOLEAN /\ hungup \in BOOLEAN /\ eol \in Eols
  /\ lines \in Seq(Seq(Alphabet)) /\ sent \in 0 .. 2
  /\ flight \in Seq(Bytes) /\ socket \in Seq(Bytes)
  /\ state \in {"READ_ID", "READ_OPR", "closed", "exit"}
  /\ s \in Seq(Bytes) /\ i \in 1 .. Len(s) + 1 /\ j \in 0 .. Len(s)
  /\ chk \in BOOLEAN /\ opr \in [0 .. 2 -> CInts]
  /\ result \in {"idle", "start", "scan", "true", "false", "undefined"}
  /\ result = "undefined" => ~InBounds(s)
  /\ result = "true" => InBounds(s)

\* The line handed to get3Num is a booking command exactly if it is accepted,
\* and each number is the value of its field, modulo the range of int, unless
\* it is the last one of a line with less than three, whose sign is lost
\* (server.c:118).
CommandRight ==
  result \in {"true", "false"} =>
    /\ (result = "true") <=> WellFormed(s)
    /\ result = "true" =>
         \A n \in 0 .. 2 : n # Spaces(s) \/ n = 2 => opr[n] = Wrap(Signed(s, n))

\* A piece of a line is never taken for a line, nor one line for another:
\* a client that waits is let in by its whole id, and what get3Num is called
\* with is its whole command, once.
WholeLines ==
  [][patient =>
       /\ state = "READ_ID" /\ state' = "READ_OPR" => lines[1] = Id
       /\ result # "start" /\ result' = "start" =>
            state = "READ_OPR" /\ result = "idle" /\ sent = 2 /\ s' = lines[2]]_hvars

\* A client that waits for the answers gets them: no line of it is dropped
\* while the server lives, and has not written beyond opr[].
Answered ==
  /\ (patient /\ sent = 1) ~> (state # "READ_ID")
  /\ (patient /\ sent = 2) ~> (~Open \/ result = "undefined")

\* "this really should not happen...", says handle_read (server.c:145) where
\* it ends the server.  A line that arrives in two pieces makes it happen.
ReallyNotHappens == state # "exit"
=============================================================================
