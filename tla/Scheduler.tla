----------------------------- MODULE Scheduler -----------------------------
(***************************************************************************)
(* The cooperative threads of hw3 (threadtools.h, scheduler.c, threads.c). *)
(* A thread runs until it asks for input, ends, or, at the yield that      *)
(* closes each round of its loop, finds a signal pending; it then jumps to *)
(* the scheduler, which jumps back into a ready thread.  Signals are       *)
(* blocked everywhere but in the yield.  A thread either reads its FIFO in *)
(* each round or never does, and any round may be its last one: what the   *)
(* rounds compute, and when they end, is in ThreadFunctions.               *)
(***************************************************************************)
EXTENDS Integers, Sequences, FiniteSets

CONSTANTS
  Threads,     \* the threads in the order of their creation
  Readers,     \* those that call async_read in each round
  Inputs,      \* the numbers somebody may write into a FIFO
  timeslice,   \* the program's first argument, in seconds
  MaxFifo      \* bound: messages in a FIFO

ThreadSet == {Threads[n] : n \in DOMAIN Threads}

ASSUME ThreadsAssumption ==
  /\ Threads \in Seq(ThreadSet)
  /\ Len(Threads) <= 16                                    \* THREAD_MAX
  /\ \A m, n \in DOMAIN Threads : Threads[m] = Threads[n] => m = n
  /\ Readers \subseteq ThreadSet
  /\ Inputs \subseteq Int
  /\ timeslice \in Nat /\ MaxFifo \in Nat \ {0}

VARIABLES
  ready_queue,     \* its length is rq_size
  rq_current,      \* position of the running thread in it, from 0
  waiting_queue,   \* its length is wq_size
  pc,              \* "sched", "block", "run", "round" (one is done), "end"
  where,           \* what sigsetjmp(sched_buf) returns: why scheduler() runs
  resume,          \* tcb.environment: at the "top" of a round or in its "read"
  freed,           \* the threads whose tcb is freed
  fifo,            \* the numbers in the thread's FIFO, of five bytes each
  buf,             \* tcb.buf, as the number it stands for
  armed,           \* the alarm clock is running
  alrm, tstp       \* pending signals

vars == <<ready_queue, rq_current, waiting_queue, pc, where, resume, freed,
          fifo, buf, armed, alrm, tstp>>

RUNNING == ready_queue[rq_current + 1]

\* init_threads and start_threading.
Init ==
  /\ ready_queue = Threads /\ rq_current = 0 /\ waiting_queue = <<>>
  /\ pc = "sched" /\ where = "START"
  /\ resume = [t \in ThreadSet |-> "top"]
  /\ freed = {}
  /\ fifo = [t \in ThreadSet |-> <<>>]
  /\ buf = [t \in ThreadSet |-> 0]
  /\ armed = (timeslice > 0)
  /\ alrm = FALSE /\ tstp = FALSE

-----------------------------------------------------------------------------
(* The environment: the user's signals and input, the clock.               *)

StopKey ==
  /\ tstp' = TRUE
  /\ UNCHANGED <<ready_queue, rq_current, waiting_queue, pc, where, resume,
                 freed, fifo, buf, armed, alrm>>

Expire ==
  /\ armed
  /\ armed' = FALSE /\ alrm' = TRUE
  /\ UNCHANGED <<ready_queue, rq_current, waiting_queue, pc, where, resume,
                 freed, fifo, buf, tstp>>

\* Somebody writes the 5 bytes of a number into the FIFO of thread t.
Write(t) ==
  /\ t \in Readers \ freed /\ Len(fifo[t]) < MaxFifo
  /\ \E n \in Inputs : fifo' = [fifo EXCEPT ![t] = Append(@, n)]
  /\ UNCHANGED <<ready_queue, rq_current, waiting_queue, pc, where, resume,
                 freed, buf, armed, alrm, tstp>>

-----------------------------------------------------------------------------
(* The scheduler.                                                          *)

\* Seeded fault: a thread is woken whether its FIFO has input or not.
AnyInput(t) == TRUE

\* What select() says of a thread's descriptor.
HasInput(t) == fifo[t] # <<>>

\* The waiting threads at the positions of S, in their order.
Nth(S, k)  == CHOOSE n \in S : Cardinality({m \in S : m < n}) = k - 1
Waiting(S) == [k \in 1 .. Cardinality(S) |-> waiting_queue[Nth(S, k)]]

\* After select(): threads with input move to the end of the ready queue.
Woken  == Waiting({n \in DOMAIN waiting_queue : HasInput(waiting_queue[n])})
Asleep == Waiting({n \in DOMAIN waiting_queue : ~HasInput(waiting_queue[n])})

\* The last thread takes the place of the one at position c (from 0).
LastInto(q, c) == SubSeq([q EXCEPT ![c + 1] = q[Len(q)]], 1, Len(q) - 1)

\* Seeded fault: the position may be left behind the last thread.
KeepPosition(c, n) == c

\* The position after a removal that leaves n threads.
WrapPosition(c, n) == IF c = n THEN 0 ELSE c

\* scheduler() jumps into a thread, blocks for input, or returns.
Jump(q, w, c) ==
  /\ ready_queue' = q /\ waiting_queue' = w /\ rq_current' = c
  /\ pc' = IF q # <<>> THEN "run" ELSE IF w # <<>> THEN "block" ELSE "end"

First ==
  /\ pc = "sched" /\ where = "START"
  /\ Jump(ready_queue, waiting_queue, rq_current)
  /\ UNCHANGED <<where, resume, freed, fifo, buf, armed, alrm, tstp>>

\* Seeded fault: the waiting threads are not looked at.
YieldedUnpolled ==
  /\ pc = "sched" /\ where = "YIELD"
  /\ Jump(ready_queue, waiting_queue,
          IF rq_current + 1 = Len(ready_queue) THEN 0 ELSE rq_current + 1)
  /\ UNCHANGED <<where, resume, freed, fifo, buf, armed, alrm, tstp>>

Yielded ==
  /\ pc = "sched" /\ where = "YIELD"
  /\ LET q == ready_queue \o Woken
     IN Jump(q, Asleep, IF rq_current + 1 = Len(q) THEN 0 ELSE rq_current + 1)
  /\ UNCHANGED <<where, resume, freed, fifo, buf, armed, alrm, tstp>>

\* Seeded fault: the thread stays in the ready queue as well.
WaitsInBoth ==
  /\ pc = "sched" /\ where = "AREAD"
  /\ LET q == ready_queue \o Woken
     IN Jump(q, Append(Asleep, RUNNING),
             IF rq_current + 1 = Len(q) THEN 0 ELSE rq_current + 1)
  /\ UNCHANGED <<where, resume, freed, fifo, buf, armed, alrm, tstp>>

Waits ==
  /\ pc = "sched" /\ where = "AREAD"
  /\ LET q == LastInto(ready_queue \o Woken, rq_current)
     IN Jump(q, Append(Asleep, RUNNING), WrapPosition(rq_current, Len(q)))
  /\ UNCHANGED <<where, resume, freed, fifo, buf, armed, alrm, tstp>>

Exited ==
  /\ pc = "sched" /\ where = "EXIT"
  /\ LET q == LastInto(ready_queue \o Woken, rq_current)
     IN Jump(q, Asleep, WrapPosition(rq_current, Len(q)))
  /\ UNCHANGED <<where, resume, freed, fifo, buf, armed, alrm, tstp>>

\* Nobody is ready: select() without a timeout returns when there is input.
Unblock ==
  /\ pc = "block"
  /\ Woken # <<>>
  /\ Jump(ready_queue \o Woken, Asleep, rq_current)
  /\ UNCHANGED <<where, resume, freed, fifo, buf, armed, alrm, tstp>>

-----------------------------------------------------------------------------
(* The running thread.                                                     *)

\* async_read: it leaves for the scheduler even when its FIFO has input.
AsyncRead ==
  /\ pc = "run" /\ RUNNING \in Readers /\ resume[RUNNING] = "top"
  /\ resume' = [resume EXCEPT ![RUNNING] = "read"]
  /\ pc' = "sched" /\ where' = "AREAD"
  /\ UNCHANGED <<ready_queue, rq_current, waiting_queue, freed, fifo, buf,
                 armed, alrm, tstp>>

\* The second half of async_read, on a descriptor that never blocks: without
\* input, read() fails and the round uses what the buffer held before.
ReadRound ==
  /\ pc = "run" /\ RUNNING \in Readers /\ resume[RUNNING] = "read"
  /\ IF fifo[RUNNING] # <<>>
       THEN /\ buf'  = [buf EXCEPT ![RUNNING] = Head(fifo[RUNNING])]
            /\ fifo' = [fifo EXCEPT ![RUNNING] = Tail(@)]
       ELSE UNCHANGED <<buf, fifo>>
  /\ pc' = "round"
  /\ UNCHANGED <<ready_queue, rq_current, waiting_queue, where, resume, freed,
                 armed, alrm, tstp>>

Round ==
  /\ pc = "run" /\ RUNNING \notin Readers
  /\ pc' = "round"
  /\ UNCHANGED <<ready_queue, rq_current, waiting_queue, where, resume, freed,
                 fifo, buf, armed, alrm, tstp>>

\* thread_exit: the FIFO and the tcb are gone.
ThreadExit ==
  /\ pc = "round"
  /\ freed' = freed \cup {RUNNING}
  /\ fifo'  = [fifo EXCEPT ![RUNNING] = <<>>]
  /\ pc' = "sched" /\ where' = "EXIT"
  /\ UNCHANGED <<ready_queue, rq_current, waiting_queue, resume, buf, armed,
                 alrm, tstp>>

\* thread_yield: another round will follow.
ToNextRound ==
  /\ pc = "round"
  /\ resume' = [resume EXCEPT ![RUNNING] = "top"]

\* It unblocks SIGTSTP first, and the handler does not come back.
YieldToTstp ==
  /\ ToNextRound
  /\ tstp
  /\ tstp' = FALSE
  /\ pc' = "sched" /\ where' = "YIELD"
  /\ UNCHANGED <<ready_queue, rq_current, waiting_queue, freed, fifo, buf,
                 armed, alrm>>

\* Seeded fault: the handler does not reset the alarm.
YieldToAlarmOnce ==
  /\ ToNextRound
  /\ ~tstp /\ alrm
  /\ alrm' = FALSE
  /\ pc' = "sched" /\ where' = "YIELD"
  /\ UNCHANGED <<ready_queue, rq_current, waiting_queue, freed, fifo, buf,
                 armed, tstp>>

\* Then SIGALRM, whose handler resets the alarm.
YieldToAlarm ==
  /\ ToNextRound
  /\ ~tstp /\ alrm
  /\ alrm' = FALSE /\ armed' = (timeslice > 0)
  /\ pc' = "sched" /\ where' = "YIELD"
  /\ UNCHANGED <<ready_queue, rq_current, waiting_queue, freed, fifo, buf,
                 tstp>>

\* No signal: the thread goes on.
NoYield ==
  /\ ToNextRound
  /\ ~tstp /\ ~alrm
  /\ pc' = "run"
  /\ UNCHANGED <<ready_queue, rq_current, waiting_queue, where, freed, fifo,
                 buf, armed, alrm, tstp>>

-----------------------------------------------------------------------------

Program ==
  \/ First \/ Yielded \/ Waits \/ Exited \/ Unblock
  \/ AsyncRead \/ ReadRound \/ Round \/ ThreadExit
  \/ YieldToTstp \/ YieldToAlarm \/ NoYield

Environment == StopKey \/ Expire \/ \E t \in Readers : Write(t)

Next == Program \/ Environment

Spec == Init /\ [][Next]_vars

-----------------------------------------------------------------------------
(* Properties.                                                             *)

\* The running thread's position is inside the ready queue.
TypeOK ==
  /\ ready_queue \in Seq(ThreadSet) /\ waiting_queue \in Seq(Readers)
  /\ rq_current \in Nat
  /\ pc \in {"run", "round"} \/ (pc = "sched" /\ where # "START")
       => rq_current < Len(ready_queue)
  /\ pc \in {"sched", "block", "run", "round", "end"}
  /\ where \in {"START", "YIELD", "AREAD", "EXIT"}
  /\ resume \in [ThreadSet -> {"top", "read"}]
  /\ freed \subseteq ThreadSet
  /\ fifo \in [ThreadSet -> Seq(Inputs)]
  /\ \A t \in ThreadSet : Len(fifo[t]) <= MaxFifo
  /\ buf \in [ThreadSet -> Inputs \cup {0}]
  /\ {armed, alrm, tstp} \subseteq BOOLEAN

\* The thread that has ended and is still in the queue, with its memory gone.
Leaving == IF pc = "sched" /\ where = "EXIT" THEN {RUNNING} ELSE {}

Places(t) ==
  {<<"r", n>> : n \in {m \in DOMAIN ready_queue : ready_queue[m] = t}}
    \cup {<<"w", n>> : n \in {m \in DOMAIN waiting_queue : waiting_queue[m] = t}}

\* No thread is lost and none is queued twice by the swapping and shifting of
\* the queues; a freed tcb is out of them when the next thread runs.
OneQueue ==
  \A t \in ThreadSet :
    Cardinality(Places(t)) = IF t \in freed \ Leaving THEN 0 ELSE 1

\* A thread that comes back from async_read finds the input it waited for:
\* between select() and read() nobody takes it away, and the thread is not
\* woken for the input of another.
ReadFindsInput ==
  pc = "run" /\ resume[RUNNING] = "read" => fifo[RUNNING] # <<>>

\* The clock that makes threads share the processor never dies: it is running
\* or its signal is pending, however signals and yields interleave.
AlarmAlive == timeslice > 0 => (armed /\ ~alrm) \/ (~armed /\ alrm)

\* Every ready thread runs again, although removals move threads about in
\* the queue and woken threads keep joining it at its end.
NoStarvation ==
  \A t \in ThreadSet :
    (pc = "run" /\ \E n \in DOMAIN ready_queue : ready_queue[n] = t)
      ~> (pc \in {"run", "round"} /\ RUNNING = t)

\* A thread that waits and whose input has come is woken, even when another
\* thread never waits and nothing but the alarm interrupts it.
InputServed ==
  \A t \in Readers :
    (HasInput(t) /\ \E n \in DOMAIN waiting_queue : waiting_queue[n] = t)
      ~> (pc = "run" /\ RUNNING = t)

=============================================================================
