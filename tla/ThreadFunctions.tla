-------------------------- MODULE ThreadFunctions --------------------------
(***************************************************************************)
(* The thread functions of hw3 (threads.c) on top of its scheduler.  Their *)
(* variables live in the tcb, since the frames of the functions do not     *)
(* survive a switch.  Each round prints a number and sleeps for a second.  *)
(***************************************************************************)
EXTENDS Scheduler, CInt, SequencesExt, FiniteSetsExt

CONSTANTS
  function,   \* what each thread runs: fibonacci, collatz or max_subarray
  Args,       \* the arguments the threads may be created with
  MaxRound    \* bound: the round counter i stays here once it is reached

ASSUME FunctionsAssumption ==
  /\ function \in [ThreadSet -> {"fibonacci", "collatz", "max_subarray"}]
  /\ Readers = {t \in ThreadSet : function[t] = "max_subarray"}
  /\ IntHalf \in Nat /\ IntHalf > 1
  \* They have at most five characters.
  /\ Inputs \subseteq CInts /\ \A m, n \in Inputs : m + n \in CInts
  /\ Args \subseteq [ThreadSet -> CInts \cap Nat]
  /\ MaxRound \in Nat /\ MaxRound > 2
  \* i = MaxRound neither ends a thread nor starts a Fibonacci sequence.
  /\ \A a \in Args, t \in ThreadSet :
       function[t] # "collatz" => a[t] < MaxRound

VARIABLES
  arg, i, x, y,   \* the fields of the tcb
  asked,          \* history: the argument the thread was created with
  written         \* history: what was written into its FIFO

fields == <<arg, i, x, y>>
fvars  == <<vars, fields, asked, written>>

\* thread_setup, and i = 1 of each loop.
FInit ==
  /\ Init
  /\ asked \in Args /\ arg = asked
  /\ i = [t \in ThreadSet |-> 1]
  /\ x = [t \in ThreadSet |-> 0] /\ y = x
  /\ written = [t \in ThreadSet |-> <<>>]

-----------------------------------------------------------------------------
(* One round of each function.                                             *)

\* Seeded fault: x and y are variables of the function, not of the thread.
FibonacciShared ==
  /\ Round /\ function[RUNNING] = "fibonacci"
  /\ IF i[RUNNING] <= 2
       THEN /\ x' = [t \in ThreadSet |-> 1]
            /\ y' = [t \in ThreadSet |-> 1]
       ELSE /\ x' = [t \in ThreadSet |-> y[RUNNING]]
            /\ y' = [t \in ThreadSet |-> Wrap(x[RUNNING] + y[RUNNING])]
  /\ UNCHANGED <<arg, i, asked, written>>

fibonacci ==
  /\ Round /\ function[RUNNING] = "fibonacci"
  /\ IF i[RUNNING] <= 2
       THEN /\ x' = [x EXCEPT ![RUNNING] = 1]
            /\ y' = [y EXCEPT ![RUNNING] = 1]
       ELSE /\ x' = [x EXCEPT ![RUNNING] = y[RUNNING]]
            /\ y' = [y EXCEPT ![RUNNING] = Wrap(x[RUNNING] + @)]
  /\ UNCHANGED <<arg, i, asked, written>>

\* C truncates a quotient towards zero; the remainder of an odd negative
\* number is -1, which is true.
Half(n) == IF n >= 0 THEN n \div 2 ELSE -((-n) \div 2)

collatz ==
  /\ Round /\ function[RUNNING] = "collatz"
  /\ arg' = [arg EXCEPT ![RUNNING] =
               IF @ % 2 = 1 THEN Wrap(Wrap(@ * 3) + 1) ELSE Half(@)]
  /\ UNCHANGED <<i, x, y, asked, written>>

\* The number is taken from the buffer: what ReadRound has put there.
max_subarray ==
  /\ ReadRound
  /\ LET add == buf'[RUNNING]
         sum == Wrap(y[RUNNING] + add)
     IN /\ y' = [y EXCEPT ![RUNNING] = IF sum > add THEN sum ELSE add]
        /\ x' = [x EXCEPT ![RUNNING] = IF @ > y'[RUNNING] THEN @ ELSE y'[RUNNING]]
  /\ UNCHANGED <<arg, i, asked, written>>

LastRound ==
  IF function[RUNNING] = "collatz" THEN arg[RUNNING] = 1
                                   ELSE arg[RUNNING] = i[RUNNING]

Exits ==
  /\ ThreadExit /\ LastRound
  /\ UNCHANGED <<fields, asked, written>>

\* thread_yield, and i++ when the thread comes back.
Continues ==
  /\ YieldToTstp \/ YieldToAlarm \/ NoYield
  /\ ~LastRound
  /\ i' = [i EXCEPT ![RUNNING] = IF @ < MaxRound THEN @ + 1 ELSE @]
  /\ UNCHANGED <<arg, x, y, asked, written>>

\* Steps of the scheduler that touch no field of a thread.
Switches ==
  /\ First \/ Yielded \/ Waits \/ Exited \/ Unblock \/ AsyncRead
  /\ UNCHANGED <<fields, asked, written>>

FStopKey ==
  /\ StopKey
  /\ UNCHANGED <<fields, asked, written>>

FExpire ==
  /\ Expire
  /\ UNCHANGED <<fields, asked, written>>

Feed(t) ==
  /\ Write(t)
  /\ written' = [written EXCEPT ![t] = Append(@, Last(fifo'[t]))]
  /\ UNCHANGED <<fields, asked>>

FProgram == fibonacci \/ collatz \/ max_subarray \/ Exits \/ Continues \/ Switches

FNext == FProgram \/ FStopKey \/ FExpire \/ \E t \in Readers : Feed(t)

\* The program never stops by itself, and the clock runs.
FSpec == FInit /\ [][FNext]_fvars /\ WF_fvars(FProgram) /\ WF_fvars(FExpire)

\* Every FIFO is written to again and again.
FedSpec == FSpec /\ \A t \in Readers : WF_fvars(Feed(t))

-----------------------------------------------------------------------------
(* What each function computes when it runs alone, with unbounded integers. *)

Fibonacci[n \in Nat] == IF n <= 2 THEN 1 ELSE Fibonacci[n - 1] + Fibonacci[n - 2]

CollatzFrom(n) ==
  LET orbit[r \in Nat] ==
        IF r = 0 THEN n
        ELSE IF orbit[r - 1] % 2 = 1 THEN 3 * orbit[r - 1] + 1
                                     ELSE orbit[r - 1] \div 2
  IN orbit

\* The sum of the first b numbers of s, for each b.
Sums(s) == LET Sum[b \in 0 .. Len(s)] == IF b = 0 THEN 0 ELSE Sum[b - 1] + s[b]
           IN Sum

\* The sums of consecutive numbers of s.
Stretches(s) ==
  {p \in (0 .. Len(s)) \X (0 .. Len(s)) : p[1] <= p[2]}

\* The greatest of them, or 0 if all are negative.
BestSum(s) == Max({Sums(s)[p[2]] - Sums(s)[p[1]] : p \in Stretches(s)})

-----------------------------------------------------------------------------
(* Properties.                                                             *)

\* The fields are numbers of the machine, and the state of the scheduler is
\* as it should be.
FunctionsTypeOK ==
  /\ TypeOK
  /\ \A f \in {arg, x, y} : f \in [ThreadSet -> CInts]
  /\ i \in [ThreadSet -> 1 .. MaxRound]
  /\ asked \in Args
  /\ written \in [ThreadSet -> Seq(Inputs)]

\* What a thread prints in its round i is what its function computes alone,
\* for a reader from the first i numbers written into its FIFO, although other
\* threads ran between its rounds: switches lose, repeat and mix up nothing.
\* (While the numbers, and those they come from, fit in an int.)
AnswersRight ==
  pc = "round" /\ i[RUNNING] < MaxRound =>
    LET t == RUNNING
        orbit == CollatzFrom(asked[t])
    IN CASE function[t] = "fibonacci" ->
              y[t] = Wrap(Fibonacci[i[t]])
         [] function[t] = "collatz" ->
              (\A r \in 1 .. i[t] : orbit[r] \in CInts) => arg[t] = orbit[i[t]]
         [] function[t] = "max_subarray" ->
              BestSum(SubSeq(written[t], 1, i[t])) \in CInts
                => x[t] = BestSum(SubSeq(written[t], 1, i[t]))

\* The functions that end when they run alone.
Ends(t) ==
  IF function[t] = "collatz"
    THEN \E r \in 1 .. MaxRound :
           /\ CollatzFrom(asked[t])[r] = 1
           /\ \A n \in 1 .. r : CollatzFrom(asked[t])[n] \in CInts
    ELSE asked[t] > 0

\* A program whose threads' functions all end, ends, when its readers are fed:
\* no thread is left behind in a queue.
Terminates == (\A t \in ThreadSet : Ends(t)) => <>(pc = "end")
=============================================================================
