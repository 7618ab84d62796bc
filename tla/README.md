# Verification of the four programs

The repository holds four C programs that share no code: booking servers (hw1),
a tournament of processes (hw2), a library of cooperative threads (hw3) and a
parallel merge sort (hw4). This directory models each of them in TLA+, checks
the models with TLC on small instances and proves most of their safety properties
for all instances with TLAPS: any number of servers, connections and records, any
tree of battles, any threads, lists of any length.

`tlc -config X.cfg M` checks a run, `tlapm M.tla` the proofs of a module.
`PROJECT.json` lists the runs, the seeded faults every property is known to
catch, the source lines of every definition, the hazards and the theorems.

## 1. Inventory

### hw1: booking servers (`hw1_csiebooking-YuXiangLo/server.c`)

Compiled twice: `read_server` shows a user's bookings, `write_server` shows and
changes them. Any number of both processes run over one file, `bookingRecord`,
of 20 records.

| part | state | operations |
|---|---|---|
| session handling (main, 226-343) | `requestP[fd]` (state, id), `vis`, `readCnt` | accept, EOF, user id, command, Exit, errors |
| record locks (`lock`, `test`, 75-98) | the kernel's lock table, one owner per process | F_GETLK, F_SETLK |
| the file | 20 records of three amounts | read, write |
| select loop (194-203) | `readfds`, `maxfd`, `fds` | select, pass over the result |
| line reader (`handle_read`, 122-153) | the bytes of one `read()`, kept nowhere else | one line out of them |
| command parser (`get3Num`, 100-120) | `opr`, position, sign | one scan of the line |
| set-up (`init_server`) | the listening socket | not modelled |

Processes interact through the file and the kernel's locks only; within a
process handlers run one after the other, but each is a series of system calls
between which other processes run. Sessions may end by a command, an error, a
disconnection before or after the user id, or the death of the server
(`ERR_EXIT`), after which it may be started again.
*Correct* means: a record that is being written is in one session's hands; what
a client was shown is what its command is applied to; locks, marks and counts
live exactly as long as the sessions they stand for; no booking is negative or
beyond the limit; no client can stop or starve the loop; a line is taken whole or
not at all, whatever the pieces it arrives in, and is answered.

### hw2: tournament (`battle.c`, `player.c`)

A binary tree of 29 processes: battle A at the root forks its two sides, down to
players. Children and parent exchange `Status` records over two pipes. A battle
runs rounds until one side falls, reaps the loser, and then relays its winner's
messages to its own parent. A beaten real player passes its status through a
FIFO to the agent (player 8-14) named by `lose[]`.
*State*: tables `left`, `right`, `lose`, `ATTR`; per battle `remain`, `Player`;
per player `p`, `originHP`; pipes and FIFOs.
*Correct* means: the tree terminates with no process left; each pipe carries one
status at a time; nobody reads an end of file or writes to a closed pipe; the
outcome is that of a double elimination, with the HP that counting blows gives.

### hw3: threads (`threadtools.h`, `scheduler.c`, `threads.c`, `main.c`)

Threads are stack frames resumed with `siglongjmp`. The scheduler keeps a ready
queue (with `rq_current`) and a waiting queue; a thread gives up the processor
when it reads, ends, or finds SIGTSTP or SIGALRM pending at the yield that closes
its round. The three thread functions (fibonacci, collatz, max_subarray) keep what
they compute with in the tcb.
*Correct* means: no thread is lost or queued twice, none starves, a woken reader
finds its input, the alarm never dies, each thread prints what its function would
compute alone, and the program ends when its threads do.

### hw4: merge sort (`server.c`, `lib.c`)

`Filter` copies the movies that match a request and scores them. `tserver` sorts
every request with a tree of threads over a shared array,
`pserver` the first one with a tree of processes over a shared mapping. Forked
children return through their copy of the stack into `main` and write the output
file as well.
*Correct* means: concurrent workers touch disjoint positions, merges see finished
halves, and the file ends up with the right movies in order.

## 2. Modules

| module | models | uses |
|---|---|---|
| `CInt` | C's `int` with wrap-around | |
| `Booking` | any number of read and write servers over one file | `CInt` |
| `Reservation` | abstract: one edit at a time, applied to what was seen | |
| `BookingRefinement` | the mapping from `Booking` to `Reservation` | `Booking`, `Reservation` |
| `BookingProofs` | theorems about `Booking`, and that it implements `Reservation` | `BookingRefinement` |
| `SelectLoop` | the main loop of one server | |
| `Get3Num` | the command parser, with a grammar as reference | `CInt` |
| `HandleRead` | one connection: the client, the network, `handle_read`, and `Get3Num` called | `Get3Num` |
| `InputProofs` | theorems about `SelectLoop` and about `HandleRead` | `SelectLoop`, `HandleRead`, `Numbers` |
| `Bracket` | abstract: the tournament, each battle decided at once | |
| `Championship` | battles and players of hw2, and the mapping to `Bracket` | `Bracket` |
| `ChampionshipProofs` | theorems about `Championship` | `Championship` |
| `Scheduler` | scheduler, yields, signals and asynchronous reads of hw3 | |
| `ThreadFunctions` | the thread functions of hw3, composed with their scheduler | `Scheduler`, `CInt` |
| `Numbers` | lemmas: induction over numbers, functions defined by recursion, remainders | |
| `ThreadFunctionsProofs` | theorems about `Scheduler` and about `ThreadFunctions` | `ThreadFunctions`, `Numbers` |
| `Sorting` | filter, sequential sort, merge and the segments of hw4, with a reference order | |
| `SortingProofs` | lemmas about the operators of `Sorting` | `Sorting`, `Numbers` |
| `ThreadSort`, `ProcessSort` | `tserver` and `pserver` | `Sorting` |
| `ThreadSortProofs`, `ProcessSortProofs` | theorems about the two | `SortingProofs` |
| `MC...` | instances for TLC | |

Definitions carry the names of the source where they can. Operators called a
*seeded fault* are not part of a model: each is a plausible mistake in the
definition that follows it, kept to show that a property would notice.

**Booking.** A handler is one action, or several where it makes more than one
system call that other processes can see: `IdFree` (test) - `TakeLock` (lock,
`vis`/`readCnt`) - `Show` (read); `Command` (read and add) - `Commit` (write,
`reqClose`) - `Unlock`. `pc` says where a server stands between them, and as the
program has one thread per server, nothing else of that server runs meanwhile.
A line a client sends is represented by the action it leads to (`BadId`, `IdFree`,
`Command`, ...), since only the first line of a read is used. `Exit` is what the
kernel does when a process ends. `shown` and `refused` are history variables.

**SelectLoop** is the other half of the same process: what `Booking` leaves out
(which descriptor is looked at when) and nothing of what is in it. The handlers
keep, close or end.

**Get3Num** has one action per branch of the loop body. A digit that would be stored
beyond `opr[2]` is undefined behaviour: there the model ends in the result `"undefined"`
(`Stray`), and nothing is said of what follows. Which lines that are (`InBounds`) belongs to the
reference. `s[-1]` of an empty line is the top byte of `conn_fd`, which is 0.

**HandleRead** puts the parser behind its input. A client writes its id and its
command, one after the other as it is prompted (`patient`) or ahead; the network
delivers the bytes in order, in pieces of any size; `TakeLine` cuts a line out of
what one `read()` returns and drops the rest; the steps of `Get3Num` follow. Ctrl+C,
the end of file and a piece without an end of line are the other outcomes. What
is answered, and what a failing `read()` does, is in `Booking`.

**Championship.** A process moves from one blocking call to the next in a single
action: its writes go to pipes that have room and touch nobody else. The two
reads of a battle are one action, for nothing is observable between them. A FIFO
is opened by both ends in one action (`HandOver`), as `open` makes them meet.
`losses` is a history variable.

**Bracket** has no processes: a battle whose two sides are known is decided in one
step by counting how many blows each side stands, instead of playing rounds. The
mapping reads the result of a battle off the statuses of its last round.

**Scheduler.** The macros of `threadtools.h` are actions of the running thread;
`scheduler()` is one action per reason for entering it (`First`, `Yielded`, `Waits`,
`Exited`) plus `Unblock` for its blocking `select`. Signals are delivered only in
`thread_yield`, where they are unblocked, first SIGTSTP, then SIGALRM. A thread
reads in each round or never, and any round may be its last.

**ThreadFunctions** conjoins one round of each function with the scheduler's action
for it (`Round`, `ReadRound`, `ThreadExit` and the yields) and says when the last
round is. `asked` and `written` are history variables, which the reference
computations start from. An endless thread's counter stops at `MaxRound`, where it
makes no difference any more.

**ThreadSort, ProcessSort.** A worker's number is the code's `num`/`id`, so its
children are `2n` and `2n+1`. A merge computes its result (`Merge`) and copies it
back (`CopyBack`) in two actions in the threads' version; in the processes'
version each process writes its own segment in one action. A movie is a
score and a rank of its title; in the catalogue it has keywords and a profile, from
which `Filter` makes the list. A request that matches nothing may crash the process
(`SortNothing`). A segment is a record of the positions `st` and `end` (`l` and `r`
in `Pmerge`), and both programs halve it in the same way, so its operators stand in
`Sorting`. `out` becomes `Garbled` when two processes write
the file after the last truncation.

## 3. Runs

| run | instance | shows |
|---|---|---|
| `booking` | 1 read + 1 write server, 2 connections each, 2 records, limit 1 | six invariants of the sessions; `Booking` implements `Reservation` |
| `select_loop` | 3 connections, backlog 2 | never blocks, never overlooks, never starves |
| `command_line` | all commands of up to 4 of `-`, space, `1`, `9`, `x`, some of 3 numbers and one of 4; LF and CR LF; patient clients and others; every split of the bytes; int of 7 bits | accepts exactly the grammar, computes the numbers, stores nothing beyond `opr[]` but a fourth number, takes lines whole, answers them |
| `threads` | fibonacci, collatz and two max_subarray; all end, or collatz(0) does not | queues, input, alarm, starvation, results, termination |
| `championship` | 4 players, 6 battles, 3 agents, 19 rosters, all interleavings | lockstep, no end of file, right reaping, double elimination, termination; implements `Bracket` |
| `full_bracket` | the program's 14 battles and 15 players, 256 rosters, one schedule | the tables are a double elimination that ends |
| `thread_sort` | 2 requests of 0, 1, 4 or 5 movies each, up to 7 threads each | disjointness, right files, termination |
| `process_sort` | a request of 0, 1, 3, 4 or 5 movies with scores in any distribution, 7 processes | the same for the mapping, and the file written by all |

Four runs are expected to find a violation (section 6).

**Why the bounds suffice.** *booking*: two records tell the first record, which the
code treats differently by accident, from any other; two connections per server
are what it takes for two sessions to meet; commands cross both the lower bound
and the limit (amounts that wrap around have a run of their own, `overflow`); each server may die and restart at any time. The theorems of
section 5 lift these results to all numbers, among them the exclusion between
several write servers (`Exclusion`). *select_loop*: three connections
allow one being accepted, one closed and one read in a single pass; descriptors
are reused and the table can be full. *command_line*: four characters hold two signed digits or
two overflowing ones, with every misplaced sign and space; the longer lines add
three numbers; a client that writes ahead fills more than one buffer. *threads*:
with four threads a removal moves a thread over another one in the middle of the
queue, and two readers wait at once (main itself creates at most one thread of
each function; the library takes 16); `MaxFifo` bounds what writers leave unread.
*championship*: the smallest bracket
with agents that meet agents, and relays two levels deep; two and five HP make
battles of one round and of several, and up to two players are without ATK. *Sorting*: five movies
split to leaves of unequal size, some of which stop at the number (`LastSplit`)
and some at the size (`Threshold`).

**Deadlock** is checked except where the system ends: a connection, the
tournament and the sorts. A liveness property says that each does (`Answered`,
`Finishes`, `AllAnswered`).

**Fairness.** `SelectLoop`: the server process is scheduled (`WF(Server)`);
clients need not do anything. `HandleRead`: what is written arrives, and the server
runs. `ThreadFunctions`: the process runs and an armed alarm
expires; and somebody goes on feeding the FIFOs, without which a reader waits
for ever by design and `Terminates` cannot hold. `Championship`, `ThreadSort`, `ProcessSort`: weak
fairness of each process or thread, which is what the kernel's scheduler gives
to one that is not blocked. `Booking` has no liveness property, as no part of the
program bounds the length of a session.

## 4. Seeded faults

For each property of a passing run `PROJECT.json` names a seeded fault: forgetting
to clear a mark, dropping the lock with the first reader, accepting into the
running pass, waiting for one child only, relaying too long, and so on. Replacing
the definition by its faulty form makes TLC find the property violated.

## 5. Proofs

| module | theorem | states, for all values of the constants |
|---|---|---|
| `BookingProofs` | `TypeCorrect` | `TypeOK` |
| | `CountIsExact`, `NoLeak` | `ReadCount`, `NothingLeaked` |
| | `OneWriter`, `Exclusion`, `ShownIsTrue` | `OneWriterPerServer`, `ExclusiveUnlessRefused`, `ShownStaysTrue` |
| | `LimitUnlessOverflow` | no booking is negative, and one beyond the limit has a sum beyond the largest int, whatever the amounts |
| | `ServesReservations` | `ImplementsReservation`, for one write server |
| `InputProofs` | `LoopTypes`, `LoopNeverBlocks`, `LoopSeesAll` | `SelectLoop`'s `TypeOK`, `NeverBlocks`, `AllSeen` |
| | `ScanInLine`, `ScanRight`, `LinesWhole` | `HandleRead`'s `HTypeOK`, `CommandRight`, `WholeLines` |
| `ThreadFunctionsProofs` | `SchedulerTypes`, `EachThreadOnce`, `InputIsThere`, `ClockRuns` | `Scheduler`'s `TypeOK`, `OneQueue`, `ReadFindsInput`, `AlarmAlive` |
| | `FunctionsAreThreads`, `FunctionsKeepQueues` | `FSpec => Spec`, and so the four for `ThreadFunctions` |
| | `FunctionsTypes`, `AnswersAreRight` | `FunctionsTypeOK`, `AnswersRight` |
| `ChampionshipProofs` | `ChampionshipTypes`, `TalkInTurns`, `WriterIsThere`, `FirstReapedLost` | `TypeOK`, `Lockstep`, `NeverEndOfFile`, `ReapsLoser` |
| | `ComputesBracket`, `TwoLossesOut` | `ImplementsBracket`, `DoubleElimination` |
| `ThreadSortProofs` | `ThreadSortTypes`, `NoLockNeeded`, `AnswersInOrder` | `TypeOK`, `NoSharedPosition`, `FilesRight` |
| `ProcessSortProofs` | `ProcessSortTypes`, `SegmentsStay`, `LastWriterRight` | `TypeOK`, `SegmentDone`, `FileRight` |

Each property follows from an inductive invariant (`IInv`, `FInv`, `HInv`), which TLC also finds
to hold on the run's instance. Every proof has one lemma per action or
group of actions and ends in an `Always...` lemma that the theorems cite.

**Assumptions.** Only those the modules name, which TLC evaluates in every run:
- `ServersAssumption`, `RecordsAssumption`: a server is a reader or a writer,
  descriptors are finite, there is at least one record, amounts are integers.
  `NoEditAssumption`: the sign for "nobody edits" is not a booking.
- `LinesAssumption`: an int has a value below 0, and what clients write are lines over
  the alphabet; they may have any number of fields. `BufAssumption`: no end of line is within a line, and the buffer holds a line
  with its end.
- `ThreadsAssumption`: at most 16 different threads. `FunctionsAssumption`: an int has
  more than the values -1 and 0; inputs and their pairwise sums are ints, since an
  input has at most five characters; only `max_subarray` reads; where an endless
  thread's counter stops makes no difference.
- `BracketAssumption`: each process but the root is a child of exactly one battle;
  no battle is its own child; agents are named by `lose`; real players start with HP. `TreeAssumption`: every battle is
  below the final. `AgentAssumption`: no agent plays on for the losers of two battles
  (player.c:15). No assumption says which agent takes over from which battle.
- `ThreadSortAssumption`, `ProcessSortAssumption`: thresholds are positive, and a
  catalogue goes with the requests (`Searchable`: every movie has a score, and none is negative,
  as the assertion of lib.c:82 says).

**Booking.** `IInv` has three parts.
- `Shape`: types; which connection and record a handler in progress serves; that a
  slot without a session has id 0; that readers hold only shared locks and writers
  only exclusive ones, none of them in conflict.
- `ServerInv(s)`, of one server: `Counts` (readCnt is the number of sessions),
  `Leaks` (no lock or mark without a session), `Claims` (a write session on a
  record other than the first has its mark, and is alone), `Held` (a session holds
  its lock unless an F_SETLK was refused on the record).
- `ShownStaysTrue`.

The properties alone are not inductive: exclusion between processes follows from
`Held` and the lock table, exclusion within one from `Claims`, and `Held` of the
other readers survives the end of one only because `Counts` is exact. The lemma
`Frame` says that a server's invariant depends on its own variables and its own row
of the lock table only, so that each step needs to be looked at for one server.
`ShownNext` then shows that a record is written only by a session alone on it.

`LimitUnlessOverflow` is what server.c:316 does achieve. The three amounts are tested after
the additions, each of which may wrap, and only their sum may then wrap again: so whatever
the clients send, no stored amount is negative, and a booking beyond the limit is one whose three
amounts add up to more than the largest int (`WrapRange`, `Computed`). That such a booking can be
stored is the run `overflow`. `RecordsValid`, without the exception, holds when
three times the limit plus the largest amount `M` is below the largest int
(`SmallAmounts(M)`, lemma `BoundedAlways`), which no code checks; it is used for the next theorem only.

`ServesReservations` is about one write server beside any number of read servers:
with two, F_SETLK may be refused (`lock_race`) and updates are lost. The
invariant adds `EditsTrue` (what a write session was shown is in the file, refused or
not, as no other process writes) and `Pending` (the amounts a `Commit` will write are
those shown plus the command). Each action then maps to `Reservation`'s step or to a
stutter. It assumes small amounts and a valid initial file, because `Reservation` tests the
true sum and the code the wrapped one.

**SelectLoop.** The invariant adds what a stopped server's variables are.

**HandleRead.** `HInv` has three parts. `Wire` gives types. `Stream` says what comes, read or
still in flight (`Coming`): everything the client has written while its id is awaited
(`Everything`), and later the end of its second line or of Ctrl+C, which is all of it if the client
waits (`Remainder`). An end of line stands only at the end of a line, so a read that
holds one holds the rest of its line (`ReadsAll`), and `CutFrom` shows that what is cut out of it
is the line without its end, LF or CR LF.
`Parsed` is the invariant of the scan. Acceptance alone is not inductive, as the grammar looks one
character ahead and numbers are negated at the end of their fields: `Scanned` says that the line is
well formed as far as it is passed, but for a last minus sign that still waits for its digit
(`PassedTo`), that `chk` is the sign of the field the scan is in (`Minuses`), and that `opr[n]`
is the value of the digits of field n so far, wrapped (`Value`). `Num`, the reference's
value up to each character, is unfolded by `Recursion`; `WrapDigit` and `WrapMinus` show that
wrapping at each digit and at the sign is wrapping once. Nothing is assumed of how many
fields a line has: `Stored` says that every digit passed
has a place in `opr[]`, and so a line is accepted only if all its digits have, and the result is
`"undefined"` only if one has not.

**Scheduler.** `IInv` says that both queues have no element twice and none in common
and hold together every thread that is not freed (`Queued`, `Entered`), that a
thread about to read has input that no other thread takes (`Fed`), when the running
thread is the one at `rq_current`, and `AlarmAlive`. The work is in the lemmas
about what `scheduler()` does with sequences: `WaitingThreads` and `Division` (the compaction of the
waiting queue parts exactly the woken threads from the others), `Joined` and `Removed` (of the queue
that a thread joins or leaves, with the last one moved into its place).

**ThreadFunctions.** Each step is a step of `Scheduler` (`FNextNext`), so its invariant
carries over. `FInv` adds `Progress(t)`: after its i-th round the thread's tcb holds what the
reference computes after i rounds, wherever it was switched. For that the recursive
functions of the reference are unfolded by `Recursion` (module `Numbers`, which
gets induction over numbers from the least counterexample). `SumsGoOn` shows that Kadane's two
numbers are the largest sums over all stretches, and over those that end where the input
does. The lemmas on `Wrap` show that wrapping after each addition is wrapping once, so
that a Fibonacci number may overflow; comparing and halving do not commute with wrapping,
and so the other two results are claimed while the true ones fit an int.

**Championship.** `IInv` consists of `Types`; `Born` (who has been forked); `Turns` (exactly
one status is under way between a process that awaits an answer and its parent, none
otherwise, unless the parent has passed it on); `Asked` (what goes up is of somebody
alive, in a battle that goes on); `Fates` (for each stage of a battle, which
of its sides goes on, stays or leaves, read off the side's `pc` and the message on its
way to it); `Fresh` (a player in the tournament has HP, and so has what is handed over). `Lockstep`
alone is not inductive: a relay's message is only received because the relaying battle
knows that its side stays.

`ComputesBracket` needs messages that were read long ago: a battle's `Result` is what its
two sides last wrote, and a side that is a battle passes on what it was told. So the proof
carries a history function h (`Telling == \E h : Story(h)`): h[c] is the status that was last
written down to c. `Pipe` says that what is in c's pipes is h[c], or its answer to it;
`Record` that the statuses of a battle that goes on are the HP its sides entered with less
n blows each, for one n; `Told` and `Knows` that a battle and a player hold what they
were told. `Count` and `LastRound` then show that the round in which a side falls is the one that
`Duel` chooses, and that the same side falls, with the same HP left to the other.

`TwoLossesOut` is carried by a ghost function, too (`Fought == \E f : Bout(f)`): f[c] is the
player at the leaf that plays for c. `Lines`: the winner of a battle goes on under its own
name, and nobody plays at two places. `News`: the status a player ends with is of a battle that
it won or lost. `Seconds`: an agent plays for a real player that has lost before. `Tally`: a real player's
losses are its own and its agent's. `Through`: a player that has exited has handed over to
an agent, has lost as one, or has played the final. `AllExited` (from `TreeAssumption`)
says that nobody plays on after the final has exited. The proof needs no more of the
bracket: any tree, with any table of losers that names no agent twice, is a double
elimination if its tournament comes to an end.

**Sorting.** Two lists are `Like` each other if each movie occurs equally often in both.
`SortIs` (selection sort: after i turns the first i are in place), `MergeLike` and `MergeOrdered`
and `FilterIs` show for lists of any length that `sort` and `merge` return an ordered list like
their argument and that `Filter` returns what `Answers` asks for. `OverlayLike` and `Writing`
say what copying a segment back does to the segments around it and beside it.

**ThreadSort, ProcessSort.** Two workers of one list are related (`Kin`): their
segments are disjoint, or one is in a half of the other's and the other waits until
it is done. `Family` says that a worker that has split has its two children, with the
halves of its segment; `Sorted` what is in order. `Kin` is what makes `Sorted` survive the others' writes,
and `NoSharedPosition` is a corollary. In `tserver` `Asked(r)` carries that the shared array
holds the movies of `Filter`; in `pserver`, where the mapping is filled by the leaves,
`Kept` says the same of a segment against the list before the fork, and `Root` that the
first process is the last to write the file, since every other one is then reaped.

**Model-checked only.** Liveness and fairness (`Served`, `Answered`, `NoStarvation`,
`InputServed`, `Terminates`, `Finishes`, `AllAnswered`, `Decided`) are beyond the prover.

## 6. What does not hold

- `first_record`: a client of `write_server` that disconnects before it names its
  user releases record 0 (server.c:236-237 do not look at the connection's state).
  All exclusion properties therefore except the first record.
- `lock_race`: `test` and `lock` are two calls and the result of F_SETLK is ignored,
  so two write servers may both serve a record. `refused` marks such records.
- `overflow`: the sum of three large amounts wraps around, passes the test of server.c:316 and
  is stored: 2000000000 2000000000 294967296, or 1000 1000 48 for the run's int of 11 bits.
- `command_split`: a line that arrives in two pieces ends the server (server.c:145). The run
  has clients that send lines only (`LinesSpec`); Ctrl+C does the same when its two bytes come apart.
  `WholeLines` and `Answered` hold because it ends: nothing is ever done on a piece.
  They speak of clients that wait for each answer; of one that writes ahead the
  second line may be dropped, or its rest taken for a line (server.c:149).
- The sign of the last of one or two numbers is lost: after its loop get3Num negates `opr[2]`,
  whichever number it was reading (server.c:118), against the prompt of server.c:291. It has no
  run of its own; `CommandRight` excepts it.

## 7. Not modelled

- `init_server`, logging, the wording of messages, `writeLog` and the log files.
- Undefined behaviour: what follows the first digit beyond `opr[]`, 512 bytes without an
  end of line, a jump into a frame that has returned.
- Negative scores: with two of them in a segment the assertion of lib.c:82 fails and aborts the
  process.
- Descriptors beyond FD_SETSIZE; partial reads of FIFOs; the time `select` waits.
- hw4's parsing of its two inputs and the floating-point arithmetic of profiles:
  catalogue and requests are given with small integers. More than 32 requests,
  for which the arrays have no room.
- `sample_judge.py` and the other test drivers, which are quoted where they say
  what is expected.

## 8. Plan

Done first, because most can go wrong there: the booking servers with their
proofs, then the loop they run in and their input, then the scheduler with its
threads, the tournament with its abstract bracket, and the sorts with their filter.
The proofs cover the safety invariants of all four programs and the refinements of
`Reservation` and `Bracket`. What is left to TLC
alone is liveness; what is left out is listed in section 7.
