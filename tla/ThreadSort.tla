----------------------------- MODULE ThreadSort -----------------------------
(***************************************************************************)
(* tserver of hw4: one thread per request sorts the request's movies, and  *)
(* splits them among two more threads as long as there are many.           *)
(***************************************************************************)
EXTENDS Sorting

CONSTANTS
  num_of_reqs,
  Catalogues, \* what data/movies.txt may hold
  Requests,   \* the requests that may be read
  Threshold,  \* 1000: a segment that is not longer is sorted at once
  LastSplit   \* 8: so is the segment of a thread with this number or more

ASSUME ThreadSortAssumption ==
  /\ num_of_reqs \in Nat /\ Threshold \in Nat \ {0} /\ LastSplit \in Nat \ {0}
  /\ \A c \in Catalogues, r \in Requests : Searchable(c, r)

Reqs == 0 .. num_of_reqs - 1
Nums == 1 .. 2 * LastSplit - 1
Threads == Reqs \X Nums

VARIABLES
  movies,   \* the catalogue
  reqs,     \* request -> its keyword and profile
  Movies,   \* request -> the shared array Movies[id], Pts[id]
  pc,       \* thread -> where it is
  seg,      \* thread -> the st and end it was given
  tmp,      \* thread -> tmpMovies, tmpPts
  next,     \* the loop variable of main; num_of_reqs + i in its second loop
  out,      \* request -> its file
  crashed   \* the process was ended by a segmentation fault

input == <<movies, reqs>>
vars  == <<input, Movies, pc, seg, tmp, next, out, crashed>>

Init ==
  /\ movies \in Catalogues /\ reqs \in [Reqs -> Requests]
  /\ Movies = [r \in Reqs |-> <<>>]
  /\ pc = [t \in Threads |-> "none"]
  /\ seg = [t \in Threads |-> [st |-> 0, end |-> 0]]
  /\ tmp = [t \in Threads |-> <<>>]
  /\ next = 0
  /\ out = [r \in Reqs |-> <<>>]
  /\ crashed = FALSE

\* The two threads that a thread creates.
Left(t) == <<t[1], 2 * t[2]>>
Right(t) == <<t[1], 2 * t[2] + 1>>

-----------------------------------------------------------------------------
\* main's first loop: Filter, and the thread of the request.
Create ==
  /\ next \in Reqs
  /\ Movies' = [Movies EXCEPT ![next] = Filter(movies, reqs[next])]
  /\ seg' = [seg EXCEPT ![<<next, 1>>] = [st |-> 0, end |-> Len(Movies'[next])]]
  /\ pc' = [pc EXCEPT ![<<next, 1>>] = "new"]
  /\ next' = next + 1
  /\ UNCHANGED <<input, tmp, out, crashed>>

\* Seeded fault: main does not wait for the thread.
CollectAtOnce ==
  /\ next - num_of_reqs \in Reqs
  /\ LET r == next - num_of_reqs IN out' = [out EXCEPT ![r] = Movies[r]]
  /\ next' = next + 1
  /\ UNCHANGED <<input, Movies, pc, seg, tmp, crashed>>

\* main's second loop: the request's thread is joined and the file written.
Collect ==
  /\ next - num_of_reqs \in Reqs
  /\ LET r == next - num_of_reqs
     IN pc[<<r, 1>>] = "done" /\ out' = [out EXCEPT ![r] = Movies[r]]
  /\ next' = next + 1
  /\ UNCHANGED <<input, Movies, pc, seg, tmp, crashed>>

Small(t) == t[2] >= LastSplit \/ seg[t].end - seg[t].st <= Threshold

\* Without a movie, lib.c appends its suffix to movies[-1]: mostly a null
\* pointer, for the first request whatever the linker has put before the array.
SortNothing(t) ==
  /\ pc[t] = "new" /\ Small(t) /\ seg[t].st = seg[t].end
  /\ \/ crashed' = TRUE /\ UNCHANGED pc
     \/ t[1] = 0 /\ pc' = [pc EXCEPT ![t] = "done"] /\ UNCHANGED crashed
  /\ UNCHANGED <<input, Movies, seg, tmp, next, out>>

SortLeaf(t) ==
  /\ pc[t] = "new" /\ Small(t) /\ seg[t].st # seg[t].end
  /\ Movies' = [Movies EXCEPT
       ![t[1]] = Overlay(@, seg[t].st, sort(Part(@, seg[t])))]
  /\ pc' = [pc EXCEPT ![t] = "done"]
  /\ UNCHANGED <<input, seg, tmp, next, out, crashed>>

Split(t) ==
  /\ pc[t] = "new" /\ ~ Small(t)
  /\ seg' = [seg EXCEPT ![Left(t)] = LeftOf(seg[t]), ![Right(t)] = RightOf(seg[t])]
  /\ pc' = [pc EXCEPT ![t] = "joinLeft", ![Left(t)] = "new", ![Right(t)] = "new"]
  /\ UNCHANGED <<input, Movies, tmp, next, out, crashed>>

JoinLeft(t) ==
  /\ pc[t] = "joinLeft" /\ pc[Left(t)] = "done"
  /\ pc' = [pc EXCEPT ![t] = "joinRight"]
  /\ UNCHANGED <<input, Movies, seg, tmp, next, out, crashed>>

JoinRight(t) ==
  /\ pc[t] = "joinRight" /\ pc[Right(t)] = "done"
  /\ pc' = [pc EXCEPT ![t] = "merge"]
  /\ UNCHANGED <<input, Movies, seg, tmp, next, out, crashed>>

Merge(t) ==
  /\ pc[t] = "merge"
  /\ tmp' = [tmp EXCEPT ![t] = merge(Part(Movies[t[1]], LeftOf(seg[t])),
                                     Part(Movies[t[1]], RightOf(seg[t])))]
  /\ pc' = [pc EXCEPT ![t] = "copy"]
  /\ UNCHANGED <<input, Movies, seg, next, out, crashed>>

\* The merged movies are copied back, and tmp is freed.
CopyBack(t) ==
  /\ pc[t] = "copy"
  /\ Movies' = [Movies EXCEPT ![t[1]] = Overlay(@, seg[t].st, tmp[t])]
  /\ tmp' = [tmp EXCEPT ![t] = <<>>]
  /\ pc' = [pc EXCEPT ![t] = "done"]
  /\ UNCHANGED <<input, seg, next, out, crashed>>

Tmerge(t) ==
  SortNothing(t) \/ SortLeaf(t) \/ Split(t) \/ JoinLeft(t) \/ JoinRight(t) \/ Merge(t) \/ CopyBack(t)

Next == ~crashed /\ (Create \/ Collect \/ \E t \in Threads : Tmerge(t))

Spec == Init /\ [][Next]_vars

\* The kernel runs every thread that is not blocked.
FairSpec ==
  /\ Spec
  /\ WF_vars(~crashed /\ (Create \/ Collect))
  /\ \A t \in Threads : WF_vars(~crashed /\ Tmerge(t))

-----------------------------------------------------------------------------
\* The types; a thread has a segment of its request's array.
TypeOK ==
  /\ movies \in Catalogues /\ reqs \in [Reqs -> Requests]
  /\ crashed \in BOOLEAN
  /\ next \in 0 .. 2 * num_of_reqs
  /\ pc \in [Threads -> {"none", "new", "joinLeft", "joinRight", "merge", "copy",
                         "done"}]
  /\ \A t \in Threads : pc[t] # "none" =>
       /\ 0 <= seg[t].st /\ seg[t].end <= Len(Movies[t[1]])
       /\ seg[t].st < seg[t].end \/ (t[2] = 1 /\ Movies[t[1]] = <<>>)
  /\ \A t \in Threads : Len(tmp[t]) = IF pc[t] = "copy" THEN seg[t].end - seg[t].st
                                      ELSE 0

\* The threads share the array without a lock: none of those that may touch
\* movies at the same time have a position in common (server.c:149, 165-192).
Working(t) == pc[t] = "merge" \/ pc[t] = "copy" \/ (pc[t] = "new" /\ Small(t))
NoSharedPosition ==
  \A t, u \in Threads : t # u /\ t[1] = u[1] /\ Working(t) /\ Working(u) =>
    seg[t].end <= seg[u].st \/ seg[u].end <= seg[t].st

\* A file holds exactly the movies that match its request, in order, although
\* main reads the array while the other requests' threads run (server.c:68-75).
FilesRight ==
  \A r \in Reqs : next > num_of_reqs + r =>
    Ordered(out[r]) /\ Answers(out[r], movies, reqs[r])

\* If each request matches a movie, each gets its file: no join waits for ever
\* (server.c:69, 160-161).
AllAnswered ==
  (\A r \in Reqs : \E n \in DOMAIN movies : Matches(movies[n], reqs[r]))
    => <>(next = 2 * num_of_reqs)
=============================================================================
