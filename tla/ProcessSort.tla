---------------------------- MODULE ProcessSort ----------------------------
(***************************************************************************)
(* pserver of hw4: the sort of one request by a tree of processes over a   *)
(* shared mapping.  A forked child returns from its call of Pmerge through *)
(* the frames it inherited into main, so that every process of the tree    *)
(* writes the output file before it exits.                                 *)
(***************************************************************************)
EXTENDS Sorting

CONSTANTS
  Catalogues, \* what data/movies.txt may hold
  Requests,   \* the requests that may be read
  Threshold,  \* 1000: a segment that is not longer is sorted at once
  LastSplit   \* 8: so is the segment of a process with this number or more

ASSUME ProcessSortAssumption ==
  /\ Threshold \in Nat \ {0} /\ LastSplit \in Nat \ {0}
  /\ \A c \in Catalogues, r \in Requests : Searchable(c, r)

Nums == 1 .. 2 * LastSplit - 1
Kids(n) == {2 * n, 2 * n + 1} \cap Nums

VARIABLES
  movies,  \* the catalogue
  req,     \* the request
  Movies,  \* its movies; each process sorts them in its own copy
  Mmap,    \* the shared mapping: titles and scores (Mmap, Pmap)
  pc,      \* process -> where it is
  seg,     \* process -> the segment that it was given
  out,     \* the request's file
  crashed  \* the process was ended by a segmentation fault

input == <<movies, req, Movies>>
vars  == <<input, Mmap, pc, seg, out, crashed>>

Blank == [pts |-> 0, title |-> 0]                \* fresh memory
Garbled == <<[pts |-> -1, title |-> -1]>>        \* two writers' lines, mixed

Init ==
  /\ movies \in Catalogues /\ req \in Requests
  /\ Movies = Filter(movies, req)
  /\ Mmap = [i \in 1 .. Len(Movies) |-> Blank]
  /\ pc = [n \in Nums |-> IF n = 1 THEN "new" ELSE "none"]
  /\ seg = [n \in Nums |-> [st |-> 0, end |-> IF n = 1 THEN Len(Movies) ELSE 0]]
  /\ out = <<>> /\ crashed = FALSE

-----------------------------------------------------------------------------
Small(n) == n >= LastSplit \/ seg[n].end - seg[n].st <= Threshold

\* Seeded fault: the whole list is copied, and not the sorted segment.
SortLeafCopyAll(n) ==
  /\ pc[n] = "new" /\ Small(n) /\ Movies # <<>>
  /\ Mmap' = Overlay(Movies, seg[n].st, sort(Part(Movies, seg[n])))
  /\ pc' = [pc EXCEPT ![n] = "sorted"]
  /\ UNCHANGED <<input, seg, out, crashed>>

\* Without a movie, lib.c appends its suffix to movies[-1], whatever the linker
\* has put before the array.
SortNothing(n) ==
  /\ pc[n] = "new" /\ Small(n) /\ Movies = <<>>
  /\ \/ crashed' = TRUE /\ UNCHANGED pc
     \/ pc' = [pc EXCEPT ![n] = "sorted"] /\ UNCHANGED crashed
  /\ UNCHANGED <<input, Mmap, seg, out>>

\* The segment is sorted in the process's own memory and copied to the mapping.
SortLeaf(n) ==
  /\ pc[n] = "new" /\ Small(n) /\ Movies # <<>>
  /\ Mmap' = Overlay(Mmap, seg[n].st, sort(Part(Movies, seg[n])))
  /\ pc' = [pc EXCEPT ![n] = "sorted"]
  /\ UNCHANGED <<input, seg, out, crashed>>

\* Both forks; the children's calls have the halves as arguments.
Fork(n) ==
  /\ pc[n] = "new" /\ ~ Small(n)
  /\ seg' = [seg EXCEPT ![2 * n] = LeftOf(seg[n]), ![2 * n + 1] = RightOf(seg[n])]
  /\ pc' = [pc EXCEPT ![n] = "wait", ![2 * n] = "new", ![2 * n + 1] = "new"]
  /\ UNCHANGED <<input, Mmap, out, crashed>>

\* What follows a wait(NULL) that reaps child c.
\* Seeded fault: there is a single wait.
AfterOne(n, c) == "merge"

AfterWait(n, c) ==
  IF \A d \in Kids(n) \ {c} : pc[d] = "reaped" THEN "merge" ELSE "wait"

\* wait(NULL) takes either child.
Wait(n) ==
  /\ pc[n] = "wait"
  /\ \E c \in Kids(n) : /\ pc[c] = "exited"
                        /\ pc' = [pc EXCEPT ![c] = "reaped", ![n] = AfterWait(n, c)]
  /\ UNCHANGED <<input, Mmap, seg, out, crashed>>

\* The halves are merged through memory of the process's own.
Merge(n) ==
  /\ pc[n] = "merge"
  /\ Mmap' = Overlay(Mmap, seg[n].st,
               merge(Part(Mmap, LeftOf(seg[n])), Part(Mmap, RightOf(seg[n]))))
  /\ pc' = [pc EXCEPT ![n] = "sorted"]
  /\ UNCHANGED <<input, seg, out, crashed>>

\* fopen(.., "w") empties the file.
Open(n) ==
  /\ pc[n] = "sorted"
  /\ out' = <<>>
  /\ pc' = [pc EXCEPT ![n] = "writing"]
  /\ UNCHANGED <<input, Mmap, seg, crashed>>

\* The whole mapping is written, whoever writes it, and the process exits.
Close(n) ==
  /\ pc[n] = "writing"
  /\ out' = IF out = <<>> THEN Mmap ELSE Garbled
  /\ pc' = [pc EXCEPT ![n] = "exited"]
  /\ UNCHANGED <<input, Mmap, seg, crashed>>

Process(n) ==
  SortNothing(n) \/ SortLeaf(n) \/ Fork(n) \/ Wait(n) \/ Merge(n) \/ Open(n) \/ Close(n)

Next == ~crashed /\ \E n \in Nums : Process(n)

Spec == Init /\ [][Next]_vars

\* The kernel runs every process that is not blocked.
FairSpec == Spec /\ \A n \in Nums : WF_vars(~crashed /\ Process(n))

-----------------------------------------------------------------------------
\* The types; a process has a segment of the list.
TypeOK ==
  /\ movies \in Catalogues /\ req \in Requests /\ crashed \in BOOLEAN
  /\ Len(Mmap) = Len(Movies)
  /\ pc \in [Nums -> {"none", "new", "wait", "merge", "sorted", "writing", "exited",
                      "reaped"}]
  /\ \A n \in Nums : pc[n] # "none" =>
       /\ 0 <= seg[n].st /\ seg[n].end <= Len(Movies)
       /\ seg[n].st < seg[n].end \/ (n = 1 /\ Movies = <<>>)
  /\ out \in {<<>>, Garbled} \/ Len(out) = Len(Movies)

\* From the moment it is sorted until the parent's merge, also when it has been
\* reaped, a process's segment holds its part of the list in order, whatever the
\* others do (server.c:108-140).
SegmentDone ==
  \A n \in Nums :
    \/ pc[n] \in {"sorted", "writing", "exited"}
    \/ pc[n] = "reaped" /\ \E m \in Nums : n \in Kids(m) /\ pc[m] \in {"wait", "merge"}
    => /\ Ordered(Part(Mmap, seg[n]))
       /\ SameMovies(Part(Mmap, seg[n]), Part(Movies, seg[n]))

\* Every process of the tree empties and writes the file, two of them perhaps at
\* once; what is left of it when the program ends is the list in order
\* (server.c:79-86, 103-109).
FileRight == pc[1] = "exited" => Ordered(out) /\ Answers(out, movies, req)

\* If a movie matches, the program ends, with every process it forked
\* (server.c:103-109).
Finishes ==
  (\E n \in DOMAIN movies : Matches(movies[n], req)) =>
  <>(pc[1] = "exited" /\ \A n \in Nums \ {1} : pc[n] \in {"none", "reaped"})
=============================================================================
