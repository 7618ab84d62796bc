------------------------------ MODULE Sorting ------------------------------
(***************************************************************************)
(* The sequential part of hw4: how server.c finds the movies of a request, *)
(* how lib.c orders a segment of them and how server.c merges two.  A movie *)
(* in a list is its score and its title, a number that stands for the      *)
(* title's place in the order of strcmp; the suffix that lib.c appends to  *)
(* every title does not change that order and is left out.  In the         *)
(* catalogue it is its title, the keywords the title contains, and its     *)
(* profile, one (normalised) number for each genre.                        *)
(***************************************************************************)
EXTENDS Integers, Sequences, FiniteSets, SequencesExt

\* A movie in a list.  No score is negative: of negative ones alone argmax finds
\* no maximum, and its assertion (lib.c:82) ends the process.
Listed == [pts : Nat, title : Int]

\* strstr, or a request for all movies.
Matches(m, req) == req.keywords = "*" \/ req.keywords \in m.words

\* The product of the two profiles.
Scored(m, req) ==
  [title |-> m.title,
   pts |-> FoldLeftDomain(LAMBDA sum, j : sum + m.profile[j] * req.profile[j],
                          0, m.profile)]

\* A catalogue and a request that go together: each movie has a score.
Searchable(movies, req) ==
  movies \in Seq(Range(movies)) /\ \A n \in DOMAIN movies : Scored(movies[n], req) \in Listed

\* Seeded fault: the last movie of the catalogue is not looked at.
FilterButLast(movies, req) ==
  LET found == SelectSeq(Front(movies), LAMBDA m : Matches(m, req))
  IN  [i \in DOMAIN found |-> Scored(found[i], req)]

\* The catalogue is gone through, and each movie that matches is appended.
Filter(movies, req) ==
  LET upto[n \in 0 .. Len(movies)] ==
        IF n = 0 THEN <<>>
        ELSE IF Matches(movies[n], req) THEN Append(upto[n - 1], Scored(movies[n], req))
        ELSE upto[n - 1]
  IN upto[Len(movies)]

\* Of two movies that are compared, the second one comes first.
Exceeds(x, y) ==
  \/ y.pts > x.pts
  \/ y.pts = x.pts /\ x.title > y.title

\* Seeded fault: among equal scores, the titles are not compared.
ExceedsByScore(x, y) == y.pts > x.pts

\* The position of the movie that argmax picks from s[start] on; its search
\* starts below all scores.
argmax(s, start) ==
  LET best[i \in start .. Len(s)] ==
        IF i = start \/ Exceeds(s[best[i - 1]], s[i]) THEN i ELSE best[i - 1]
  IN best[Len(s)]

swap(s, i, j) == [s EXCEPT ![i] = s[j], ![j] = s[i]]

\* lib.c's sort: position by position, the best of the rest is swapped in.
sort(s) ==
  LET turn[i \in 0 .. Len(s) - 1] ==
        IF i = 0 THEN s ELSE swap(turn[i - 1], i, argmax(turn[i - 1], i))
  IN turn[Len(s) - 1]

\* The comparison when i movies of the left segment and j of the right are taken.
FromLeft(l, r, i, j) == i < Len(l) /\ (j = Len(r) \/ ~Exceeds(l[i + 1], r[j + 1]))

\* How many of the first k merged movies come from the left segment.
Lefts(l, r) ==
  LET ls[k \in 0 .. Len(l) + Len(r)] ==
        IF k = 0 THEN 0
        ELSE LET i == ls[k - 1] IN IF FromLeft(l, r, i, k - 1 - i) THEN i + 1 ELSE i
  IN ls

\* The merge of two segments: the loop until one of them is used up, and the rest.
merge(l, r) ==
  LET ls == Lefts(l, r)
  IN [k \in 1 .. Len(l) + Len(r) |-> IF ls[k] > ls[k - 1] THEN l[ls[k]] ELSE r[k - ls[k]]]

-----------------------------------------------------------------------------
(* A segment of a list, given by the positions before its first and of its *)
(* last movie: st and end in Tmerge, l and r in Pmerge.                    *)

Part(s, g) == SubSeq(s, g.st + 1, g.end)
Middle(g) == (g.st + g.end) \div 2

\* Seeded faults: the halves overlap; the middle belongs to neither half.
LeftAndMiddle(g) == [g EXCEPT !.end = Middle(g) + 1]
RightButMiddle(g) == [g EXCEPT !.st = Middle(g) + 1]

LeftOf(g) == [g EXCEPT !.end = Middle(g)]
RightOf(g) == [g EXCEPT !.st = Middle(g)]

\* s with the segment from position st + 1 on replaced by t.
Overlay(s, st, t) ==
  [i \in 1 .. Len(s) |-> IF i \in st + 1 .. st + Len(t) THEN t[i - st] ELSE s[i]]

-----------------------------------------------------------------------------
(* The reference: by falling score and, among equal scores, rising title.  *)

Ordered(s) == \A i, j \in DOMAIN s : i < j =>
  \/ s[i].pts > s[j].pts
  \/ s[i].pts = s[j].pts /\ s[i].title <= s[j].title

\* The list s holds each matching movie of the catalogue once.
Answers(s, movies, req) ==
  LET places(x) == {n \in DOMAIN movies : Matches(movies[n], req)
                                          /\ Scored(movies[n], req) = x}
  IN /\ Len(s) = Cardinality({n \in DOMAIN movies : Matches(movies[n], req)})
     /\ \A i \in DOMAIN s :
          Cardinality(places(s[i])) = Cardinality({j \in DOMAIN s : s[j] = s[i]})

SameMovies(s, t) ==
  LET times(u, x) == Cardinality({i \in DOMAIN u : u[i] = x})
  IN /\ Len(s) = Len(t)
     /\ \A i \in DOMAIN s : times(s, s[i]) = times(t, s[i])
=============================================================================
