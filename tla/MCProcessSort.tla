--------------------------- MODULE MCProcessSort ---------------------------
(* Catalogues of four or five movies, with two scores in any distribution,  *)
(* and requests that match all of them, some, the fifth or none.            *)
EXTENDS ProcessSort

Movie(title, words, x) == [title |-> title, words |-> words, profile |-> <<x, 1 - x>>]
Titles == <<3, 1, 2, 1, 4>>
Words  == <<{"a"}, {}, {"a"}, {"a"}, {"b"}>>
CataloguesDef ==
  {[i \in 1 .. n |-> Movie(Titles[i], Words[i], like[i])] :
     n \in 4 .. 5, like \in [1 .. 5 -> 0 .. 1]}

Request(keywords, x, y) == [keywords |-> keywords, profile |-> <<x, y>>]
RequestsDef ==
  {Request("*", 1, 0), Request("*", 0, 0), Request("a", 0, 1), Request("b", 1, 0)}
=============================================================================
