---------------------------- MODULE MCThreadSort ----------------------------
(* A catalogue of five movies, two of them with one title, and requests     *)
(* that match all five, four, the last one and none of them.                *)
EXTENDS ThreadSort

Movie(title, words, x, y) == [title |-> title, words |-> words, profile |-> <<x, y>>]
CataloguesDef ==
  {<<Movie(2, {"a"}, 1, 0), Movie(1, {"a"}, 0, 1), Movie(3, {"a"}, 1, 0),
     Movie(1, {"a"}, 1, 0), Movie(4, {"b"}, 1, 1)>>}

Request(keywords, x, y) == [keywords |-> keywords, profile |-> <<x, y>>]
RequestsDef ==
  {Request("*", 1, 0), Request("a", 0, 1), Request("b", 1, 1), Request("c", 1, 0)}
=============================================================================
