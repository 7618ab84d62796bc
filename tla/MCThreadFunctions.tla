------------------------- MODULE MCThreadFunctions -------------------------
(* The three threads of main, and a second reader. *)
EXTENDS ThreadFunctions

ThreadsDef == <<0, 1, 2, 3>>
functionDef ==
  <<"collatz", "max_subarray", "max_subarray">> @@ 0 :> "fibonacci"
ReadersDef == {2, 3}

\* collatz(0) has no end; the other arguments do.
ArgsDef == { 0 :> 3 @@ 1 :> 0 @@ 2 :> 2 @@ 3 :> 1,
             0 :> 2 @@ 1 :> 4 @@ 2 :> 1 @@ 3 :> 2 }
InputsDef == {-1, 2}
=============================================================================
