---------------------------- MODULE MCHandleRead ----------------------------
(* An id of two characters, one that begins with it, and the commands of    *)
(* Lines: all short ones, some of three numbers, and one of four.           *)
EXTENDS HandleRead

CONSTANT MaxLen   \* bound: the length up to which all lines are tried

\* A digit that overflows soon, one that does not, and a bad character.
MCAlphabet == {"-", " ", "1", "9", "x"}

MCLines ==
  BoundedSeq(MCAlphabet, MaxLen) \cup
  {<<"1", " ", "9", " ", "1">>, <<"-", "1", " ", "1", " ", "-", "9">>,
   <<"9", " ", "-", "9", " ", "9">>, <<"1", " ", "1", " ", "-">>,
   <<"1", " ", "1", " ", "9", " ", "1">>}

\* Clients that write their lines and nothing else: no Ctrl+C.
LinesSpec == HInit /\ [][SendLine \/ HangUp \/ Deliver \/ HServer]_hvars

IdDef  == <<"9", "1">>
IdsDef == {IdDef, <<"9", "1", "9">>}
=============================================================================
