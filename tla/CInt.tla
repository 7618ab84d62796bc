-------------------------------- MODULE CInt --------------------------------
(* The int of C, as gcc compiles signed arithmetic in this repository's     *)
(* builds: without -O an overflow wraps around, also where the sanitizer of *)
(* hw2 and hw3 is on, which only reports it.                                *)
EXTENDS Integers

CONSTANT IntHalf   \* ints are -IntHalf .. IntHalf-1 (2^31 in the program)

CInts == -IntHalf .. IntHalf - 1

Wrap(x) == ((x + IntHalf) % (2 * IntHalf)) - IntHalf
=============================================================================
