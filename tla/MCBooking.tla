----------------------------- MODULE MCBooking -----------------------------
(* Small instances of Booking, and of its refinement, for TLC. *)
EXTENDS BookingRefinement, TLC

Amounts(a, b, c) == (0 :> a) @@ (1 :> b) @@ (2 :> c)

\* Commands that cross both bounds: one item more, one less.
MCCommands == {Amounts(1, 0, 0), Amounts(-1, 0, 0)}

\* And amounts whose sum is 0 in an int of eleven bits, as is the sum of
\* 2000000000, 2000000000 and 294967296 in one of 32.
OverflowCommands == MCCommands \cup {Amounts(1000, 1000, 48)}

MCInitRecord == [k \in Ids |-> ZeroBooking]

ServerSymmetry == Permutations(ReadServers) \cup Permutations(WriteServers)
                    \cup Permutations(Fds)
=============================================================================
