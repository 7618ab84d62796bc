------------------------- MODULE BookingRefinement -------------------------
(***************************************************************************)
(* The write sessions of Booking, seen as the edits of Reservation.  The   *)
(* first record is left out: a client that disconnects before it names its *)
(* user releases that record (Booking!WriteServerEOF).                     *)
(***************************************************************************)
EXTENDS Booking

CONSTANT NoEdit

ASSUME NoEditAssumption == NoEdit \notin Bookings

Writers(k) == {w \in WriteServers \X Fds : w[2] \in Informed(w[1], k)}

\* What the client editing record k was shown.
Edit(k) ==
  IF Writers(k) = {} THEN NoEdit
  ELSE LET w == CHOOSE w \in Writers(k) : TRUE IN shown[w[1]][w[2]]

R == INSTANCE Reservation WITH
       Users  <- Ids \ {0},
       record <- [k \in Ids \ {0} |-> record[k]],
       edit   <- [k \in Ids \ {0} |-> Edit(k)]

\* With one write_server process, and any read_server processes, write
\* sessions implement Reservation: no update is lost, none is applied to a
\* booking other than the one the client has seen.
ImplementsReservation == R!Spec
=============================================================================
