---------------------------- MODULE Reservation ----------------------------
(***************************************************************************)
(* What a booking service promises its users, in one variable per concern: *)
(* a user's record is edited by one client at a time; the client sees the  *)
(* record when its edit begins, and its command is applied to exactly what *)
(* it has seen, or refused.  An edit may also end with no effect.          *)
(***************************************************************************)
EXTENDS Integers

CONSTANTS
  Users,      \* the users whose records may be edited
  Commands,   \* the amounts a client may ask to add
  Limit,      \* the most items a user may book
  NoEdit      \* not a booking: nobody edits the record

Objects  == 0 .. 2
Bookings == [Objects -> Int]

VARIABLES
  record,     \* user -> booking
  edit        \* user -> what the client editing the record has seen

vars == <<record, edit>>

Add(b, opr) == [o \in Objects |-> b[o] + opr[o]]

Within(b) == (\A o \in Objects : b[o] >= 0) /\ b[0] + b[1] + b[2] <= Limit

Init ==
  /\ record \in [Users -> {b \in Bookings : Within(b)}]
  /\ edit = [u \in Users |-> NoEdit]

Begin(u) ==
  /\ edit[u] = NoEdit
  /\ edit' = [edit EXCEPT ![u] = record[u]]
  /\ UNCHANGED record

Update(u, opr) ==
  /\ edit[u] # NoEdit
  /\ Within(Add(edit[u], opr))
  /\ record' = [record EXCEPT ![u] = Add(edit[u], opr)]
  /\ edit'   = [edit EXCEPT ![u] = NoEdit]

\* The edits of some users end without effect; all those of a service that
\* stops end together.
Abandon(us) ==
  /\ \A u \in us : edit[u] # NoEdit
  /\ edit' = [u \in Users |-> IF u \in us THEN NoEdit ELSE edit[u]]
  /\ UNCHANGED record

Next ==
  \/ \E u \in Users : Begin(u) \/ \E opr \in Commands : Update(u, opr)
  \/ \E us \in SUBSET Users : Abandon(us)

Spec == Init /\ [][Next]_vars
=============================================================================
