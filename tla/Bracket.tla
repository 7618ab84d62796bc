------------------------------ MODULE Bracket ------------------------------
(***************************************************************************)
(* What the tournament of hw2 computes, without its processes: each battle *)
(* is decided at once, as soon as its two sides are known.  A battle is a  *)
(* matter of counting blows; the winner regains half of what it has lost,  *)
(* and a beaten player comes back fresh at the place the tables give it.   *)
(***************************************************************************)
EXTENDS Integers

CONSTANTS Battles, Players, Number, left, right, lose, ATTR, Rosters

VARIABLES
  roster,   \* real player -> its HP, ATK and attr
  result    \* battle -> its winner, the HP it has left, and its loser

Open == [winner |-> "nobody", HP |-> 0, loser |-> "nobody"]

Init ==
  /\ roster \in Rosters
  /\ result = [b \in Battles |-> Open]

Regain(hp, full) == hp + (full - hp) \div 2

\* Whom side c of a battle sends, and with how many HP.
LostIn(c) == CHOOSE b \in DOMAIN lose : lose[b] = c

Entrant(c) ==
  IF c \in Battles
    THEN LET w == result[c].winner
         IN [id |-> w, HP |-> Regain(result[c].HP, roster[w].HP)]
    ELSE LET id == IF c \in DOMAIN Number THEN c ELSE result[LostIn(c)].loser
         IN [id |-> id, HP |-> roster[id].HP]

Known(c) ==
  IF c \in Battles THEN result[c] # Open
  ELSE c \in DOMAIN Number \/ result[LostIn(c)] # Open

\* The force of a blow of player c in battle b.
Blow(b, c) == roster[c].ATK * (IF roster[c].attr = ATTR[b] THEN 2 ELSE 1)

\* n blows of force f bring down hp.
Fells(n, f, hp) == n * f >= hp

\* Both strike once in each round, the weaker one first, until round n, in
\* which one of them has had enough; xFirst says who is first in that round.
Duel(b, x, y) ==
  LET bx == Blow(b, x.id)  by == Blow(b, y.id)
      Enough(k) == Fells(k, bx, y.HP) \/ Fells(k, by, x.HP)
      n == CHOOSE k \in 1 .. x.HP + y.HP : Enough(k) /\ ~Enough(k - 1)
      hx == x.HP - (n - 1) * by
      hy == y.HP - (n - 1) * bx
      xFirst == hx < hy \/ (hx = hy /\ Number[x.id] < Number[y.id])
  IN IF Fells(n, bx, y.HP) /\ (xFirst \/ ~Fells(n, by, x.HP))
       THEN [winner |-> x.id, HP |-> IF xFirst THEN hx ELSE hx - by, loser |-> y.id]
       ELSE [winner |-> y.id, HP |-> IF xFirst THEN hy - bx ELSE hy, loser |-> x.id]

\* Two players without force never come to an end.
Decide(b) ==
  /\ result[b] = Open /\ Known(left[b]) /\ Known(right[b])
  /\ LET x == Entrant(left[b])  y == Entrant(right[b])
     IN /\ Blow(b, x.id) + Blow(b, y.id) > 0
        /\ result' = [result EXCEPT ![b] = Duel(b, x, y)]
  /\ UNCHANGED roster

Next == \E b \in Battles : Decide(b)

Spec == Init /\ [][Next]_<<roster, result>>
=============================================================================
