-------------------------- MODULE MCChampionshipFull --------------------------
(* The bracket of the program: the tables of battle.c:14-17 and player.c:15. *)
EXTENDS Championship, TLC

BattlesDef == {"A", "B", "C", "D", "E", "F", "G", "H", "I", "J", "K", "L", "M", "N"}
PlayersDef == {"0", "1", "2", "3", "4", "5", "6", "7", "8", "9", "10", "11", "12", "13", "14"}
NumberDef ==
  ("0" :> 0) @@ ("1" :> 1) @@ ("2" :> 2) @@ ("3" :> 3)
  @@ ("4" :> 4) @@ ("5" :> 5) @@ ("6" :> 6) @@ ("7" :> 7)
leftDef ==
  ("A" :> "B") @@ ("B" :> "D") @@ ("C" :> "F") @@ ("D" :> "G")
  @@ ("E" :> "I") @@ ("F" :> "K") @@ ("G" :> "0") @@ ("H" :> "2")
  @@ ("I" :> "4") @@ ("J" :> "6") @@ ("K" :> "M") @@ ("L" :> "N")
  @@ ("M" :> "8") @@ ("N" :> "11")
rightDef ==
  ("A" :> "C") @@ ("B" :> "E") @@ ("C" :> "14") @@ ("D" :> "H")
  @@ ("E" :> "J") @@ ("F" :> "L") @@ ("G" :> "1") @@ ("H" :> "3")
  @@ ("I" :> "5") @@ ("J" :> "7") @@ ("K" :> "10") @@ ("L" :> "13")
  @@ ("M" :> "9") @@ ("N" :> "12")
\* Seeded fault: the loser of K and not that of E plays on as agent 13.
loseLate ==
  ("B" :> "14") @@ ("D" :> "10") @@ ("K" :> "13") @@ ("G" :> "8")
  @@ ("H" :> "11") @@ ("I" :> "9") @@ ("J" :> "12")

loseDef ==
  ("B" :> "14") @@ ("D" :> "10") @@ ("E" :> "13") @@ ("G" :> "8")
  @@ ("H" :> "11") @@ ("I" :> "9") @@ ("J" :> "12")
ATTRDef ==
  ("A" :> 0) @@ ("B" :> 1) @@ ("C" :> 2) @@ ("D" :> 2)
  @@ ("E" :> 0) @@ ("F" :> 0) @@ ("G" :> 0) @@ ("H" :> 1)
  @@ ("I" :> 2) @@ ("J" :> 1) @@ ("K" :> 1) @@ ("L" :> 1)
  @@ ("M" :> 0) @@ ("N" :> 2)

\* player_status.txt with one or two HP for each player, in every combination.
RostersDef ==
  {[c \in DOMAIN NumberDef |-> [HP |-> hp[c], ATK |-> 1, attr |-> NumberDef[c] % 3]] :
     hp \in [DOMAIN NumberDef -> {1, 2}]}

\* One schedule: of the processes that are not blocked, the first one runs.  The
\* result does not depend on it: MCChampionship takes all of them.
Order == <<"0", "1", "2", "3", "4", "5", "6", "7", "8", "9", "10", "11", "12",
           "13", "14", "G", "H", "I", "J", "M", "N", "D", "E", "K", "L", "B",
           "F", "C", "A">>
OrderedNext ==
  \E i \in DOMAIN Order : /\ Step(Order[i])
                          /\ \A j \in 1 .. i - 1 : ~ ENABLED Step(Order[j])
OrderedSpec == Init /\ [][OrderedNext]_vars /\ WF_vars(OrderedNext)

\* Whatever the outcomes of the battles, the tables pair winners and losers so
\* that the tournament comes to its end, as a double elimination (battle.c:14-15,
\* player.c:15).
Decided == <>(Finished /\ DoubleElimination)
=============================================================================
