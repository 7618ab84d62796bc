--------------------------- MODULE MCChampionship ---------------------------
(* The bracket of four players: the code's B, D, E for the upper half, C and *)
(* M for the lower one, and the final A.                                     *)
EXTENDS Championship, TLC

BattlesDef == {"A", "B", "C", "D", "E", "M"}
PlayersDef == {"0", "1", "2", "3", "8", "9", "14"}
NumberDef == ("0" :> 0) @@ ("1" :> 1) @@ ("2" :> 2) @@ ("3" :> 3)
leftDef  == ("A" :> "B") @@ ("B" :> "D") @@ ("C" :> "M")
            @@ ("D" :> "0") @@ ("E" :> "2") @@ ("M" :> "8")
rightDef == ("A" :> "C") @@ ("B" :> "E") @@ ("C" :> "14")
            @@ ("D" :> "1") @@ ("E" :> "3") @@ ("M" :> "9")
loseDef  == ("B" :> "14") @@ ("D" :> "8") @@ ("E" :> "9")
ATTRDef  == ("A" :> 0) @@ ("B" :> 1) @@ ("C" :> 2)
            @@ ("D" :> 1) @@ ("E" :> 2) @@ ("M" :> 0)

\* Two or five HP for each player, in every combination; and one or two players
\* without ATK.
Roster(hp, weak) ==
  [c \in DOMAIN NumberDef |->
     [HP |-> hp[c], attr |-> NumberDef[c] % 3,
      ATK |-> IF c \in weak THEN 0 ELSE IF c = "2" THEN 2 ELSE 1]]

Uneven == [c \in DOMAIN NumberDef |-> IF c \in {"1", "2"} THEN 5 ELSE 2]

RostersDef ==
  {Roster(hp, {}) : hp \in [DOMAIN NumberDef -> {2, 5}]}
    \cup {Roster(Uneven, weak) : weak \in {{"1"}, {"0", "1"}, {"1", "2"}}}
=============================================================================
