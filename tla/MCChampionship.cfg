CONSTANTS
  Battles <- BattlesDef
  Root = "A"
  Players <- PlayersDef
  Number <- NumberDef
  left <- leftDef
  right <- rightDef
  lose <- loseDef
  ATTR <- ATTRDef
  Rosters <- RostersDef
SPECIFICATION FairSpec
INVARIANTS TypeOK Lockstep NeverEndOfFile ReapsLoser DoubleElimination
PROPERTIES Finishes ImplementsBracket
CHECK_DEADLOCK FALSE
