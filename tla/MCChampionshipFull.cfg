CONSTANTS
  Battles <- BattlesDef
  Root = "A"
  Players <- PlayersDef
  Number <- NumberDef
  left <- leftDef
  right <- rightDef
  lose <- loseDef
  ATTR <- ATTRDef
  Rosters <- RostersDef
SPECIFICATION OrderedSpec
PROPERTY Decided
CHECK_DEADLOCK FALSE
