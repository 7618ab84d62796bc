CONSTANTS
  IntHalf = 64
  Alphabet <- MCAlphabet
  MaxLen = 4
  Lines <- MCLines
  Id <- IdDef
  Ids <- IdsDef
  BufSize = 9
SPECIFICATION HSpec
INVARIANTS
  HTypeOK
  CommandRight
PROPERTIES
  WholeLines
  Answered
CHECK_DEADLOCK FALSE
