CONSTANTS
  IntHalf = 64
  Alphabet <- MCAlphabet
  MaxLen = 1
  Lines <- MCLines
  Id <- IdDef
  Ids <- IdsDef
  BufSize = 9
SPECIFICATION LinesSpec
INVARIANTS
  ReallyNotHappens
CHECK_DEADLOCK FALSE
