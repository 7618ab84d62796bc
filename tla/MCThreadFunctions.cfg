CONSTANTS
  Threads <- ThreadsDef
  Readers <- ReadersDef
  function <- functionDef
  Args <- ArgsDef
  Inputs <- InputsDef
  IntHalf = 16
  timeslice = 3
  MaxFifo = 1
  MaxRound = 4
SPECIFICATION FedSpec
INVARIANTS
  FunctionsTypeOK
  OneQueue
  ReadFindsInput
  AlarmAlive
  AnswersRight
PROPERTIES
  NoStarvation
  InputServed
  Terminates
