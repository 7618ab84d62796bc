CONSTANTS
  ReadServers = {}
  WriteServers = {w1}
  Fds = {f1}
  NoFd = NoFd
  NoEdit = NoEdit
  NumRecords = 1
  Limit = 15
  IntHalf = 1024
  Commands <- OverflowCommands
  InitRecord <- MCInitRecord
SPECIFICATION Spec
INVARIANTS
  RecordsValid
