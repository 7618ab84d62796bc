CONSTANTS
  ReadServers = {}
  WriteServers = {w1}
  Fds = {f1, f2}
  NoFd = NoFd
  NoEdit = NoEdit
  NumRecords = 1
  Limit = 1
  IntHalf = 1024
  Commands <- MCCommands
  InitRecord <- MCInitRecord
SPECIFICATION Spec
SYMMETRY ServerSymmetry
INVARIANTS
  FirstRecordExclusive
