CONSTANTS
  ReadServers = {}
  WriteServers = {w1, w2}
  Fds = {f1}
  NoFd = NoFd
  NoEdit = NoEdit
  NumRecords = 2
  Limit = 1
  IntHalf = 1024
  Commands <- MCCommands
  InitRecord <- MCInitRecord
SPECIFICATION Spec
SYMMETRY ServerSymmetry
INVARIANTS
  ExclusiveWriters
