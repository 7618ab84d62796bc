CONSTANTS
  ReadServers = {r1}
  WriteServers = {w1}
  Fds = {f1, f2}
  NoFd = NoFd
  NoEdit = NoEdit
  NumRecords = 2
  Limit = 1
  IntHalf = 1024
  Commands <- MCCommands
  InitRecord <- MCInitRecord
SPECIFICATION Spec
INVARIANTS
  TypeOK
  ReadCount
  NothingLeaked
  OneWriterPerServer
  ExclusiveUnlessRefused
  ShownStaysTrue
PROPERTY ImplementsReservation
