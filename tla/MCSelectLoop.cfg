CONSTANTS
  NumFds = 5
  ListenFd = 1
  MaxBacklog = 2
SPECIFICATION LSpec
INVARIANTS
  TypeOK
  NeverBlocks
  AllSeen
PROPERTY Served
