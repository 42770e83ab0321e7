CONSTANTS
  Files <- SomeFiles
  MaxBoards = 3
  PortNum <- Numbers
  SERV_PORT = 8268
  LastDigit = 2
  MaxStarts = 3
SPECIFICATION Spec
INVARIANTS
  TypeOK
  BoardsReachable
  OwnFrames
PROPERTY ServedAgain
