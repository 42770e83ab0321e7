CONSTANTS
  REGISTERS = 3
  RESULT_LEN = 15
  Client = {0, 1}
  Kinds <- TwoClients
  Cuts = {0, 6, 10}
  OVERFLOW = 30
  MaxRequests = 3
  MaxConnects = 1
SPECIFICATION Spec
INVARIANTS TypeOK RepliesGenuine RegistersComplete
PROPERTIES NoClientHangs BacklogServed
CHECK_DEADLOCK FALSE
