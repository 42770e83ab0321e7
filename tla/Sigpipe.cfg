CONSTANTS
  REGISTERS = 3
  RESULT_LEN = 15
  Client = {0}
  Kinds <- OneClient
  Cuts = {0}
  OVERFLOW = 30
  MaxRequests = 2
  MaxConnects = 2
SPECIFICATION Spec
INVARIANT SendErrorContained
CHECK_DEADLOCK FALSE
