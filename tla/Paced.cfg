CONSTANTS
  IP_NUM = 2
  ChannelNum <- TwoBoards
  WORDS = 2
  BUF_LEN = 9
  SCAN_LEN = 7
  Live = {2}
  Paced = TRUE
  SilentLoss = TRUE
  MaxFrames = 3
  MaxDials = 2
  IMAGE_LEN = 4
SPECIFICATION Spec
INVARIANTS
  TypeOK
  PacedInv
  StoredGenuine
  LaterStoreComplete
  LocalArrayInBounds
  ImageGenuine
  ImageSkew
PROPERTIES
  ImageNeverRegresses
  ImplementsFeed
  WaitingServed
  NewestLands
