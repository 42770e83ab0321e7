CONSTANTS
  IP_NUM = 2
  ChannelNum <- TwoBoards
  WORDS = 2
  BUF_LEN = 9
  SCAN_LEN = 7
  Live = {1,2}
  Paced = TRUE
  SilentLoss = FALSE
  MaxFrames = 1
  MaxDials = 1
SPECIFICATION ServerSpec
INVARIANT StoredGenuine
CHECK_DEADLOCK FALSE
