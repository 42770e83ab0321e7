CONSTANTS
  IP_NUM = 1
  ChannelNum <- OneBoard
  WORDS = 2
  BUF_LEN = 9
  SCAN_LEN = 7
  Live = {1}
  Paced = FALSE
  SilentLoss = FALSE
  MaxFrames = 4
  MaxDials = 1
SPECIFICATION ServerSpec
INVARIANT StoredGenuine
CHECK_DEADLOCK FALSE
