CONSTANTS
  IP_NUM = 1
  ChannelNum <- OneBoard
  WORDS = 2
  BUF_LEN = 9
  SCAN_LEN = 7
  Live = {1}
  Paced = FALSE
  SilentLoss = TRUE
  MaxFrames = 4
  MaxDials = 2
SPECIFICATION ServerSpec
INVARIANTS CrcInv VerifiedGenuine AcceptedInOrder
CHECK_DEADLOCK FALSE
