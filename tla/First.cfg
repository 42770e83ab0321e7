CONSTANTS
  IP_NUM = 1
  ChannelNum <- OneBoard
  WORDS = 2
  BUF_LEN = 9
  SCAN_LEN = 7
  Live = {1}
  Paced = TRUE
  SilentLoss = FALSE
  MaxFrames = 2
  MaxDials = 1
  IMAGE_LEN = 3
SPECIFICATION Spec
INVARIANT StoreComplete
