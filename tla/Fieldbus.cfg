CONSTANTS
  CHUNK = 7
  SHORTEST = 2
  Channels = {1, 2}
  MaxFds = 5
  MaxFrames = 3
  Messages <- SomeMessages
  BUF = 6
  Bursts <- SomeBursts
SPECIFICATION Spec
INVARIANTS
  ClientStoresGenuine
  ClientShowsLast
  LineAsAsked
  ChecksumsAreRemainders
  BurstsDetected
PROPERTIES
  WholeFrameCounts
  ClientReconnects
CHECK_DEADLOCK FALSE
