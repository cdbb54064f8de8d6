SPECIFICATION FairSpec
CONSTANTS
  BufferSize = 2
  MaxSamples = 9
CHECK_DEADLOCK FALSE
INVARIANTS
  HandedOverInOrder
  LogIsReadable
PROPERTIES
  NothingAfterARaise
  StopSavesAll
