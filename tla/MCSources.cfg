SPECIFICATION FairSpec
CONSTANTS
  LastIndex = 2
  ProbeRate = 1
  SniffRetries = 2
  PacketPolls = 2
  MaxNoise = 2
  MaxMoves = 1
  MaxReleases = 1
  Blen = 5
  MaxTable = 2
CHECK_DEADLOCK FALSE
PROPERTIES
  HuntIsPatient
  SourceIsReached
  TableIsRead
