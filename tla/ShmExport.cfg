SPECIFICATION FairSpec
CONSTANTS
  Words = {fix, satellites, fd}
  Fd = fd
  Readers = {r1}
  MaxStarts = 2
  MaxTick = 2
  Barriers = TRUE
CHECK_DEADLOCK FALSE
INVARIANTS
  LostOnlyWithoutReport
PROPERTIES
  RegisterSpec
  NeverGoesBack
  QuietIsRead
