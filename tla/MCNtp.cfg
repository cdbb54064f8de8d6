SPECIFICATION Spec
CONSTANTS
  Slots = {s1, s2}
  Segments = 2
  Threads = {t1, t2}
  MaxAdds = 2
  MaxPuts = 3
  FirstTick = 9
  MaxTick = 12
  Rollover = 3
  MaxWeek = 7
  MaxRollovers = 5
SYMMETRY Alike
CONSTRAINT Few
CHECK_DEADLOCK FALSE
INVARIANTS
  DevicesAreLinkedOnce
  SamplesAreWhole
  EdgesAreTold
  WeeksAreKept
