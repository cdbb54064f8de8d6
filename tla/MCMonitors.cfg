SPECIFICATION Spec
CONSTANTS
  MaxDevices = 2
  MaxConsumers = 2
  MaxCount = 2
  Base = 3
  FirstTime = 2
  MaxTime = 6
  Size = 3
  MaxLines = 4
  Length = 2
  MaxTasks = 2
  MaxRounds = 3
  Minors <- Numbered
CHECK_DEADLOCK FALSE
INVARIANTS
  EventsAreLogged
  TraceIsInOrder
  
