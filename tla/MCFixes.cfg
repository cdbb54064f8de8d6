SPECIFICATION Spec
CONSTANTS
  HoursPerDay = 8
  FirstHour = 5
  MaxChannels = 2
  MaxEpochs = 5
  Receivers <- ReceiversDef
CHECK_DEADLOCK FALSE
INVARIANTS
  EpochsAreApart
  
  ComputedIsCurrent
PROPERTIES
  TimesAreRight
