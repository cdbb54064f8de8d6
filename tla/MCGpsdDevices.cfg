SPECIFICATION Spec
CONSTANTS
  Tty = tty
  Ntrip = ntrip
  Path = {tty, ntrip}
  NtripPath = {ntrip}
  NoPath = none
  All = all
  Off = off
  Slots = 2
  Clients = 1
  MaxFd = 3
  Argv <- MCArgv
  ReleaseTimeout = 0
  Reconnect = 0
  CommandTimeout = 0
  MaxHups = 0
INVARIANTS
  
  EveryoneIsSelected
  ReadsWhatSelectSaw
