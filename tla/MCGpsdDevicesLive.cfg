SPECIFICATION FairSpec
CONSTANTS
  Tty = tty
  Ntrip = ntrip
  Path = {tty, ntrip}
  NtripPath = {ntrip}
  NoPath = none
  All = all
  Off = off
  Slots = 1
  Clients = 1
  MaxFd = 3
  Argv <- MCArgv
  ReleaseTimeout = 2
  Reconnect = 1
  CommandTimeout = 2
  MaxHups = 1
PROPERTIES
  DevicesAreServed
  SilenceIsNoticed
