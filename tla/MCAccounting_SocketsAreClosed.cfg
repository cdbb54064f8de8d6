SPECIFICATION Spec
CONSTANTS
  App = {cgps, xgps}
  Gpsd = gpsd
  NoName = none
  Port = {40001}
  Backlog = 1
  MaxFd = 4
  MaxSlot = 2
  MaxConn = 2
  MaxAccept = 2
CHECK_DEADLOCK FALSE
INVARIANT SocketsAreClosed
