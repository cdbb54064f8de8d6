SPECIFICATION ClientSpec
CONSTANTS
  Cap = 8
  Lengths = {2, 4}
  MaxLines = 3
CHECK_DEADLOCK FALSE
INVARIANTS
  BufferIsKept
  LinesAreWhole
  FlagsAreRight
PROPERTIES
  SocketIsRead
  MembersAreRead
