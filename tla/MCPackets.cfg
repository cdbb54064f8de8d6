SPECIFICATION Spec
CONSTANTS
  d1 = d1
  d2 = d2
  MaxPacket = 16
  GtxtLength = 8
  Rtcm2Length = 2
  SizeMax = 1073741824
  Devices = {d1, d2}
  Sendings <- SendingsDef
  Sizes = {1, 100}
INVARIANTS
  
  StreamIsRead
  CutsMakeNoDifference
