\* Both devices, two keys, a few seconds.
SPECIFICATION Spec
CONSTANTS
  Devices = {"pl011", "ns16550"}
  FifoDepth = 2
  MaxKeys = 2
  CntFreq = 2
  MaxCount = 5
  IntMax = 1
  TextLength = 2
INVARIANTS
  TypeOK
  GetcNeverWaits
  MaskedInHandlers
  SecondsStayOnGrid
  SecondsShown
PROPERTIES
  LossNeedsHandler
  TimerCatchesUp
  KeysRead
  BootEnds
