\* A PL011: a character is written while the device is full.
SPECIFICATION Spec
CONSTANTS
  Devices = {"pl011"}
  FifoDepth = 2
  MaxKeys = 1
  CntFreq = 2
  MaxCount = 3
  IntMax = 7
  TextLength = 2
PROPERTIES
  WritesIntoRoom
