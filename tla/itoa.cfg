\* Ints of 8 bits, arguments of 16: boundaries of digits, signs and widths.
SPECIFICATION Spec
CONSTANTS
  Width = 8
  Args = {0, 1, 9, 10, 35, 36, 99, 100, 127, 128, 129, 200, 246, 255, 256, 266, 511, 65535}
  Bases = {2, 3, 10, 16, 36}
  BufSize = 14
INVARIANTS
  TypeOK
  ReadsBack
PROPERTIES
  StaysInside
