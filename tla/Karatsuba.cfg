CONSTANTS
  Bytes = 1
  CharBit = 2
  IntBits = 1
  Threshold = 4
  ShiftLimit = 1000
  Objects = {c1, c2}
  Starts <- LongStarts
  Types = {"auto", "naive"}
  Shifts <- MCShifts
  MaxDigits = 4
SPECIFICATION Spec
INVARIANT KaratsubaSameAsNaive
