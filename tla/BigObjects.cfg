CONSTANTS
  Bytes = 1
  CharBit = 2
  IntBits = 1
  Threshold = 4
  ShiftLimit = 1000
  Objects = {c1, c2}
  Starts <- MCStarts
  Types = {"auto", "naive"}
  Shifts <- MCShifts
  MaxDigits = 3
SYMMETRY Symmetry
SPECIFICATION Spec
INVARIANTS ImplementationSelected ResultsExact DifferencesExact ScaledExact ThrowsLeaveObject NormalFormKept
