SPECIFICATION Spec
CONSTANTS
  Bytes = 2
  CharBit = 8
  IntBits = 8
  Threshold = 4
  ShiftLimit = 1000
  Radix = 10
  Half = 5
  ExtraPlaces = 1
  Sizes = {3, 6}
  Multiple = 4
  NumTests = 3
  Rounds = 3
  BlockSize = 30
  Texts <- MCTexts
  Places = {0, 1, 2}
  Shifts = {1}
  Candidates <- MCCandidates
  MaxInt = 60
  MaxPlaces = 2
INVARIANTS VersionsAgree ArithmeticExact PlacesExact OrderExact  WordsExact
