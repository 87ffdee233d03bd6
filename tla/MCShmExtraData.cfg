CONSTANTS
  User = {c1, c2, c3}
  Block = {b1, b2, b3}
  None = none
  MaxSaves = 2
SPECIFICATION DataSpec
SYMMETRY ExtraSymmetry
INVARIANT LoadsWhatWasSaved
PROPERTY NeverForgotten
CHECK_DEADLOCK FALSE
