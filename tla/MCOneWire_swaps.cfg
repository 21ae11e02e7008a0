\* The settings page swaps two rows at any moment of a round.
SPECIFICATION Spec
CONSTANTS
  s1 = s1
  s2 = s2
  s3 = s3
  Sensors = {s1, s2}
  Known <- KnownTwo
  None = None
  Bad = Bad
  MaxFailures = 1
  MaxRestarts = 1
  MaxSwaps = 1
  Swappable <- RowsZeroOne
PROPERTY WholeRounds
