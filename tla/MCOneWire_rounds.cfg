\* The daemon alone: calls that fail, sensors that come and go.
SPECIFICATION Spec
CONSTANTS
  s1 = s1
  s2 = s2
  s3 = s3
  Sensors = {s1, s2, s3}
  Known <- KnownOne
  None = None
  Bad = Bad
  MaxFailures = 2
  MaxRestarts = 0
  MaxSwaps = 0
  Swappable <- RowsZeroOne
INVARIANTS ReadsItsRow OneRowPerSensor LoggedUnderItsId
PROPERTY WholeRounds
SYMMETRY NewSensors
