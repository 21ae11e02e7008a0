\* Is a swap that is reported done a swap?
SPECIFICATION Spec
CONSTANTS
  s1 = s1
  s2 = s2
  s3 = s3
  Sensors = {s1, s2}
  Known <- KnownTwo
  None = None
  Bad = Bad
  MaxFailures = 1
  MaxRestarts = 0
  MaxSwaps = 1
  Swappable <- RowsZeroOne
INVARIANT SwapExchanges
