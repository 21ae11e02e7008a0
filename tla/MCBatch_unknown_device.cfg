CONSTANTS
  Powers = {43}
  Gaps = {1, 3}
  MinSteps = 2
  MaxSteps = 2
  C = 2
  Iterations = 4
  Real = 3
  Qualities = {1}
  PreviousVal = 10000000
  MaxDevices = 2
  Clusters <- ClusterSet
  RisingOnes <- RisingSet
  Period <- PeriodMap
  Found <- FoundMap
  FoundDevices = 3
  Intervals = {1}
  LastStep = 4
  MaxEdits = 1
  MaxDeviceRows = 3
  Length <- ShortYear
  LeapLength = 2
  Years = {2007}
  MaxDays = 1
  MaxRows = 0
  Day = 3
  Resolutions = {2}
SPECIFICATION Spec
INVARIANT UnknownAddsNothing
