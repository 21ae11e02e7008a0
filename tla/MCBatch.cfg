CONSTANTS
  Powers = {43, 47, 90}
  Gaps = {1, 3}
  MinSteps = 2
  MaxSteps = 5
  C = 2
  Iterations = 4
  Real = 3
  Qualities = {1, 2, 3}
  PreviousVal = 10000000
  MaxDevices = 2
  Clusters <- ClusterSet
  RisingOnes <- RisingSet
  Period <- PeriodMap
  Found <- FoundMap
  FoundDevices = 3
  Intervals = {1}
  LastStep = 4
  MaxEdits = 1
  MaxDeviceRows = 4
  Length <- ShortYear
  LeapLength = 2
  Years = {2007, 2008, 2009}
  MaxDays = 6
  MaxRows = 2
  Day = 3
  Resolutions = {2, 3, 4}
SPECIFICATION Spec
INVARIANTS Converged PeriodIsMean Partition CrossDraws WorstReplaced SavedWhole NestedPairs CountedOnce InRange DaysInOrder RowsKept OnePeriod
