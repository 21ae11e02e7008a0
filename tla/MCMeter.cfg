CONSTANTS
  Gaps <- GapSet
  ClockSteps <- ClockSet
  MaxSteps = 1
  CalcTimes = {0, 12}
  Deltas = {0, 50}
  Waits = {0, 1}
  BufferLength = 16
  FilterLength = 11
  WindowSize = 12
  Space = 10
  Marker = 2
  Loads = {100, 1000, 2000}
  MinDwell = 6
  MaxChanges = 3
  MaxSamples = 36
  BufferLength2 = 4
  Powers = {0, 5, 13}
  MaxEpoch = 9
SPECIFICATION PartSpec
INVARIANTS ValueExact OneLoad PositiveTime ValueComes StepsOnce EpochNear SecondsInOrder OnLine
