\* A daemon that keeps up with its clock, over two midnights.
SPECIFICATION Spec
CONSTANTS
  Devices = {m1}
  None = None
  MainMeter = m1
  MinutesPerHour = 2
  HoursPerDay = 2
  LastDay = 2
  MaxEdges = 2
  MaxCrashes = 1
  MaxDumps = 1
  Prompt = TRUE
INVARIANTS
  PulseLedger
  TodayFromTable
  DayCurrent
  RowInDayOfItsMinute
PROPERTY
  ImplementsLedger
