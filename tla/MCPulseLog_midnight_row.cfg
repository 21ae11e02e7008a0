\* The clock may pass 00:00 between the sample and the table's name.
SPECIFICATION Spec
CONSTANTS
  Devices = {m1}
  None = None
  MainMeter = m1
  MinutesPerHour = 3
  HoursPerDay = 1
  LastDay = 1
  MaxEdges = 2
  MaxCrashes = 0
  MaxDumps = 0
  Prompt = FALSE
INVARIANT
  RowInDayOfItsMinute
