\* A main thread that may stall anywhere, two dumps that may hold the lock: does
\* a pass end?
SPECIFICATION FairSpec
CONSTANTS
  Devices = {m1}
  None = None
  MainMeter = m1
  MinutesPerHour = 2
  HoursPerDay = 1
  LastDay = 1
  MaxEdges = 2
  MaxCrashes = 0
  MaxDumps = 2
  Prompt = FALSE
PROPERTY
  PassEnds
