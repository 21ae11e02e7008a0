CONSTANTS
  MinutesPerHour = 6
  HoursPerDay = 2
  DaysPerMonth = 2
  LastTime = 32
  Nobody = Nobody
SPECIFICATION Spec
INVARIANTS NameMixesTwoDays RowsKeepComing ArgsNearSample
