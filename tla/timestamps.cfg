CONSTANTS
  DaysPerYear = 2
  HoursPerDay = 2
  MicrosPerHour = 2
  MaxYear = 11
  Stamps <- MCStamps
  Bounds <- MCBounds
  AsOfs <- MCAsOfs
  Windows <- MCWindows
  NULL = NULL
  MaxRows = 3
SPECIFICATION Spec
CHECK_DEADLOCK FALSE
INVARIANTS
  TextOrderIsTimeOrder
  WindowIsExact
  DateGroupsAreDateWindows
  StaleIsOlder
