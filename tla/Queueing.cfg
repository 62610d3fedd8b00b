SPECIFICATION Spec
CONSTANTS
  Tickets = {t1, t2, t3, t4}
  MaxPlaces = 2
  HoursKept = 1
  HourLength = 2
  MaxTime = 5
  MaxProcess = 1
SYMMETRY Symmetry
INVARIANTS
  LastDayIsExact
  LongestCoversEveryWait
PROPERTIES
  ImplementsPlaces
