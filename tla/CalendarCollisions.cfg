SPECIFICATION CalendarSpec
CONSTANTS
  Minute = 2
  Day = 10
  Offset = 2
  Opens = 0
  Closes = 8
  Denom = {juno, atom}
  Price = {1, 2}
  MaxTime = 12
  MaxMeetings = 2
INVARIANTS NoCollisions
CHECK_DEADLOCK FALSE
