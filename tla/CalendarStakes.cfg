SPECIFICATION CalendarSpec
CONSTANTS
  Minute = 2
  Day = 10
  Offset = 2
  Opens = 0
  Closes = 8
  Denom = {juno, atom}
  Price = {1, 2}
  MaxTime = 12
  MaxMeetings = 3
INVARIANTS StakesAccountedFor
CHECK_DEADLOCK FALSE
