SPECIFICATION CalendarSpec
CONSTANTS
  Starts <- MCStarts
  Horizon = 500
  MaxDelay = 3
INVARIANTS AdvanceIsLater ClampsToMonthEnd LoginSinceMailCounts LinkOutlivesWait
CHECK_DEADLOCK FALSE
