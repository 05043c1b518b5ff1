SPECIFICATION LiveDailySpec
CONSTANTS
  MaxDate = 2
  MaxFaults = 1
CHECK_DEADLOCK FALSE
PROPERTY DailyRetry
