\* The minimum delay between two dials of one path.
SPECIFICATION Spec
CONSTANTS
  Durations <- MCDurations
  DefaultMin = 1
  DefaultMax = 6
  Width = 6
  MaxFailures = 5
PROPERTIES
  MinimumRetryDelay
