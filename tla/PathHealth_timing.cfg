\* Every accepted pair of intervals up to nine ticks, and cooldowns up to 16.
SPECIFICATION HealthSpec
CONSTANTS
  Durations <- MCDurations
  DefaultMin = 1
  DefaultMax = 6
  Width = 6
  MaxFailures = 5
INVARIANTS
  TypeOK
  BackoffSchedule
  RedialInTime
  AvoidedAtMost
PROPERTIES
  RestsAfterFailure
