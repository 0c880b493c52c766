CONSTANTS
  Day = 5
  Quota = 3
  Unit = 2
  Capacity = 4
  Refill = 1
  Threshold = 2
  Cooldown = 2
  Horizon = 9
SPECIFICATION Spec
INVARIANTS
  QuotaHolds
  RateHolds
  BreakerHolds
