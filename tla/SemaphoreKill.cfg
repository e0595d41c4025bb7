SPECIFICATION SemaphoreFairSpec
CONSTANTS
  Callers = {a, b, c}
  MaxValue = 2
  Kills = TRUE
PROPERTY
  WaitEndsWhenPositive
CHECK_DEADLOCK FALSE
