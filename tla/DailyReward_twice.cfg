SPECIFICATION Spec
CONSTANTS
  s1 = s1
  s2 = s2
  None = None
  Session = {s1, s2}
  CycleLength = 3
  Cooldown = 2
  Grace = 4
  MaxClock = 3
  MaxClaims = 2
INVARIANT OncePerCooldown
CHECK_DEADLOCK FALSE
