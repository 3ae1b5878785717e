SPECIFICATION Spec
CONSTANTS
  s1 = s1
  s2 = s2
  None = None
  Session = {s1}
  CycleLength = 3
  Cooldown = 2
  Grace = 4
  MaxClock = 8
  MaxClaims = 3
INVARIANT RestartResetsLap
CHECK_DEADLOCK FALSE
