SPECIFICATION Spec
CONSTANTS
  s1 = s1
  s2 = s2
  ann = ann
  bob = bob
  Least = 1
  Nobody = Nobody
  Session = {s1}
  User = {ann, bob}
  Value <- Values
  Payload <- AllPayloads
  DayLength = 1
  PageSize = 1
  MaxBacklog = 2
  MaxInt = 3
  MaxEvents = 3
  MaxClock = 1
  MaxCheckIns = 2
INVARIANTS
  SummariesAreExact
CHECK_DEADLOCK FALSE
