SPECIFICATION Spec
CONSTANTS
  s1 = s1
  s2 = s2
  ann = ann
  bob = bob
  Least = 1
  Nobody = Nobody
  Session = {s1}
  User = {ann}
  Value <- Values
  Payload <- OnePayload
  DayLength = 2
  PageSize = 2
  MaxBacklog = 3
  MaxInt = 3
  MaxEvents = 2
  MaxClock = 3
  MaxCheckIns = 3
INVARIANT YesterdayIsReported
CHECK_DEADLOCK FALSE
