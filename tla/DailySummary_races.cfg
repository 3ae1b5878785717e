SPECIFICATION FairSpec
CONSTANTS
  s1 = s1
  s2 = s2
  ann = ann
  bob = bob
  Least = 1
  Nobody = Nobody
  Session = {s1, s2}
  User = {ann}
  Value <- Values
  Payload <- FewPayloads
  DayLength = 2
  PageSize = 2
  MaxBacklog = 3
  MaxInt = 3
  MaxEvents = 1
  MaxClock = 3
  MaxCheckIns = 3
INVARIANTS
  CheckInsChain
  OneSummaryPerDay
  NoFalseAlarm
  QuarantineIsCommitted
PROPERTY CheckInEnds
CHECK_DEADLOCK FALSE
