SPECIFICATION FairSpec
CONSTANTS
  r1 = r1
  r2 = r2
  ann = ann
  None = None
  Request = {r1, r2}
  User = {ann}
  RefreshTTL = 2
  MaxTokens = 3
  MaxClock = 2
  MaxBlocks = 1
INVARIANTS
  OneTokenPerLogin
  RegisteredOnce
PROPERTIES
  ImplementsSessions
  RequestEnds
CHECK_DEADLOCK FALSE
