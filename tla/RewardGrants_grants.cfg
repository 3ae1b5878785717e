SPECIFICATION FairSpec
CONSTANTS
  s1 = s1
  s2 = s2
  s3 = s3
  ann = ann
  login = login
  open = open
  coins = coins
  promo = promo
  None = None
  Session = {s1, s2, s3}
  User = {ann}
  Task = {login, open}
  Reward = {coins, promo}
  ActiveReward = {coins}
  RewardOf <- Shared
  RequiredLevel <- LevelOne
  ValidityDays <- CoinsForADay
  Level = {0, 1}
  MaxClock = 2
  Issuing = TRUE
INVARIANTS
  ClaimedMeansGranted
  RefusalsAreTrue
PROPERTIES
  GrantsAreFinal
  RequestEnds
CHECK_DEADLOCK FALSE
