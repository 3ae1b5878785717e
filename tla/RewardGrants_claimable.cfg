SPECIFICATION Spec
CONSTANTS
  s1 = s1
  s2 = s2
  s3 = s3
  ann = ann
  login = login
  open = open
  coins = coins
  promo = promo
  None = None
  Session = {s1}
  User = {ann}
  Task = {login, open}
  Reward = {coins, promo}
  ActiveReward = {coins}
  RewardOf <- Shared
  RequiredLevel <- LevelOne
  ValidityDays <- CoinsForADay
  Level = {0, 1}
  MaxClock = 0
  Issuing = FALSE
INVARIANT CompletedTaskIsClaimable
CHECK_DEADLOCK FALSE
