SPECIFICATION FrontendSpec
CONSTANTS
  t1 = t1
  t2 = t2
  f1 = f1
  f2 = f2
  ann = ann
  bob = bob
  s1 = s1
  s2 = s2
  cat1 = cat1
  cat2 = cat2
  None = None
  Failed = Failed
  Tab = {t1, t2}
  Look = {cat1, cat2}
  Max = 4
  Hungry = 2
  Meal = 2
  MealMood = 1
  MealExp = 1
  Effort = 3
  PlayMood = 2
  PlayExp = 2
  NewPet <- Kitten
  NewLook = cat1
  MaxExp = 3
  Form = {f1, f2}
  User = {ann, bob}
  MaxTokens = 3
  Session = {s1, s2}
  CycleLength = 3
  Cooldown = 2
  Grace = 4
  MaxClock = 3
  MaxClaims = 3
  MaxOpens = 2
  CalendarClock = 9
  CalendarClaims = 4
  Nothing = Nothing
SYMMETRY Symmetry
INVARIANTS
  SessionKept
  AccountMatchesTokens
  
  NeedsInRange
  SavedAcrossSessions
  OfferFollowsClaims
  StreakRule
  LogMatchesProgress
  DaysAreEarned
CHECK_DEADLOCK FALSE
