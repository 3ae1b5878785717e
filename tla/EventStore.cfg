SPECIFICATION FairSpec
CONSTANTS
  s1 = s1
  s2 = s2
  ann = ann
  bob = bob
  k1 = k1
  k2 = k2
  pet = pet
  game = game
  x = x
  y = y
  None = None
  Session = {s1, s2}
  Owner = {ann, bob}
  CommandId = {k1, k2}
  Stream = {pet, game}
  Body = {x, y}
  Command <- AllCommands
  Plan <- AllPlans
  MaxTransactions = 4
INVARIANTS
  NoPositionGap
  StreamsFollowEvents
  DraftsConsistent
  CommandsWhole
  AcknowledgedIsStored
  ConflictMeansNotStored
PROPERTIES
  CommitsInPositionOrder
  ImplementsLog
  TransactionEnds
CHECK_DEADLOCK FALSE
