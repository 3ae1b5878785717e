SPECIFICATION MCSpec
CONSTANTS
  w1 = w1
  w2 = w2
  ann = ann
  bob = bob
  cid = cid
  rex = rex
  tom = tom
  max = max
  Nobody = Nobody
  Worker = {w1, w2}
  User = {ann, bob, cid}
  Aggregate = {rex, tom, max}
  Value <- Values
  Published <- AllEvents
  MaxLevel = 3
  PageSize = 2
  MaxEvents = 4
  TableEvents = 3
  RankEvents = 4
  MaxResets = 1
  DefaultPageSize = 1
  MaxPageSize = 2
INVARIANTS
  ReadModelIsFold
  NoPoisonedBatch
  RanksAgree
PROPERTIES
  CheckpointMovesByPages
  NobodyOvertakesIdly
  BatchEnds
