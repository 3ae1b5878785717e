SPECIFICATION Spec
CONSTANTS
  ann = ann
  bob = bob
  k1 = k1
  k2 = k2
  x = x
  y = y
  Nil = Nil
  Absent = Absent
  User = {ann, bob}
  CommandId = {k1, k2}
  Aggregate = {x, y}
  Input <- AllInputs
  Clock = {2, 4}
  MaxVersion = 5
  MaxCommandEvents = 3
  MaxStored = 1
INVARIANTS
  PrepareIsExact
  ReplayIffSame
