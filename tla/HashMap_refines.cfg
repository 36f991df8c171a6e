\* No fault strikes; the keys share a bucket.
SPECIFICATION Spec
CONSTANTS
  App = {t1, t2}
  Key = {k1, k2}
  Val = {v1, v2}
  NoVal = NoVal
  NoApp = NoApp
  Buckets = 1
  Hash <- OneBucket
  MaxOps = 3
  SizeOfVal = SizeOfVal
  SizeOfEntry = SizeOfEntry
  kStored = kStored
  kCreated = kCreated
  Magic = Magic
  Faults = {}
  NoAnswer = NoAnswer
SYMMETRY Symmetry
INVARIANTS
  TypeOK
  NoFalseAlarm
PROPERTIES
  ImplementsAtomicMap
