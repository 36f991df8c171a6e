\* Faults that are said to be handled: store.
SPECIFICATION Spec
CONSTANTS
  App = {t1, t2}
  Key = {k1, k2}
  Val = {v1, v2}
  NoVal = NoVal
  NoApp = NoApp
  NoAnswer = NoAnswer
  Buckets = 1
  Hash <- OneBucket
  MaxOps = 2
  SizeOfVal = SizeOfVal
  SizeOfEntry = SizeOfEntry
  kStored = kStored
  kCreated = kCreated
  Magic = Magic
  Faults = {"store"}
SYMMETRY Symmetry
INVARIANTS
  NoUndetectedSDC
