\* Faults that validation detects.
SPECIFICATION FairSpec
CONSTANTS
  App = {t1, t2}
  Key = {k1, k2}
  Val = {v1, v2}
  NoVal = NoVal
  NoApp = NoApp
  NoAnswer = NoAnswer
  Buckets = 2
  Hash <- OneBucket
  MaxOps = 2
  SizeOfVal = SizeOfVal
  SizeOfEntry = SizeOfEntry
  kStored = kStored
  kCreated = kCreated
  Magic = Magic
  Faults = {"hash", "branch", "address", "value", "sum", "return"}
INVARIANTS
  Contained
PROPERTIES
  FaultReported
