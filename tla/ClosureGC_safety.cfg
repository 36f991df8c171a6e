\* Two threads and one slot; closures are counted before the first poll of the
\* process, and after their tick was passed.
SPECIFICATION Spec
CONSTANTS
  App = {t1, t2}
  Obj = {o1, o2}
  NoObj = NoObj
  Slots = 1
  MaxInterval = 3
  RingSize = 3
  GcThreshold = 0
  FirstTick = 2
  MaxTick = 5
  MaxPending = 1
  IdleReturnsNow = FALSE
SYMMETRY Symmetry
INVARIANTS
  NothingPendingFreed
  EarliestBelowPending
