\* Up for longer than the interval, free logs with room: closures counted late.
SPECIFICATION Spec
CONSTANTS
  App = {t1, t2}
  Obj = {o1, o2, o3}
  NoObj = NoObj
  Slots = 2
  MaxInterval = 3
  RingSize = 5
  GcThreshold = 0
  FirstTick = 3
  MaxTick = 5
  MaxPending = 1
  IdleReturnsNow = TRUE
SYMMETRY Symmetry
INVARIANTS
  LoadsSafe
