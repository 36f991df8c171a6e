\* One thread, the poll of lsmtree and rbv; free logs overflow, two ticks share a slot.
SPECIFICATION Spec
CONSTANTS
  App = {t1}
  Obj = {o1, o2, o3}
  NoObj = NoObj
  Slots = 2
  MaxInterval = 3
  RingSize = 3
  GcThreshold = 0
  FirstTick = 2
  MaxTick = 6
  MaxPending = 2
  IdleReturnsNow = TRUE
SYMMETRY Symmetry
INVARIANTS
  TypeOK
  CountsExact
  CollectorOrdered
  EarliestBelowPending
  
  
  
PROPERTIES
  EarliestMonotone
