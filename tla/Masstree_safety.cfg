SPECIFICATION FairSpec
CONSTANTS
  Thread = {"t0", "t1", "t2", "t3"}
  Loader = "t0"
  Key <- MCKey
  Val = {"a", "b"}
  NoVal = "-"
  Fanout = 3
  MaxNodes = 28
  Work <- MCWork
  Replayed = {"t3"}
INVARIANTS TypeOK LocksOwned LocateFinds TreeChecks
PROPERTIES ImplementsSharedMap CallsReturn
