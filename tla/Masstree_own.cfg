SPECIFICATION Spec
CONSTANTS
  Thread = {"t0", "t1", "t2", "t3"}
  Loader = "t0"
  Key <- MCKey
  Val = {"a", "b"}
  NoVal = "-"
  Fanout = 3
  MaxNodes = 28
  Work <- MCWorkOwn
  Replayed = {"t3"}
INVARIANTS FindsOwn
