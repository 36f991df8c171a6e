SPECIFICATION Spec
CONSTANTS
  Thread = {t1, t2}
  Buffer = {b1, b2, b3}
  MaxSize = 4
  HeadSize = 1
  MinSize = 2
  Lengths = {1, 2, 3}
  QCap = 1
  MaxDepth = 1
  MaxStash = 1
  NoBuffer = NoBuffer
  NoThread = NoThread
SYMMETRY Symmetry
INVARIANTS
  TypeOK
  LogsDisjoint
  FreeBuffersUnused
  NoBufferStranded
  ClosuresCounted
PROPERTIES
  ImplementsLogStore
