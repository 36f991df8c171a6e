SPECIFICATION FairSpec
CONSTANTS
  Thread = {t1, t2}
  Buffer = {b1, b2}
  MaxSize = 4
  HeadSize = 1
  MinSize = 1
  Lengths = {1, 2}
  QCap = 1
  MaxDepth = 1
  MaxStash = 0
  NoBuffer = NoBuffer
  NoThread = NoThread
PROPERTIES
  EnqueueCompletes
  BufferRecycled
  JoinReturns
