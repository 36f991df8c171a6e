SPECIFICATION FairSpec
CONSTANTS
  g1 = g1
  g2 = g2
  k1 = k1
  k2 = k2
  Group = {g1, g2}
  Key = {k1, k2}
  Bucket = {"b1"}
  HashOf <- MCHashOf
  Work <- MCWork
INVARIANTS TypeOK RecordsReplayable AnswersRecorded Framed
PROPERTIES AllFinalized
