SPECIFICATION FairSpec
CONSTANTS
  Size = 8
  BlkSize = 2
  Wrap = 3
  MaxAge = 2
  Retries = 2
  Tids = {1, 2}
  NoTid = NoTid
INVARIANTS FileInOrder SentIsReceived
PROPERTIES TransfersEnd
CHECK_DEADLOCK FALSE
