SPECIFICATION FairLogSpec
CONSTANTS
  c1 = c1
  Conns <- OneConn
  QueueSize = 2
  Batch = 2
  RingSize = 3
  Replay = 2
  SubSize = 2
  MaxRecords = 3
  MaxOwn = 2
  MaxFaults = 1
  MaxConnects = 1
INVARIANTS RecordsInOrder StreamFaithful
PROPERTIES RecordsLeave
CHECK_DEADLOCK FALSE
