\* Two lives of the daemon, with crashes between any two steps.
SPECIFICATION OutputsFairSpec
CONSTANTS
  m1 = m1
  m2 = m2
  m3 = m3
  MAX_ROWS = 4
  FLUSH_EVERY = 2
  MIN_PKTS_FOR_SAMPLE = 10
  Samples <- MCSamples
  Tables <- MCTables
  Classes = {"unknown", "video", "voip"}
  MAX_CLIENTS = 2
  MAX_APPS = 1
  MaxStarts = 2
  MaxRecorded = 6
  MaxExports = 2
INVARIANTS HeaderFirstOnce PausedIsDurable LossIsBounded ReportAddsUp
PROPERTIES PublishesInOrder EventuallyPublished
CHECK_DEADLOCK FALSE
