\* Every chain of up to four entries and every choice of stale ones.
SPECIFICATION SweepFairSpec
CONSTANTS
  Nodes = {e1, e2, e3, e4}
  NIL = NIL
INVARIANTS NoUseAfterFree KeepsExactlyLive
PROPERTIES SweepEnds
CHECK_DEADLOCK FALSE
