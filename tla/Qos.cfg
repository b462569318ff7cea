\* Marks against verdicts, with a timer that may be late, a crash, a respawn, and
\* nft commands that may fail.
SPECIFICATION QosSpec
CONSTANTS
  k1 = k1
  k2 = k2
  k6 = k6
  server = server
  server6 = server6
  Keys = {k1, k2, k6}
  dst_ip <- MCDst
  is_ipv6 <- MCIpv6
  Given = {"video", "voip"}
  QOS_PERIOD = 1
  SET_TIMEOUT = 3
  MAX_LATE = 1
  NftMayFail = TRUE
  MaxStarts = 2
  ChangeHorizon = 2
  MaxTime = 6
  ClockSteps = {}
INVARIANTS LatestSetWins CleanStopLeavesNothing MarkExpires GapIsShort
CHECK_DEADLOCK FALSE
