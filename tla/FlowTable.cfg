\* Safety, refinement and liveness, with a clock that NTP may set forward or back.
SPECIFICATION FairSpec
CONSTANTS
  k1 = k1
  k2 = k2
  k3 = k3
  b1 = b1
  b2 = b2
  m1 = m1
  d1 = d1
  d2 = d2
  Keys <- MCKeys
  Macs = {m1}
  Data = {d1, d2}
  Buckets <- MCBuckets
  flow_hash <- MCHash
  max_entries = 2
  FLOW_TIMEOUT_SEC = 1
  PacketHorizon = 2
  MaxTime = 4
  ClockSteps <- MCSteps
INVARIANTS TypeOK OneEntryPerFlow CountExact
PROPERTIES IsAMap IdleFlowForgotten
