\* Windows, baselines and the ring, over a few windows of two hours of the day.
SPECIFICATION ProfileSpec
CONSTANTS
  web = web
  ssh = ssh
  telnet = telnet
  other = other
  extra = extra
  m1 = m1
  m2 = m2
  m3 = m3
  Flows <- MCFlows
  src_mac <- MCSrc
  dst_port <- MCPort
  CommonPorts = {0, 443}
  Classes = {"video", "social"}
  loads <- MCLoads
  Hours = {11, 12}
  PROFILE_MAX_CLIENTS = 2
  SEEN_PORTS_BUCKETS = 2
  ANOMALY_RING_SIZE = 2
  PORT_HISTORY = 0
  BASELINE_BYTES = 1000
  MIN_SAMPLES = 1
  MIN_SHIFT_SAMPLES = 1
  MIN_SHIFT_FLOWS = 2
  HEAVY_FLOWS = 1
  MaxChanges = 3
  MaxPasses = 5
INVARIANTS RecentFirst FlaggedSinceTick PortReportedOnce SpikesSubside
