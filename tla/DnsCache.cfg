\* Safety, refinement and liveness; NTP may set the clock forward. An answer without
\* a TTL gets two seconds.
SPECIFICATION DnsFairSpec
CONSTANTS
  ip1 = ip1
  ip2 = ip2
  ip3 = ip3
  c1 = c1
  c2 = c2
  Ips <- MCIps
  Names = {n1, n2}
  Ttls = {0, 1, 3}
  DnsBuckets <- MCDnsBuckets
  dns_ip_hash <- MCDnsHash
  dns_max_entries = 2
  DNS_TTL_DEFAULT = 2
  AnswerHorizon = 3
  MaxTime = 6
  ClockSteps = {6}
INVARIANTS OneEntryPerIp DnsCountExact
PROPERTIES ServesLiveNames FullCacheDrains
