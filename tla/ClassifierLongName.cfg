\* README.md:94 against a name longer than dns_hint holds.
SPECIFICATION ClassifierSpec
CONSTANTS
  cl = cl
  srv = srv
  res = res
  m1 = m1
  m2 = m2
  video = video
  voip = voip
  long = long
  Hosts <- MCHosts
  Lan = {cl}
  Keys <- MCKeys
  Macs = {m1, m2}
  senders <- MCSenders
  Responses <- MCLongResponses
  Hints = {video, voip, "cut"}
  cut <- MCLongCut
  Apps = {"YouTube", "Google Meet"}
  rule <- MCRule
  ports <- MCPorts
  Shapes <- MCCall
  Predictions <- MCNoModel
  MIN_PKTS = 5
  max_entries = 2
  dns_max_entries = 1
  FLOW_TIMEOUT_SEC = 0
  DNS_TTL_DEFAULT = 2
  PacketHorizon = 1
  MaxPkts <- MCMaxPkts
  MaxTime = 1
  ClockSteps = {}
PROPERTIES DomainMatchWins
