\* The shipped build: a model is linked in; it answers "unknown" just above the
\* threshold of 0.40, or a class with no more than that.
SPECIFICATION ClassifierFairSpec
CONSTANTS
  cl = cl
  srv = srv
  res = res
  m1 = m1
  m2 = m2
  video = video
  voip = voip
  long = long
  Hosts <- MCHosts
  Lan = {cl}
  Keys <- MCKeys
  Macs = {m1, m2}
  senders <- MCSenders
  Responses <- MCResponses
  Hints = {video, voip, "cut"}
  cut <- MCShortCut
  Apps = {"YouTube", "Google Meet"}
  rule <- MCRule
  ports <- MCPorts
  Shapes <- MCShapes
  Predictions <- MCPredictions
  MIN_PKTS = 5
  max_entries = 2
  dns_max_entries = 1
  FLOW_TIMEOUT_SEC = 0
  DNS_TTL_DEFAULT = 2
  PacketHorizon = 1
  MaxPkts <- MCMaxPkts
  MaxTime = 1
  ClockSteps = {}
INVARIANTS AppAgreesWithHint VolumeRulesNeedBackward
PROPERTIES DomainVerdictSticks EventuallyClassified
