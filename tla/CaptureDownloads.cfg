\* Download packets against README.md:110.
SPECIFICATION CaptureSpec
CONSTANTS
  cl = cl
  srv = srv
  res = res
  mcl = mcl
  mrt = mrt
  mrt2 = mrt2
  video = video
  long = long
  hvideo = hvideo
  hlong = hlong
  Hosts <- MCHosts
  Lan = {cl}
  Keys <- MCKeys
  Macs = {mcl, mrt, mrt2}
  senders <- MCSenders
  Responses <- MCResponses
  Hints = {hvideo, hlong}
  cut <- MCCut
  max_entries = 2
  dns_max_entries = 2
  FLOW_TIMEOUT_SEC = 1
  DNS_TTL_DEFAULT = 2
  PacketHorizon = 2
  MaxPkts <- MCMaxPkts
  MaxTime = 3
  ClockSteps = {}
INVARIANTS DownloadsCountBackward
