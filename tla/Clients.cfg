\* Stations that roam, flows that come and go, and the replies about both.
SPECIFICATION ClientsSpec
CONSTANTS
  phone = phone
  tv = tv
  router = router
  k1 = k1
  k2 = k2
  k3 = k3
  Stations = {phone, tv}
  Ifaces <- MCIfaces
  ssid_of <- MCSsid
  MAX_STATIONS = 2
  MAX_CLIENTS = 2
  dns_rules <- MCDnsRules
  oui_rules <- MCOuiRules
  FP_MAX_DEVICES = 2
  Classes = {"unknown", "browsing", "video", "other"}
  MAX_APPS = 1
  Keys <- MCKeys
  senders <- MCSenders
  Kinds <- MCKinds
  MIN_PKTS = 5
  MaxWork = 5
INVARIANTS StayedIsFound FoundWasThere RepliesAgree VendorVotesOnce
PROPERTIES GuessFollowsVotes
