----------------------------- MODULE MCClients -----------------------------
(* A phone and a TV on two interfaces of one network and the router itself:  *)
(* one more source than there are places for stations, clients and devices.  *)
EXTENDS Clients, TLC

CONSTANTS phone, tv, router, k1, k2, k3

MCIfaces == <<"wlan0", "wlan1">>
MCSsid == ("wlan0" :> "home") @@ ("wlan1" :> "guest")
MCKeys == <<k1, k2, k3>>
MCSenders == (k1 :> {phone}) @@ (k2 :> {tv}) @@ (k3 :> {tv, router})

Rule(type, weight) == [type |-> type, weight |-> weight]
MCDnsRules == ("captive.apple.com" :> Rule(2, 2)) @@ ("pool.ntp.org" :> Rule(DEV_IOT, 1))
MCOuiRules == tv :> Rule(6, 3)

Traffic(hint, dst, udp, pkts, bytes, cls, app) ==
  [dns_hint |-> hint, dst_domain |-> dst, udp |-> udp, pkts |-> pkts,
   bytes |-> bytes, cls |-> cls, app |-> app]

\* Too short for a verdict; named by its destination; a sensor's pattern; a
\* stream without a name.
MCKinds ==
  { Traffic("captive.apple.com", "captive.apple.com", FALSE, 4, 1, "browsing", "Apple"),
    Traffic("pool.ntp.org", NoName, TRUE, 11, 1649, "other", NoApp),
    Traffic(NoName, "other.example", TRUE, 50, 4, "video", "YouTube") }

=============================================================================
