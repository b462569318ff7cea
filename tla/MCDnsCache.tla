----------------------------- MODULE MCDnsCache -----------------------------
(* Three addresses on two chains and room for two of them.                  *)
EXTENDS DnsCache, TLC

CONSTANTS ip1, ip2, ip3, c1, c2

MCIps == {ip1, ip2, ip3}
MCDnsBuckets == {c1, c2}
MCDnsHash == (ip1 :> c1) @@ (ip2 :> c1) @@ (ip3 :> c2)

=============================================================================
