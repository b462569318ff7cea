--------------------------- MODULE MCUsageProfile ---------------------------
(* Three clients for two places, one of them with a well-known and two low *)
(* ports and room to remember two.                                          *)
EXTENDS UsageProfile, TLC

CONSTANTS web, ssh, telnet, other, extra, m1, m2, m3

MCFlows == <<web, ssh, telnet, other, extra>>
MCSrc == (web :> m1) @@ (ssh :> m1) @@ (telnet :> m1) @@ (other :> m2) @@ (extra :> m3)
MCPort == (web :> 443) @@ (ssh :> 22) @@ (telnet :> 23) @@ (other :> 22) @@ (extra :> 443)
L(n, c) == [bytes |-> n, cls |-> c]
MCLoads ==
  (web :> {L(2000, "video"), L(50000, "video"), L(50000, "social")})
  @@ (ssh :> {L(2000, "video")}) @@ (telnet :> {L(2000, "video")})
  @@ (other :> {L(2000, "video")})
  @@ (extra :> {L(2000, "video")})

=============================================================================
