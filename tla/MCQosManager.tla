---------------------------- MODULE MCQosManager ----------------------------
(* Two flows to one IPv4 address (two ports of one server) and one IPv6     *)
(* flow; a second is one QoS period.                                        *)
EXTENDS QosManager, TLC

CONSTANTS k1, k2, k6, server, server6

MCDst == (k1 :> server) @@ (k2 :> server) @@ (k6 :> server6)
MCIpv6 == (k1 :> FALSE) @@ (k2 :> FALSE) @@ (k6 :> TRUE)

=============================================================================
