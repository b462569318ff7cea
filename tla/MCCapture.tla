----------------------------- MODULE MCCapture -----------------------------
(* A LAN client and a server beyond the router, whose MAC sends for the     *)
(* server; the server's address may also answer from a second MAC.  Three   *)
(* 5-tuples compete for two places, three names' answers for two.           *)
EXTENDS Capture, TLC

CONSTANTS cl, srv, res, mcl, mrt, mrt2, video, long, hvideo, hlong

MCHosts == {cl, srv, res}
up   == [src |-> cl, dst |-> srv, port53 |-> FALSE]
down == [src |-> srv, dst |-> cl, port53 |-> FALSE]
reply == [src |-> res, dst |-> cl, port53 |-> TRUE]
MCKeys == {up, down, reply}
MCSenders == (cl :> {mcl}) @@ (srv :> {mrt, mrt2}) @@ (res :> {mrt})
MCResponses ==
  { [name |-> video, answers |-> <<[ip |-> srv, ttl |-> 1]>>],
    [name |-> long, answers |-> <<[ip |-> srv, ttl |-> 0], [ip |-> res, ttl |-> 1],
                                  [ip |-> cl, ttl |-> 1]>>] }
MCCut == (video :> hvideo) @@ (long :> hlong)
MCMaxPkts == [k \in MCKeys |-> 2]

=============================================================================
