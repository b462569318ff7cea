---------------------------- MODULE MCClassifier ----------------------------
(* A QUIC flow whose client address has two senders (a roaming station seen *)
(* through two MACs), and the DNS responses that name its server.  Two of   *)
(* the names match a rule; the long one does so only before it is cut.      *)
EXTENDS Classifier, TLC

CONSTANTS cl, srv, res, m1, m2, video, voip, long

MCHosts == {cl, srv, res}
quic  == [src |-> cl, dst |-> srv, port53 |-> FALSE]
reply == [src |-> res, dst |-> cl, port53 |-> TRUE]
MCKeys == {quic, reply}
MCSenders == (cl :> {m1, m2}) @@ (srv :> {m1}) @@ (res :> {m1})
Answer(n) == [name |-> n, answers |-> <<[ip |-> srv, ttl |-> 1]>>]
MCResponses == {Answer(video), Answer(voip)}
MCLongResponses == {Answer(long)}
MCLongCut == long :> "cut"
MCShortCut == (video :> video) @@ (voip :> voip)
MCRule ==
  (video :> [cls |-> "video", conf |-> 95, app |-> "YouTube"])
  @@ (voip :> [cls |-> "voip", conf |-> 92, app |-> "Google Meet"])
  @@ (long :> [cls |-> "video", conf |-> 95, app |-> "YouTube"])
MCPorts ==
  (quic :> [src |-> 40000, dst |-> 443, udp |-> TRUE])
  @@ (reply :> [src |-> 53, dst |-> 40001, udp |-> TRUE])
MCShapes ==
  { [size |-> 160, pps |-> 50, bps |-> 8000],       \* a call
    [size |-> 1300, pps |-> 150, bps |-> 195000],   \* a stream
    [size |-> 400, pps |-> 20, bps |-> 8000] }
MCCall == {[size |-> 160, pps |-> 50, bps |-> 8000]}
MCPredictions ==
  { [cls |-> "unknown", conf |-> 41], [cls |-> "social", conf |-> 40] }
MCNoModel == {NoModel}
MCMaxPkts == (quic :> 7) @@ (reply :> 1)

=============================================================================
