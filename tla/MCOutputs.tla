----------------------------- MODULE MCOutputs -----------------------------
(* Small instance of Outputs: a limit of two flush intervals, two places for *)
(* clients and one for their applications.                                   *)
EXTENDS Outputs

CONSTANTS m1, m2, m3

\* Too few packets; unknown and not confident; known; confident.
MCSamples ==
  { [pkts |-> 9, known |-> TRUE, confident |-> TRUE],
    [pkts |-> 10, known |-> FALSE, confident |-> FALSE],
    [pkts |-> 10, known |-> TRUE, confident |-> FALSE],
    [pkts |-> 10, known |-> FALSE, confident |-> TRUE] }

Flow(mac, cls, app, bytes) == [mac |-> mac, cls |-> cls, app |-> app, bytes |-> bytes]

\* No flow; and more clients than places, the last of them twice, and more
\* applications than places, one of them twice, between flows without one.
MCTables ==
  { <<>>,
    <<Flow(m1, "unknown", NoApp, 1), Flow(m1, "video", "YouTube", 5), Flow(m2, "unknown", NoApp, 2),
      Flow(m3, "voip", "Zoom", 8), Flow(m1, "voip", "Zoom", 16), Flow(m1, "video", "YouTube", 32),
      Flow(m3, "video", "YouTube", 64)>> }
=============================================================================
