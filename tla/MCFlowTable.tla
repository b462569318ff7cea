---------------------------- MODULE MCFlowTable ----------------------------
(* Three flows on two chains, a table of two: the third flow meets a full   *)
(* table, and two of them share a chain.                                    *)
EXTENDS FlowTable, TLC

CONSTANTS k1, k2, k3, b1, b2, m1, d1, d2

MCKeys == {k1, k2, k3}
MCBuckets == {b1, b2}
MCHash == (k1 :> b1) @@ (k2 :> b1) @@ (k3 :> b2)
MCSteps == {0, 4}

=============================================================================
