------------------------------ MODULE FlowMap ------------------------------
(***************************************************************************)
(* What the flow table promises its callers: a map from 5-tuples to flow   *)
(* records that never holds more than max_entries of them, forgets a flow  *)
(* only in a sweep, and in a sweep forgets exactly the silent ones.        *)
(* No hash, no chains, no counter.                                         *)
(***************************************************************************)
EXTENDS Clock, FiniteSets

CONSTANTS Keys, Macs, Data, max_entries, FLOW_TIMEOUT_SEC

VARIABLE flow     \* the tracked flows, a function on a subset of Keys

mapVars == <<flow, now>>

Record(mac, born, d) ==
  [src_mac |-> mac, created |-> born, last_seen |-> now, data |-> d]

Silent(key) == now - flow[key].last_seen > FLOW_TIMEOUT_SEC

With(key, r) == [k \in DOMAIN flow \cup {key} |-> IF k = key THEN r ELSE flow[k]]

MapInit == flow = [k \in {} |-> {}] /\ ClockInit

\* A packet of a tracked flow renews its record and keeps who opened it.
Renew ==
  \E key \in DOMAIN flow, d \in Data :
    flow' = With(key, Record(flow[key].src_mac, flow[key].created, d))

\* A packet of an untracked flow opens a record while there is room.
Open ==
  /\ Cardinality(DOMAIN flow) < max_entries
  /\ \E key \in Keys \ DOMAIN flow, mac \in Macs, d \in Data :
       flow' = With(key, Record(mac, now, d))

Sweep == flow' = [k \in {j \in DOMAIN flow : ~Silent(j)} |-> flow[k]]

Rewrite ==
  \E f \in [Keys -> Data] :
    flow' = [k \in DOMAIN flow |-> [flow[k] EXCEPT !.data = f[k]]]

MapNext ==
  \/ (Renew \/ Open \/ Sweep \/ Rewrite) /\ UNCHANGED now
  \/ (Tick \/ ClockStep) /\ UNCHANGED flow

MapSpec == MapInit /\ [][MapNext]_mapVars

=============================================================================
