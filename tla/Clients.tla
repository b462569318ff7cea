------------------------------ MODULE Clients ------------------------------
(***************************************************************************)
(* Who the daemon says its clients are: ubus_api.c's read-only methods     *)
(* over the flow table, the station list and the device records, composed  *)
(* with what changes those three.                                          *)
(*                                                                         *)
(* The callbacks of the one thread interleave; only a refresh of the       *)
(* station list has steps, because it waits for hostapd, and while it      *)
(* waits no other callback runs (libubus queues method calls meanwhile).   *)
(* Flows come with the traffic of a member of Kinds, which also says what  *)
(* the classifier makes of it.                                             *)
(***************************************************************************)
EXTENDS StaTracker, DeviceFp, ClientSummaries

CONSTANTS
  Keys,              \* 5-tuples, in the order of their buckets
  senders,           \* senders[k]: the MACs that send packets of k; stations'
                     \* MACs, or the router's own
  Kinds,             \* [dns_hint, dst_domain, udp, pkts, bytes, cls, app]
  MIN_PKTS,
  MaxWork            \* bound on what happens before only refreshes do

NoName == "no name"
Unclassified == "unknown"

ASSUME ClientsAssumption ==
  /\ MAX_CLIENTS = MAX_STATIONS
  /\ Keys \in Seq(Range(Keys)) /\ DOMAIN senders = Range(Keys)
  /\ \A m, n \in DOMAIN Keys : Keys[m] = Keys[n] => m = n
  /\ Unclassified \in Classes
  /\ NoName \notin DOMAIN dns_rules
  /\ \A k \in Kinds :
       /\ {k.pkts, k.bytes} \subseteq Nat /\ k.udp \in BOOLEAN
       /\ k.cls \in Classes \ {Unclassified}
  /\ {MIN_PKTS, MaxWork} \subseteq Nat

VARIABLES
  flow,              \* the tracked flows: [src_mac, kind, cls, app]
  hinted,            \* history: MACs with a flow whose name or pattern votes
  work               \* bound

clientsVars == <<staVars, devices, flow, hinted, work>>

Macs == UNION Range(senders)

\* The flows in the order flow_table_for_each visits them.
Tracked ==
  LET seen[n \in 0..Len(Keys)] ==
        IF n = 0 THEN <<>>
        ELSE IF Keys[n] \in DOMAIN flow THEN Append(seen[n - 1], Keys[n]) ELSE seen[n - 1]
  IN  seen[Len(Keys)]

-----------------------------------------------------------------------------
(* The callbacks of the other timers and of the capture socket.            *)

Counted == work < MaxWork /\ work' = work + 1

Works == ~Refreshing /\ Counted /\ UNCHANGED staVars

\* process_packet: packets open a flow or change its counters and its name;
\* an entry keeps who opened it, and its verdict until the next pass.
Packets ==
  /\ Works
  /\ \E k \in Range(Keys), kind \in Kinds : \E mac \in senders[k] :
       LET r == IF k \in DOMAIN flow THEN [flow[k] EXCEPT !.kind = kind]
                ELSE [src_mac |-> mac, kind |-> kind, cls |-> Unclassified, app |-> NoApp]
       IN  flow' = [j \in DOMAIN flow \cup {k} |-> IF j = k THEN r ELSE flow[j]]
  /\ UNCHANGED <<devices, hinted>>

\* expire_timer_cb forgets a flow.
Expire ==
  /\ Works
  /\ \E k \in DOMAIN flow : flow' = [j \in DOMAIN flow \ {k} |-> flow[j]]
  /\ UNCHANGED <<devices, hinted>>

\* The flow as classify_flow_cb leaves it: the verdict, and then the judgement of
\* its source's device, whose destination has a name while the cache holds one.
Verdict(f) ==
  IF f.kind.pkts < MIN_PKTS THEN f ELSE [f EXCEPT !.cls = f.kind.cls, !.app = f.kind.app]

Signals(f, dst_domain) ==
  [src_mac |-> f.src_mac, dns_hint |-> f.kind.dns_hint, dst_domain |-> dst_domain,
   udp |-> f.kind.udp, pkts |-> f.kind.pkts, bytes |-> f.kind.bytes]

Votes(s) == {s.dns_hint, s.dst_domain} \cap DOMAIN dns_rules # {} \/ IotPattern(s)

\* What a pass tells the fingerprint of flow k, while the cache has a name for the
\* destinations of known.
Seen(k, known) == Signals(flow[k], IF k \in known THEN flow[k].kind.dst_domain ELSE NoName)

\* flow_table_for_each visits the buckets in order, and what is in them.
Analyzed(known) ==
  LET after[n \in 0..Len(Keys)] ==
        IF n = 0 THEN devices
        ELSE IF Keys[n] \notin DOMAIN flow THEN after[n - 1]
        ELSE LET s == Seen(Keys[n], known)
             IN  device_fp_analyze_flow(after[n - 1], s, s.dst_domain)
  IN  after[Len(Keys)]

\* classify_timer_cb, for what it shows of clients: the profiler and the
\* collector are modules of their own.
classify_timer_cb ==
  /\ Works
  /\ \E known \in SUBSET DOMAIN flow :
       /\ devices' = Analyzed(known)
       /\ hinted' = hinted \cup
            {flow[k].src_mac : k \in {j \in DOMAIN flow : Votes(Seen(j, known))}}
  /\ flow' = [k \in DOMAIN flow |-> Verdict(flow[k])]

\* Refreshes count too, but go on when the bound is reached.
sta_timer_cb ==
  /\ \/ RefreshBegins /\ work' = Least(work + 1, MaxWork)
     \/ AskIface /\ UNCHANGED work
  /\ UNCHANGED <<devices, flow, hinted>>

StationMoves == Roam /\ Counted /\ UNCHANGED <<devices, flow, hinted>>

ClientsInit ==
  /\ StaInit
  /\ devices = <<>>
  /\ flow = [k \in {} |-> {}]
  /\ hinted = {} /\ work = 0

ClientsNext ==
  Packets \/ Expire \/ classify_timer_cb \/ sta_timer_cb \/ StationMoves

ClientsSpec == ClientsInit /\ [][ClientsNext]_clientsVars

-----------------------------------------------------------------------------
(* The replies of the ubus methods.                                        *)

Ssid(mac) == {e.ssid : e \in find_mac(mac)}

\* dump_flow_cb, for what it takes from other components than the entry.
dump_flow_cb(f) ==
  [mac |-> f.src_mac, cls |-> f.cls, app |-> f.app, bytes |-> f.kind.bytes,
   ssid |-> Ssid(f.src_mac), ifname |-> {e.ifname : e \in find_mac(f.src_mac)},
   signal |-> {e.signal : e \in find_mac(f.src_mac)},
   device_type |-> device_fp_get_type(devices, f.src_mac)]

get_flows ==
  [flows |-> [i \in DOMAIN Tracked |-> dump_flow_cb(flow[Tracked[i]])],
   total_flows |-> Cardinality(DOMAIN flow)]

\* agg_flow_cb over the table, then one reply per client.
Table == [i \in DOMAIN Tracked |->
            LET f == flow[Tracked[i]]
            IN  [mac |-> f.src_mac, cls |-> f.cls, app |-> f.app, bytes |-> f.kind.bytes]]

get_clients ==
  LET agg == Summaries(Table)
  IN  [i \in DOMAIN agg |->
         [summary |-> agg[i], ssid |-> Ssid(agg[i].mac),
          device_type |-> device_fp_get_type(devices, agg[i].mac),
          device_confidence |-> device_fp_get_confidence(devices, agg[i].mac)]]

TotalBytes ==
  LET sum[n \in 0..Len(Keys)] ==
        IF n = 0 THEN 0
        ELSE sum[n - 1] + (IF Keys[n] \in DOMAIN flow THEN flow[Keys[n]].kind.bytes ELSE 0)
  IN  sum[Len(Keys)]

get_stats ==
  [active_flows |-> Cardinality(DOMAIN flow),
   tracked_stations |-> count,
   total_bytes |-> TotalBytes,
   classification |-> [c \in Classes |-> Cardinality({k \in DOMAIN flow : flow[k].cls = c})]]

-----------------------------------------------------------------------------
\* The replies agree on one state: get_clients sums up the rows of get_flows,
\* under the network and the device type each of those rows shows; and get_stats
\* counts every row, also those of clients there was no place for.
RepliesAgree ==
  LET rows == get_flows.flows
      cs   == get_clients
  IN  /\ ListAddsUp([i \in DOMAIN cs |-> cs[i].summary], rows)
      /\ \A i \in DOMAIN cs : \A r \in Range(rows) :
           r.mac = cs[i].summary.mac =>
             r.ssid = cs[i].ssid /\ r.device_type = cs[i].device_type
      /\ get_flows.total_flows = Len(rows) /\ get_stats.active_flows = Len(rows)
      /\ get_stats.total_bytes = Bytes(rows, DOMAIN rows)
      /\ \A c \in Classes :
           get_stats.classification[c] = Cardinality({i \in DOMAIN rows : rows[i].cls = c})

\* Nothing but a vote for a type makes the daemon change its mind to it, and no vote
\* is ever lost: the votes for each type only grow, and a guess changes only in a
\* pass in which those for the new type did.  In particular a device once identified
\* never becomes unknown again, however many others come, and equal votes do not
\* make a guess go back and forth.
GuessFollowsVotes ==
  [][\A mac \in Macs :
       LET guess == device_fp_get_type(devices', mac)
       IN  /\ \A t \in Types : VotesFor(devices, mac, t) <= VotesFor(devices', mac, t)
           /\ guess # device_fp_get_type(devices, mac) =>
                VotesFor(devices, mac, guess) < VotesFor(devices', mac, guess)]_clientsVars

\* A device whose flows never had a name or a pattern that votes has exactly its
\* vendor's votes, after however many passes over however many flows.
VendorVotesOnce ==
  \A i \in DOMAIN devices :
    devices[i].mac \notin hinted =>
      \A t \in Types :
        devices[i].votes[t] =
          IF devices[i].mac \in DOMAIN oui_rules /\ oui_rules[devices[i].mac].type = t
          THEN oui_rules[devices[i].mac].weight ELSE 0

=============================================================================
