---------------------------- MODULE UsageProfile ----------------------------
(***************************************************************************)
(* usage_profile.c: what each client usually does at an hour of the day,   *)
(* and the anomalies, events kept in a ring, when it does something else.  *)
(*                                                                         *)
(* Two timers drive it.  Every classify pass adds every tracked flow to    *)
(* its sender's window; every minute a tick compares the windows with the  *)
(* baseline of the hour, moves the baseline and empties the windows.       *)
(*                                                                         *)
(* The floats of the baseline are integers here: bytes, and percent for    *)
(* the class shares, rounded down.  avg_flows, severities and the text of  *)
(* an event are only reported, and left out.                               *)
(***************************************************************************)
EXTENDS Integers, Sequences, FiniteSets, SequencesExt, Functions

CONSTANTS
  Flows,             \* the 5-tuples, in the order for_each visits them
  src_mac,           \* src_mac[f]: the flow's sender
  dst_port,          \* dst_port[f]
  CommonPorts,       \* is_common_port, and 0
  Classes,
  loads,             \* loads[f]: the [bytes, cls] a flow may show
  Hours,
  PROFILE_MAX_CLIENTS,
  SEEN_PORTS_BUCKETS,
  ANOMALY_RING_SIZE,
  PORT_HISTORY,      \* ports a client has used before a new one counts (10)
  BASELINE_BYTES,    \* an average a spike can be measured against (1000)
  MIN_SAMPLES,       \* windows behind a baseline one compares with (3)
  MIN_SHIFT_SAMPLES, \* ... when comparing classes (5)
  MIN_SHIFT_FLOWS,   \* flows in a window for that (5)
  HEAVY_FLOWS,       \* a heavy flow has more beside it than this (3)
  MaxChanges,        \* bound: changes of the flows
  MaxPasses          \* bound: classify passes

ASSUME ProfileAssumption ==
  /\ Flows \in Seq(Range(Flows))
  /\ DOMAIN src_mac = Range(Flows)
  /\ dst_port \in [Range(Flows) -> Nat]
  /\ loads \in [Range(Flows) -> SUBSET [bytes: Nat, cls: Classes]]
  /\ {PROFILE_MAX_CLIENTS, SEEN_PORTS_BUCKETS, ANOMALY_RING_SIZE} \subseteq Nat \ {0}
  /\ {PORT_HISTORY, BASELINE_BYTES, MIN_SAMPLES, MIN_SHIFT_SAMPLES,
      MIN_SHIFT_FLOWS, HEAVY_FLOWS, MaxChanges, MaxPasses} \subseteq Nat

Macs == Range(src_mac)

VARIABLES
  flow,              \* the tracked flows: [bytes, cls] (the capture path's)
  clients,           \* ctx->clients, the first client_count of them
  ring,              \* ctx->anomaly_ring
  anomaly_head,
  anomaly_total,
  changes, passes,   \* bounds
  log,               \* history: every event recorded, oldest first
  mark,              \* history: Len(log) when the last tick began
  unseen, fresh      \* history: the MACs with bytes no pass has seen, and those
                     \* of whom a pass since the last tick saw new bytes

ctx == [clients |-> clients, ring |-> ring, head |-> anomaly_head,
        total |-> anomaly_total, log |-> log]

profileVars ==
  <<flow, clients, ring, anomaly_head, anomaly_total, changes, passes,
    log, mark, unseen, fresh>>

NoEvent == [type |-> "none"]

NewBaseline ==
  [avg_bytes |-> 0, class_frac |-> [c \in Classes |-> 0], samples |-> 0]

NewWindow == [bytes |-> 0, flows |-> 0, classes |-> [c \in Classes |-> 0], heaviest |-> 0]

NewClient(mac) ==
  [mac |-> mac, window |-> NewWindow, baseline |-> [h \in Hours |-> NewBaseline],
   ports |-> <<>>, anomaly_count |-> 0, flagged |-> FALSE]

-----------------------------------------------------------------------------
(* The context u is threaded through what the C functions do to it.        *)
(* (Names <definition>_<what> are mutants.)                                *)

Slot(u, mac) == {i \in 1..Len(u.clients) : u.clients[i].mac = mac}

find_or_create_profile(u, mac) ==
  IF Slot(u, mac) = {} /\ Len(u.clients) < PROFILE_MAX_CLIENTS
  THEN [u EXCEPT !.clients = Append(@, NewClient(mac))]
  ELSE u

\* The ring takes the event; log is what it would hold if it were endless.
Push_Stuck(u, ev) ==
  [u EXCEPT !.ring[u.head] = ev,
            !.head = IF @ < ANOMALY_RING_SIZE - 1 THEN @ + 1 ELSE @,
            !.total = IF @ < ANOMALY_RING_SIZE THEN @ + 1 ELSE @,
            !.log = Append(@, ev)]

Push(u, ev) ==
  [u EXCEPT !.ring[u.head] = ev,
            !.head = (@ + 1) % ANOMALY_RING_SIZE,
            !.total = IF @ < ANOMALY_RING_SIZE THEN @ + 1 ELSE @,
            !.log = Append(@, ev)]

Flagged(c) == [c EXCEPT !.anomaly_count = @ + 1, !.flagged = TRUE]

record_anomaly(u, i, type, what) ==
  [Push(u, [mac |-> u.clients[i].mac, type |-> type, what |-> what]) EXCEPT
     !.clients[i] = Flagged(@)]

RecordIf(when, u, i, type, what) ==
  IF when THEN record_anomaly(u, i, type, what) ELSE u

port_is_known(c, port) == port \in Range(c.ports)

port_add_LastOnly(c, port) ==
  IF port_is_known(c, port) THEN c ELSE [c EXCEPT !.ports = <<port>>]

port_add(c, port) ==
  IF port_is_known(c, port) \/ Len(c.ports) = SEEN_PORTS_BUCKETS THEN c
  ELSE [c EXCEPT !.ports = Append(@, port)]

\* A flow is added to the window with all its bytes, however often it was
\* added before.
Added(w, f) ==
  [bytes |-> w.bytes + flow[f].bytes,
   flows |-> w.flows + 1,
   classes |-> [w.classes EXCEPT ![flow[f].cls] = @ + 1],
   heaviest |-> IF flow[f].bytes > w.heaviest THEN flow[f].bytes ELSE w.heaviest]

usage_profile_update(u, f) ==
  LET v    == find_or_create_profile(u, src_mac[f])
      i    == CHOOSE j \in Slot(v, src_mac[f]) : TRUE
      port == dst_port[f]
      old  == v.clients[i]
      new  == port_add([old EXCEPT !.window = Added(@, f)], port)
  IN  IF Slot(v, src_mac[f]) = {} THEN v
      ELSE RecordIf(~port_is_known(old, port) /\ Len(new.ports) > PORT_HISTORY
                      /\ port \notin CommonPorts,
                    [v EXCEPT !.clients[i] = new], i, "unusual_port", port)

-----------------------------------------------------------------------------
(* check_and_update_baseline, for client i at an hour.                     *)
Share(w, c) == (100 * w.classes[c]) \div w.flows

Distance(m, n) == IF m < n THEN n - m ELSE m - n

Spike(w, b) == b.avg_bytes > BASELINE_BYTES /\ w.bytes > 3 * b.avg_bytes

Heavy(w) == 2 * w.heaviest > w.bytes /\ w.flows > HEAVY_FLOWS

Shift(w, b) ==
  /\ w.flows >= MIN_SHIFT_FLOWS /\ b.samples >= MIN_SHIFT_SAMPLES
  /\ MapThenSumSet(LAMBDA c : Distance(Share(w, c), b.class_frac[c]), Classes) > 2 * 40

\* EMA_ALPHA is 0.15.
Ema_Slow(new, old) == (new + 99 * old) \div 100

Ema(new, old) == (15 * new + 85 * old) \div 100

Moved(b, w) ==
  IF w.flows = 0 THEN b
  ELSE IF b.samples = 0
  THEN [avg_bytes |-> w.bytes, class_frac |-> [c \in Classes |-> Share(w, c)],
        samples |-> 1]
  ELSE [avg_bytes |-> Ema(w.bytes, b.avg_bytes),
        class_frac |-> [c \in Classes |-> Ema(Share(w, c), b.class_frac[c])],
        samples |-> b.samples + 1]

\* The window ends, and begins empty.
Closed(c, hour) ==
  [c EXCEPT !.baseline[hour] = Moved(@, c.window), !.window = NewWindow]

check_and_update_baseline_KeepsFlag(u, i, hour) ==
  LET w  == u.clients[i].window
      b  == u.clients[i].baseline[hour]
      at == [hour |-> hour, bytes |-> w.bytes, sample |-> b.samples]
      u1 == RecordIf(b.samples >= MIN_SAMPLES /\ Spike(w, b), u, i, "bandwidth_spike", at)
      u2 == RecordIf(b.samples >= MIN_SAMPLES /\ Heavy(w), u1, i, "new_heavy_flow", at)
      u3 == RecordIf(b.samples >= MIN_SAMPLES /\ Shift(w, b), u2, i, "protocol_shift", at)
  IN  [u3 EXCEPT !.clients[i] = Closed(@, hour)]

check_and_update_baseline(u, i, hour) ==
  LET w  == u.clients[i].window
      b  == u.clients[i].baseline[hour]
      at == [hour |-> hour, bytes |-> w.bytes, sample |-> b.samples]
      u0 == [u EXCEPT !.clients[i].flagged = FALSE]
      u1 == RecordIf(b.samples >= MIN_SAMPLES /\ Spike(w, b), u0, i, "bandwidth_spike", at)
      u2 == RecordIf(b.samples >= MIN_SAMPLES /\ Heavy(w), u1, i, "new_heavy_flow", at)
      u3 == RecordIf(b.samples >= MIN_SAMPLES /\ Shift(w, b), u2, i, "protocol_shift", at)
  IN  [u3 EXCEPT !.clients[i] = Closed(@, hour)]

-----------------------------------------------------------------------------
Become(u) ==
  /\ clients' = u.clients /\ ring' = u.ring /\ log' = u.log
  /\ anomaly_head' = u.head /\ anomaly_total' = u.total

\* The capture path: a flow opens or transfers more, or is forgotten; its class
\* is whatever the classifier says by the next pass.  (A flow that is kept and
\* transfers nothing sends packets too small to be a difference in bytes.)
Transfer(f) ==
  /\ \E l \in loads[f] :
       /\ f \in DOMAIN flow => l.bytes > flow[f].bytes
       /\ flow' = [g \in DOMAIN flow \cup {f} |-> IF g = f THEN l ELSE flow[g]]
  /\ unseen' = unseen \cup {src_mac[f]}

Forget(f) ==
  /\ f \in DOMAIN flow
  /\ flow' = [g \in DOMAIN flow \ {f} |-> flow[g]]
  /\ UNCHANGED unseen

Traffic ==
  /\ changes < MaxChanges
  /\ changes' = changes + 1
  /\ \E f \in Range(Flows) : Transfer(f) \/ Forget(f)
  /\ UNCHANGED <<clients, ring, anomaly_head, anomaly_total, passes, log, mark, fresh>>

\* classify_timer_cb, for what classify_flow_cb tells the profiler.
Pass ==
  /\ passes < MaxPasses
  /\ passes' = passes + 1
  /\ LET after[n \in 0..Len(Flows)] ==
           IF n = 0 THEN ctx
           ELSE IF Flows[n] \in DOMAIN flow THEN usage_profile_update(after[n - 1], Flows[n])
           ELSE after[n - 1]
     IN  Become(after[Len(Flows)])
  /\ fresh' = fresh \cup unseen
  /\ unseen' = {}
  /\ UNCHANGED <<flow, changes, mark>>

\* profile_timer_cb: usage_profile_tick, at the hour localtime says.
usage_profile_tick ==
  /\ \E hour \in Hours :
       LET after[i \in 0..Len(clients)] ==
             IF i = 0 THEN ctx ELSE check_and_update_baseline(after[i - 1], i, hour)
       IN  Become(after[Len(clients)])
  /\ mark' = Len(log)
  /\ fresh' = {}
  /\ UNCHANGED <<flow, changes, passes, unseen>>

ProfileInit ==
  /\ flow = [f \in {} |-> {}]
  /\ clients = <<>>
  /\ ring = [i \in 0..ANOMALY_RING_SIZE - 1 |-> NoEvent]
  /\ anomaly_head = 0 /\ anomaly_total = 0
  /\ changes = 0 /\ passes = 0
  /\ log = <<>> /\ mark = 0 /\ unseen = {} /\ fresh = {}

ProfileNext == Traffic \/ Pass \/ usage_profile_tick

ProfileSpec == ProfileInit /\ [][ProfileNext]_profileVars

-----------------------------------------------------------------------------
\* usage_profile_get_anomalies(max): newest first.
get_anomalies(max) ==
  LET n == IF anomaly_total < max THEN anomaly_total ELSE max
  IN  [i \in 1..n |-> ring[(anomaly_head - i + ANOMALY_RING_SIZE) % ANOMALY_RING_SIZE]]

\* Whatever number of events an API asks for, it gets the newest ones, newest
\* first, also after the ring has gone round.
RecentFirst ==
  \A max \in 0..ANOMALY_RING_SIZE :
    LET r == get_anomalies(max)
    IN  /\ Len(r) = IF Len(log) < max THEN Len(log) ELSE max
        /\ \A i \in 1..Len(r) : r[i] = log[Len(log) + 1 - i]

\* "is_anomalous" means an event since the last tick began, from either timer:
\* the tick clears the flag before it looks, and an unusual port seen by a later
\* classify pass raises it again.
FlaggedSinceTick ==
  \A i \in 1..Len(clients) :
    clients[i].flagged <=> \E j \in mark + 1..Len(log) : log[j].mac = clients[i].mac

\* An unusual port is reported once, although every pass sees the same flow again;
\* also at the limit of the client's port table: only a port for which there was no
\* room left is reported again (by every pass over its flow), those learned before
\* stay silent.
PortReportedOnce ==
  \A j, k \in 1..Len(log) :
    log[j] = log[k] /\ j # k /\ log[j].type = "unusual_port" =>
      \E i \in 1..Len(clients) :
        /\ clients[i].mac = log[j].mac
        /\ Len(clients[i].ports) = SEEN_PORTS_BUCKETS
        /\ log[j].what \notin Range(clients[i].ports)

\* The baseline follows a client to a new level: the same total in four
\* consecutive windows of an hour is not a spike every time.
SpikesSubside ==
  \A j \in 1..Len(log) :
    log[j].type = "bandwidth_spike" =>
      ~ \A s \in 1..3 : [log[j] EXCEPT !.what.sample = @ + s] \in Range(log)

\* usage_profile.h:22 "BANDWIDTH_SPIKE: current rate >> historical average for
\* this hour": a spike is only reported of a client of whom some pass of the
\* window saw bytes that no earlier window had counted.
SpikeNeedsNewBytes ==
  [][\A j \in Len(log) + 1..Len(log') :
       log'[j].type = "bandwidth_spike" => log'[j].mac \in fresh]_profileVars

=============================================================================
