------------------------ MODULE UsageProfileProofs ------------------------
(***************************************************************************)
(* What of UsageProfile holds for every set of clients and flows, every    *)
(* size of the tables and of the ring, and every traffic: the ring gives   *)
(* the newest events, newest first; a client is flagged exactly if it had  *)
(* an event since the last tick began; an unusual port is reported once    *)
(* while there is room to remember it; and a spike subsides.               *)
(***************************************************************************)
EXTENDS UsageProfile, RecursionLemmas

-----------------------------------------------------------------------------
(* Types.                                                                  *)

\* Without flows there are no bytes ...
Windows ==
  {w \in [bytes: Nat, flows: Nat, classes: [Classes -> Nat], heaviest: Nat] :
     w.flows = 0 => w.bytes = 0}

\* ... and without samples no average.
Baselines ==
  {b \in [avg_bytes: Nat, class_frac: [Classes -> Nat], samples: Nat] :
     b.samples = 0 => b.avg_bytes = 0}

Histories == [Hours -> Baselines]

PortLists == Seq(Nat)

Profiles ==
  [mac: Macs, window: Windows, baseline: Histories, ports: PortLists,
   anomaly_count: Nat, flagged: BOOLEAN]

EventTypes == {"unusual_port", "bandwidth_spike", "new_heavy_flow", "protocol_shift"}

Measures == [hour: Hours, bytes: Nat, sample: Nat]

Events == [mac: Macs, type: EventTypes, what: Nat \cup Measures]

Logs == Seq(Events)

Places == 0..ANOMALY_RING_SIZE - 1

Rings == [Places -> Events \cup {NoEvent}]

Contexts ==
  [clients: Seq(Profiles), ring: Rings, head: Places,
   total: 0..ANOMALY_RING_SIZE, log: Logs]

LEMMA ProfileIs ==
  ASSUME NEW p \in Profiles
  PROVE  /\ p = [mac |-> p.mac, window |-> p.window, baseline |-> p.baseline,
                 ports |-> p.ports, anomaly_count |-> p.anomaly_count,
                 flagged |-> p.flagged]
         /\ p.mac \in Macs /\ p.window \in Windows /\ p.baseline \in Histories
         /\ p.ports \in PortLists /\ p.anomaly_count \in Nat /\ p.flagged \in BOOLEAN
BY DEF Profiles

LEMMA ContextIs ==
  ASSUME NEW u \in Contexts
  PROVE  /\ u = [clients |-> u.clients, ring |-> u.ring, head |-> u.head,
                 total |-> u.total, log |-> u.log]
         /\ u.clients \in Seq(Profiles) /\ u.ring \in Rings /\ u.head \in Places
         /\ u.total \in 0..ANOMALY_RING_SIZE /\ u.log \in Logs
BY DEF Contexts

\* Every profile is one; the lengths are numbers.
LEMMA ListsAre ==
  ASSUME NEW u \in Contexts
  PROVE  /\ Len(u.clients) \in Nat /\ Len(u.log) \in Nat
         /\ \A i \in 1..Len(u.clients) : u.clients[i] \in Profiles
         /\ \A j \in 1..Len(u.log) : u.log[j] \in Events
BY ContextIs DEF Logs

-----------------------------------------------------------------------------
(* The ring.                                                               *)

\* Going round a ring of R places, at most once.
LEMMA Around ==
  ASSUME NEW R \in Nat \ {0}, NEW x \in 0..2 * R - 1
  PROVE  x % R = IF x < R THEN x ELSE x - R
<1> DEFINE q == x \div R
           k == x % R
<1>1. x = (R * q) + k /\ q \in Int /\ k \in 0..R - 1
  OBVIOUS
<1> HIDE DEF q, k
<1>2. (q >= 2 => R * q >= 2 * R) /\ (q >= 1 => R * q >= R) /\ (q <= -1 => R * q <= -R)
  BY <1>1
<1>3. CASE x < R
  <2>1. q = 0
    <3>1. R * q < R /\ R * q > -R
      BY <1>1, <1>3
    <3> QED
      BY <1>1, <1>2, <3>1
  <2> QED
    BY <1>1, <1>3, <2>1 DEF k
<1>4. CASE x >= R
  <2>1. q = 1
    <3>1. R * q > 0 /\ R * q < 2 * R
      BY <1>1, <1>4
    <3>2. q < 2 /\ q > -1
      BY <1>1, <1>2, <3>1
    <3>3. q # 0
      <4>1. q = 0 => R * q = 0
        OBVIOUS
      <4> QED
        BY <3>1, <4>1
    <3> QED
      BY <1>1, <3>2, <3>3
  <2>2. R * q = R
    BY <2>1
  <2>3. k = x - R
    BY <1>1, <2>2
  <2> QED
    BY <1>4, <2>3 DEF k
<1> QED
  BY <1>3, <1>4

\* The place n before h.
Back(h, n) == (h - n + ANOMALY_RING_SIZE) % ANOMALY_RING_SIZE

LEMMA BackIs ==
  ASSUME NEW h \in Places, NEW n \in 1..ANOMALY_RING_SIZE
  PROVE  /\ Back(h, n) = IF n <= h THEN h - n ELSE h - n + ANOMALY_RING_SIZE
         /\ Back(h, n) \in Places
<1> DEFINE R == ANOMALY_RING_SIZE
           x == h - n + R
<1>1. R \in Nat \ {0} /\ h \in 0..R - 1 /\ n \in 1..R
  BY ProfileAssumption DEF Places
<1> HIDE DEF R
<1>2. x \in 0..2 * R - 1
  BY <1>1
<1>3. x % R = IF x < R THEN x ELSE x - R
  <2> HIDE DEF x
  <2> QED
    BY <1>1, <1>2, Around
<1>4. Back(h, n) = IF x < R THEN x ELSE x - R
  BY <1>3 DEF Back, R
<1> QED
  BY <1>1, <1>4 DEF Places, R

LEMMA NextIs ==
  ASSUME NEW h \in Places
  PROVE  /\ (h + 1) % ANOMALY_RING_SIZE = IF h + 1 < ANOMALY_RING_SIZE THEN h + 1 ELSE 0
         /\ (h + 1) % ANOMALY_RING_SIZE \in Places
<1> DEFINE R == ANOMALY_RING_SIZE
           x == h + 1
<1>1. R \in Nat \ {0} /\ h \in 0..R - 1
  BY ProfileAssumption DEF Places
<1> HIDE DEF R
<1>2. x \in 0..2 * R - 1
  BY <1>1
<1>3. x % R = IF x < R THEN x ELSE x - R
  <2> HIDE DEF x
  <2> QED
    BY <1>1, <1>2, Around
<1>4. x % R = IF x < R THEN x ELSE 0
  BY <1>1, <1>3
<1> QED
  BY <1>1, <1>4 DEF Places, R

\* The ring holds the end of the log.
RingOK(u) ==
  /\ u.total = IF Len(u.log) < ANOMALY_RING_SIZE THEN Len(u.log) ELSE ANOMALY_RING_SIZE
  /\ \A n \in 1..u.total : u.ring[Back(u.head, n)] = u.log[Len(u.log) + 1 - n]

LEMMA PushIs ==
  ASSUME NEW u \in Contexts, NEW e \in Events
  PROVE  LET v == Push(u, e)
         IN  /\ v \in Contexts /\ v.clients = u.clients /\ v.log = Append(u.log, e)
             /\ RingOK(u) => RingOK(v)
<1> DEFINE R == ANOMALY_RING_SIZE
           ring1 == [u.ring EXCEPT ![u.head] = e]
           head1 == (u.head + 1) % R
           total1 == IF u.total < R THEN u.total + 1 ELSE u.total
           log1 == Append(u.log, e)
           v == [clients |-> u.clients, ring |-> ring1, head |-> head1,
                 total |-> total1, log |-> log1]
<1>1. /\ u.clients \in Seq(Profiles) /\ u.ring \in Rings /\ u.head \in Places
      /\ u.total \in 0..R /\ u.log \in Logs /\ R \in Nat \ {0}
  BY ContextIs, ProfileAssumption
<1>2. Push(u, e) = v
  <2>1. Push(u, e) = [u EXCEPT !.ring = ring1, !.head = head1, !.total = total1, !.log = log1]
    BY DEF Push
  <2> HIDE DEF ring1, head1, total1, log1
  <2>2. u = [clients |-> u.clients, ring |-> u.ring, head |-> u.head,
             total |-> u.total, log |-> u.log]
    BY ContextIs
  <2> QED
    BY <2>1, <2>2
<1>3. ring1 \in Rings /\ ring1[u.head] = e /\ \A p \in Places \ {u.head} : ring1[p] = u.ring[p]
  BY <1>1 DEF Rings
<1>4. head1 \in Places /\ head1 = IF u.head + 1 < R THEN u.head + 1 ELSE 0
  BY <1>1, NextIs
<1>5. total1 \in 0..R
  BY <1>1
<1>6. /\ log1 \in Logs /\ Len(log1) = Len(u.log) + 1 /\ log1[Len(u.log) + 1] = e
      /\ \A j \in 1..Len(u.log) : log1[j] = u.log[j]
      /\ Len(u.log) \in Nat
  BY <1>1 DEF Logs
<1>7. v \in Contexts
  <2> HIDE DEF ring1, head1, total1, log1
  <2> QED
    BY <1>1, <1>3, <1>4, <1>5, <1>6 DEF Contexts
<1> HIDE DEF ring1, head1, log1
<1>8. ASSUME RingOK(u) PROVE RingOK(v)
  <2>1. u.total = IF Len(u.log) < R THEN Len(u.log) ELSE R
    BY <1>8 DEF RingOK
  <2>2. total1 = IF Len(log1) < R THEN Len(log1) ELSE R
    BY <1>1, <1>6, <2>1
  <2>3. ASSUME NEW n \in 1..total1 PROVE ring1[Back(head1, n)] = log1[Len(log1) + 1 - n]
    <3>1. n \in 1..R
      BY <1>1, <1>5, <2>3
    <3>2. CASE n = 1
      <4>1. Back(head1, 1) = u.head
        <5>1. Back(head1, 1) = IF 1 <= head1 THEN head1 - 1 ELSE head1 - 1 + R
          BY <1>4, <3>1, <3>2, BackIs
        <5> QED
          BY <1>1, <1>4, <5>1 DEF Places
      <4> QED
        BY <1>3, <1>6, <3>2, <4>1
    <3>3. CASE n > 1
      <4>1. n - 1 \in 1..R /\ n - 1 \in 1..u.total
        BY <1>1, <2>3, <3>1, <3>3
      <4>2. Back(head1, n) = Back(u.head, n - 1) /\ Back(u.head, n - 1) # u.head
        <5>1. Back(head1, n) = IF n <= head1 THEN head1 - n ELSE head1 - n + R
          BY <1>4, <3>1, BackIs
        <5>2. Back(u.head, n - 1) =
                IF n - 1 <= u.head THEN u.head - (n - 1) ELSE u.head - (n - 1) + R
          BY <1>1, <4>1, BackIs
        <5> QED
          BY <1>1, <1>4, <3>1, <3>3, <5>1, <5>2 DEF Places
      <4>3. Back(u.head, n - 1) \in Places
        BY <1>1, <4>1, BackIs
      <4>4. u.ring[Back(u.head, n - 1)] = u.log[Len(u.log) + 1 - (n - 1)]
        BY <1>8, <4>1 DEF RingOK
      <4>5. Len(u.log) + 1 - (n - 1) = Len(log1) + 1 - n /\ Len(log1) + 1 - n \in 1..Len(u.log)
        BY <1>1, <1>6, <2>1, <4>1
      <4> QED
        BY <1>3, <1>6, <4>2, <4>3, <4>4, <4>5
    <3> QED
      BY <3>1, <3>2, <3>3
  <2> HIDE DEF total1
  <2>4. v.total = total1 /\ v.ring = ring1 /\ v.head = head1 /\ v.log = log1
    OBVIOUS
  <2> HIDE DEF v
  <2> QED
    BY <2>2, <2>3, <2>4 DEF RingOK
<1> QED
  BY <1>2, <1>7, <1>8 DEF log1

-----------------------------------------------------------------------------
(* One client's profile.                                                   *)

\* Only the profile of client i differs, if any.
Others(u, v, i) ==
  /\ Len(v.clients) = Len(u.clients)
  /\ \A j \in 1..Len(u.clients) \ {i} : v.clients[j] = u.clients[j]

WithProfile(u, i, q) ==
  [clients |-> [u.clients EXCEPT ![i] = q], ring |-> u.ring, head |-> u.head,
   total |-> u.total, log |-> u.log]

LEMMA WithProfileIs ==
  ASSUME NEW u \in Contexts, NEW i \in 1..Len(u.clients), NEW q \in Profiles
  PROVE  LET v == WithProfile(u, i, q)
         IN  /\ v \in Contexts /\ Others(u, v, i) /\ v.clients[i] = q /\ v.log = u.log
             /\ RingOK(u) => RingOK(v)
<1> DEFINE c == [u.clients EXCEPT ![i] = q]
           v == WithProfile(u, i, q)
<1>1. /\ u.clients \in Seq(Profiles) /\ u.ring \in Rings /\ u.head \in Places
      /\ u.total \in 0..ANOMALY_RING_SIZE /\ u.log \in Logs
  BY ContextIs
<1>2. /\ c \in Seq(Profiles) /\ Len(c) = Len(u.clients) /\ c[i] = q
      /\ \A j \in 1..Len(u.clients) \ {i} : c[j] = u.clients[j]
  BY <1>1
<1> HIDE DEF c
<1>3. v = [clients |-> c, ring |-> u.ring, head |-> u.head, total |-> u.total, log |-> u.log]
  BY DEF c, WithProfile
<1> HIDE DEF v
<1>4. v.clients = c /\ v.log = u.log /\ v.ring = u.ring /\ v.head = u.head /\ v.total = u.total
  BY <1>3
<1>5. v \in Contexts
  BY <1>1, <1>2, <1>3 DEF Contexts
<1> QED
  BY <1>2, <1>4, <1>5 DEF Others, RingOK, v

\* Event e was recorded for client i, or nothing was.
Noted(u, v, i, e) ==
  /\ v \in Contexts /\ Others(u, v, i)
  /\ LET p == u.clients[i]
         q == v.clients[i]
     IN  /\ q.mac = p.mac /\ q.window = p.window /\ q.baseline = p.baseline
         /\ q.ports = p.ports
         /\ \/ v.log = u.log /\ q.flagged = p.flagged
            \/ v.log = Append(u.log, e) /\ q.flagged = TRUE
  /\ RingOK(u) => RingOK(v)

LEMMA NothingNoted == ASSUME NEW u \in Contexts, NEW i, NEW e PROVE Noted(u, u, i, e)
BY DEF Noted, Others

EventOf(u, i, type, what) == [mac |-> u.clients[i].mac, type |-> type, what |-> what]

LEMMA RecordIs ==
  ASSUME NEW u \in Contexts, NEW i \in 1..Len(u.clients), NEW type \in EventTypes,
         NEW what \in Nat \cup Measures
  PROVE  LET v == record_anomaly(u, i, type, what)
         IN  Noted(u, v, i, EventOf(u, i, type, what)) /\ v.log = Append(u.log, EventOf(u, i, type, what))
<1> DEFINE e == EventOf(u, i, type, what)
           w == Push(u, e)
           p == u.clients[i]
           n == p.anomaly_count + 1
           q == [mac |-> p.mac, window |-> p.window, baseline |-> p.baseline,
                 ports |-> p.ports, anomaly_count |-> n, flagged |-> TRUE]
           c == [u.clients EXCEPT ![i] = q]
           v == [clients |-> c, ring |-> w.ring, head |-> w.head, total |-> w.total, log |-> w.log]
<1>1. p \in Profiles /\ e \in Events
  <2>1. p \in Profiles
    BY ListsAre
  <2>2. p.mac \in Macs
    BY <2>1, ProfileIs
  <2> HIDE DEF p
  <2>3. e = [mac |-> p.mac, type |-> type, what |-> what]
    BY DEF EventOf, p
  <2> QED
    BY <2>1, <2>2, <2>3 DEF Events
<1>2. /\ w \in Contexts /\ w.clients = u.clients /\ w.log = Append(u.log, e)
      /\ RingOK(u) => RingOK(w)
  <2> HIDE DEF e
  <2> QED
    BY <1>1, PushIs
<1>3. q \in Profiles
  <2> HIDE DEF p
  <2>1. p.anomaly_count + 1 \in Nat
    BY <1>1, ProfileIs
  <2> HIDE DEF n
  <2> QED
    BY <1>1, <2>1, ProfileIs DEF Profiles, n
<1>4. record_anomaly(u, i, type, what) = v
  <2> HIDE DEF w, e
  <2>1. record_anomaly(u, i, type, what) = [w EXCEPT !.clients[i] = Flagged(@)]
    BY DEF record_anomaly, EventOf, w, e
  <2>2. w = [clients |-> u.clients, ring |-> w.ring, head |-> w.head,
             total |-> w.total, log |-> w.log]
    BY <1>2, ContextIs
  <2>3. Flagged(p) = q
    <3> DEFINE yes == TRUE
               f == p.flagged
    <3> HIDE DEF p, yes, f
    <3>1. p = [mac |-> p.mac, window |-> p.window, baseline |-> p.baseline,
               ports |-> p.ports, anomaly_count |-> p.anomaly_count, flagged |-> f]
      BY <1>1, ProfileIs DEF f
    <3>2. Flagged(p) = [p EXCEPT !.anomaly_count = n, !.flagged = yes]
      BY DEF Flagged, yes
    <3> HIDE DEF n
    <3>3. Flagged(p) = [mac |-> p.mac, window |-> p.window, baseline |-> p.baseline,
                        ports |-> p.ports, anomaly_count |-> n, flagged |-> yes]
      BY <3>1, <3>2
    <3> QED
      BY <3>3 DEF yes
  <2> HIDE DEF q
  <2>4. w.clients[i] = p
    BY <1>2
  <2> HIDE DEF p
  <2>5. [w EXCEPT !.clients[i] = Flagged(@)] = [w EXCEPT !.clients = [u.clients EXCEPT ![i] = q]]
    BY <1>2, <2>3, <2>4
  <2> HIDE DEF c
  <2>6. [w EXCEPT !.clients = c] = v
    BY <2>2
  <2> QED
    BY <2>1, <2>5, <2>6 DEF c
<1>5. /\ v \in Contexts /\ Others(w, v, i) /\ v.clients[i] = q /\ v.log = w.log
      /\ RingOK(w) => RingOK(v)
  <2> HIDE DEF w, q
  <2>1. v = WithProfile(w, i, q)
    BY <1>2 DEF WithProfile
  <2>2. i \in 1..Len(w.clients)
    BY <1>2
  <2> HIDE DEF v
  <2> QED
    BY <1>2, <1>3, <2>1, <2>2, WithProfileIs
<1>6. Others(u, v, i)
  <2> HIDE DEF v, w
  <2> QED
    BY <1>2, <1>5 DEF Others
<1>7. /\ q.mac = p.mac /\ q.window = p.window /\ q.baseline = p.baseline /\ q.ports = p.ports
      /\ q.flagged = TRUE
  OBVIOUS
<1> HIDE DEF v, w, q, e
<1>8. Noted(u, v, i, e)
  BY <1>2, <1>5, <1>6, <1>7 DEF Noted
<1> QED
  BY <1>2, <1>4, <1>5, <1>8 DEF e

-----------------------------------------------------------------------------
(* The end of a window.                                                    *)

LEMMA Quotient ==
  ASSUME NEW a \in Nat, NEW n \in Nat \ {0}
  PROVE  a \div n \in Nat
<1> DEFINE q == a \div n
           r == a % n
<1>1. a = (n * q) + r /\ q \in Int /\ r \in 0..n - 1
  OBVIOUS
<1> HIDE DEF q, r
<1>2. q <= -1 => n * q <= -n
  BY <1>1
<1>3. ~(q <= -1)
  BY <1>1, <1>2
<1>4. q \in Nat
  BY <1>1, <1>3
<1> QED
  BY <1>4 DEF q

LEMMA EmaIs ==
  ASSUME NEW n \in Nat, NEW o \in Nat
  PROVE  /\ Ema(n, o) \in Nat
         /\ 100 * Ema(n, o) <= 15 * n + 85 * o
         /\ 15 * n + 85 * o <= 100 * Ema(n, o) + 99
BY DEF Ema

LEMMA WindowIs ==
  ASSUME NEW w \in Windows
  PROVE  /\ w.bytes \in Nat /\ w.flows \in Nat /\ w.classes \in [Classes -> Nat]
         /\ w.heaviest \in Nat /\ (w.flows = 0 => w.bytes = 0)
BY DEF Windows

LEMMA BaselineIs ==
  ASSUME NEW b \in Baselines
  PROVE  /\ b.avg_bytes \in Nat /\ b.samples \in Nat /\ b.class_frac \in [Classes -> Nat]
         /\ (b.samples = 0 => b.avg_bytes = 0)
BY DEF Baselines

LEMMA MovedIs ==
  ASSUME NEW b \in Baselines, NEW w \in Windows
  PROVE  LET m == Moved(b, w)
         IN  /\ m \in Baselines
             /\ w.flows = 0 => m = b
             /\ w.flows # 0 => m.samples = b.samples + 1
             /\ w.flows # 0 /\ b.samples # 0 => m.avg_bytes = Ema(w.bytes, b.avg_bytes)
<1>1. CASE w.flows = 0
  BY <1>1 DEF Moved
<1>2. CASE w.flows # 0
  <2>1. \A c \in Classes : Share(w, c) \in Nat
    <3> TAKE c \in Classes
    <3> DEFINE a == 100 * w.classes[c]
    <3>1. a \in Nat /\ w.flows \in Nat \ {0}
      BY <1>2, WindowIs
    <3> HIDE DEF a
    <3>2. a \div w.flows \in Nat
      BY <3>1, Quotient
    <3> QED
      BY <3>2 DEF Share, a
  <2>2. CASE b.samples = 0
    <3> DEFINE f == [c \in Classes |-> Share(w, c)]
    <3>1. Moved(b, w) = [avg_bytes |-> w.bytes, class_frac |-> f, samples |-> 1]
      BY <1>2, <2>2 DEF Moved
    <3>2. f \in [Classes -> Nat] /\ w.bytes \in Nat
      BY <2>1, WindowIs
    <3> HIDE DEF f
    <3>3. Moved(b, w) \in Baselines
      BY <3>1, <3>2 DEF Baselines
    <3> QED
      BY <1>2, <2>2, <3>1, <3>3
  <2>3. CASE b.samples # 0
    <3> DEFINE f == [c \in Classes |-> Ema(Share(w, c), b.class_frac[c])]
               a == Ema(w.bytes, b.avg_bytes)
               n == b.samples + 1
    <3>1. Moved(b, w) = [avg_bytes |-> a, class_frac |-> f, samples |-> n]
      BY <1>2, <2>3 DEF Moved
    <3>2. \A c \in Classes : Ema(Share(w, c), b.class_frac[c]) \in Nat
      <4> TAKE c \in Classes
      <4>1. b.class_frac[c] \in Nat
        BY BaselineIs
      <4> QED
        BY <2>1, <4>1, EmaIs
    <3>3. f \in [Classes -> Nat]
      BY <3>2
    <3>4. a \in Nat
      BY WindowIs, BaselineIs, EmaIs
    <3>5. n \in Nat /\ n # 0
      BY BaselineIs
    <3> HIDE DEF f, a, n
    <3>6. Moved(b, w) \in Baselines
      BY <3>1, <3>3, <3>4, <3>5 DEF Baselines
    <3> QED
      BY <1>2, <2>3, <3>1, <3>6 DEF a, n
  <2> QED
    BY <2>2, <2>3
<1> QED
  BY <1>1, <1>2

LEMMA ClosedIs ==
  ASSUME NEW p \in Profiles, NEW hour \in Hours
  PROVE  LET q == Closed(p, hour)
         IN  /\ q \in Profiles /\ q.mac = p.mac /\ q.ports = p.ports /\ q.flagged = p.flagged
             /\ q.baseline = [p.baseline EXCEPT ![hour] = Moved(p.baseline[hour], p.window)]
<1> DEFINE h == [p.baseline EXCEPT ![hour] = Moved(p.baseline[hour], p.window)]
           f == p.flagged
           q == [mac |-> p.mac, window |-> NewWindow, baseline |-> h, ports |-> p.ports,
                 anomaly_count |-> p.anomaly_count, flagged |-> f]
<1>1. p = [mac |-> p.mac, window |-> p.window, baseline |-> p.baseline,
           ports |-> p.ports, anomaly_count |-> p.anomaly_count, flagged |-> f]
  BY ProfileIs
<1>2. Closed(p, hour) = [p EXCEPT !.baseline = h, !.window = NewWindow]
  BY DEF Closed
<1> HIDE DEF f
<1>3. Closed(p, hour) = q
  <2> DEFINE w == NewWindow
             x == [p EXCEPT !.baseline = h]
  <2> HIDE DEF h, w
  <2>1. x = [mac |-> p.mac, window |-> p.window, baseline |-> h, ports |-> p.ports,
             anomaly_count |-> p.anomaly_count, flagged |-> f]
    BY <1>1
  <2> HIDE DEF x
  <2>2. [x EXCEPT !.window = w] =
          [mac |-> p.mac, window |-> w, baseline |-> h, ports |-> p.ports,
           anomaly_count |-> p.anomaly_count, flagged |-> f]
    BY <2>1
  <2>3. Closed(p, hour) = [x EXCEPT !.window = w]
    BY <1>2 DEF x, w
  <2> QED
    BY <2>2, <2>3 DEF w
<1>4. NewWindow \in Windows
  <2> DEFINE z == [c \in Classes |-> 0]
  <2>1. z \in [Classes -> Nat] /\ NewWindow = [bytes |-> 0, flows |-> 0, classes |-> z, heaviest |-> 0]
    BY DEF NewWindow
  <2> HIDE DEF z
  <2> QED
    BY <2>1 DEF Windows
<1>5. h \in Histories
  <2>1. p.baseline \in [Hours -> Baselines] /\ p.window \in Windows
    BY ProfileIs DEF Histories
  <2>2. Moved(p.baseline[hour], p.window) \in Baselines
    BY <2>1, MovedIs
  <2> QED
    BY <2>1, <2>2 DEF Histories
<1>6. q \in Profiles
  <2> HIDE DEF h
  <2> QED
    BY <1>4, <1>5, ProfileIs DEF Profiles, f
<1> HIDE DEF q, h
<1>7. q.mac = p.mac /\ q.ports = p.ports /\ q.flagged = f /\ q.baseline = h
  BY DEF q
<1> QED
  BY <1>3, <1>6, <1>7 DEF f, h

\* The flag of client i is cleared.
LEMMA Cleared ==
  ASSUME NEW u \in Contexts, NEW i \in 1..Len(u.clients)
  PROVE  LET v == [u EXCEPT !.clients[i].flagged = FALSE]
             p == u.clients[i]
             q == v.clients[i]
         IN  /\ v \in Contexts /\ Others(u, v, i) /\ v.log = u.log
             /\ q.mac = p.mac /\ q.window = p.window /\ q.baseline = p.baseline
             /\ q.ports = p.ports /\ q.flagged = FALSE
             /\ RingOK(u) => RingOK(v)
<1> DEFINE p == u.clients[i]
           no == FALSE
           f == p.flagged
           r == [p EXCEPT !.flagged = no]
           q == [mac |-> p.mac, window |-> p.window, baseline |-> p.baseline,
                 ports |-> p.ports, anomaly_count |-> p.anomaly_count, flagged |-> no]
           v == WithProfile(u, i, q)
<1>1. p \in Profiles
  BY ListsAre
<1>2. r = q
  <2> HIDE DEF p
  <2>1. p = [mac |-> p.mac, window |-> p.window, baseline |-> p.baseline,
             ports |-> p.ports, anomaly_count |-> p.anomaly_count, flagged |-> f]
    BY <1>1, ProfileIs
  <2> HIDE DEF f, no
  <2> QED
    BY <2>1
<1>3. q \in Profiles
  <2> HIDE DEF p
  <2> QED
    BY <1>1, ProfileIs DEF Profiles
<1>4. [u EXCEPT !.clients[i].flagged = FALSE] = v
  <2>1. u = [clients |-> u.clients, ring |-> u.ring, head |-> u.head,
             total |-> u.total, log |-> u.log]
    BY ContextIs
  <2>2. [u EXCEPT !.clients[i].flagged = FALSE] = [u EXCEPT !.clients = [u.clients EXCEPT ![i] = r]]
    BY DEF no
  <2> HIDE DEF r, q
  <2> QED
    BY <1>2, <2>1, <2>2 DEF WithProfile
<1>5. q.mac = p.mac /\ q.window = p.window /\ q.baseline = p.baseline /\ q.ports = p.ports
      /\ q.flagged = FALSE
  OBVIOUS
<1>6. /\ v \in Contexts /\ Others(u, v, i) /\ v.clients[i] = q /\ v.log = u.log
      /\ RingOK(u) => RingOK(v)
  <2> HIDE DEF q
  <2> QED
    BY <1>3, WithProfileIs
<1> HIDE DEF q, v, p
<1> QED
  BY <1>4, <1>5, <1>6 DEF p

\* Event e was appended to log l, or nothing was.
Logged(l, m, e) == m = l \/ m = Append(l, e)

\* The flag of client i is set if log l has grown, and not set if it has not.
Tells(l, u, i) ==
  \/ u.log = l /\ u.clients[i].flagged = FALSE
  \/ Len(u.log) > Len(l) /\ u.clients[i].flagged = TRUE

LEMMA NotedTells ==
  ASSUME NEW l \in Logs, NEW u \in Contexts, NEW v \in Contexts, NEW i, NEW e \in Events,
         Noted(u, v, i, e), Tells(l, u, i)
  PROVE  Tells(l, v, i)
<1>1. Len(l) \in Nat /\ u.log \in Seq(Events)
  BY ContextIs DEF Logs
<1>2. CASE v.log = u.log /\ v.clients[i].flagged = u.clients[i].flagged
  BY <1>2 DEF Tells
<1>3. CASE v.log = Append(u.log, e) /\ v.clients[i].flagged = TRUE
  <2>1. Len(v.log) = Len(u.log) + 1 /\ Len(u.log) \in Nat
    BY <1>1, <1>3
  <2>2. Len(u.log) >= Len(l)
    BY <1>1, <2>1 DEF Tells
  <2> QED
    BY <1>1, <1>3, <2>1, <2>2 DEF Tells
<1> QED
  BY <1>2, <1>3 DEF Noted

\* One of the three checks: a record, if its condition says so.
LEMMA CheckIs ==
  ASSUME NEW l \in Logs, NEW u \in Contexts, NEW i \in 1..Len(u.clients), Tells(l, u, i),
         NEW type \in EventTypes, NEW what \in Measures, NEW v,
         v = u \/ v = record_anomaly(u, i, type, what)
  PROVE  /\ v \in Contexts /\ Others(u, v, i) /\ Tells(l, v, i)
         /\ Noted(u, v, i, EventOf(u, i, type, what))
         /\ Logged(u.log, v.log, EventOf(u, i, type, what))
         /\ RingOK(u) => RingOK(v)
<1> DEFINE e == EventOf(u, i, type, what)
<1>1. Noted(u, v, i, e)
  BY NothingNoted, RecordIs
<1>2. e \in Events
  <2>1. u.clients[i].mac \in Macs
    BY ListsAre, ProfileIs
  <2> QED
    BY <2>1 DEF Events, EventOf
<1> HIDE DEF e
<1>3. v \in Contexts
  BY <1>1 DEF Noted
<1>4. Tells(l, v, i)
  BY <1>1, <1>2, <1>3, NotedTells
<1>5. Logged(u.log, v.log, e)
  BY <1>1 DEF Noted, Logged
<1> QED
  BY <1>1, <1>3, <1>4, <1>5 DEF Noted, e

LEMMA OthersAgain ==
  ASSUME NEW u, NEW v, NEW w, NEW i, Others(u, v, i), Others(v, w, i)
  PROVE  Others(u, w, i)
BY DEF Others

\* The end of a window, for client i.
Checked(u, v, i, hour) ==
  LET p  == u.clients[i]
      q  == v.clients[i]
      b  == p.baseline[hour]
      at == [hour |-> hour, bytes |-> p.window.bytes, sample |-> b.samples]
  IN  /\ v \in Contexts /\ Others(u, v, i) /\ Tells(u.log, v, i)
      /\ q.mac = p.mac /\ q.ports = p.ports
      /\ q.baseline = [p.baseline EXCEPT ![hour] = Moved(b, p.window)]
      /\ RingOK(u) => RingOK(v)
      /\ \E l1, l2 \in Logs :
           /\ Logged(u.log, l1, EventOf(u, i, "bandwidth_spike", at))
           /\ l1 # u.log => Spike(p.window, b)
           /\ Logged(l1, l2, EventOf(u, i, "new_heavy_flow", at))
           /\ Logged(l2, v.log, EventOf(u, i, "protocol_shift", at))

LEMMA CheckedIs ==
  ASSUME NEW u \in Contexts, NEW i \in 1..Len(u.clients), NEW hour \in Hours
  PROVE  Checked(u, check_and_update_baseline(u, i, hour), i, hour)
<1> DEFINE p  == u.clients[i]
           w  == p.window
           b  == p.baseline[hour]
           at == [hour |-> hour, bytes |-> w.bytes, sample |-> b.samples]
           u0 == [u EXCEPT !.clients[i].flagged = FALSE]
           u1 == RecordIf(b.samples >= MIN_SAMPLES /\ Spike(w, b), u0, i, "bandwidth_spike", at)
           u2 == RecordIf(b.samples >= MIN_SAMPLES /\ Heavy(w), u1, i, "new_heavy_flow", at)
           u3 == RecordIf(b.samples >= MIN_SAMPLES /\ Shift(w, b), u2, i, "protocol_shift", at)
           v  == [u3 EXCEPT !.clients[i] = Closed(@, hour)]
<1>1. check_and_update_baseline(u, i, hour) = v
  BY DEF check_and_update_baseline
<1>2. p \in Profiles /\ w \in Windows /\ p.baseline \in Histories /\ b \in Baselines
  <2>1. p \in Profiles
    BY ListsAre
  <2> HIDE DEF p
  <2> QED
    BY <2>1, ProfileIs DEF Histories
<1>3. at \in Measures
  <2> HIDE DEF w, b
  <2>1. w.bytes \in Nat /\ b.samples \in Nat
    BY <1>2, WindowIs, BaselineIs
  <2> QED
    BY <2>1 DEF Measures
<1>4. /\ u0 \in Contexts /\ Others(u, u0, i) /\ u0.log = u.log
      /\ u0.clients[i].mac = p.mac /\ u0.clients[i].window = p.window
      /\ u0.clients[i].baseline = p.baseline
      /\ u0.clients[i].ports = p.ports /\ u0.clients[i].flagged = FALSE
      /\ RingOK(u) => RingOK(u0)
  BY Cleared
<1>5. u1 = u0 \/ (Spike(w, b) /\ u1 = record_anomaly(u0, i, "bandwidth_spike", at))
  <2> HIDE DEF u0, b, w, at
  <2> QED
    BY DEF RecordIf
<1>6. u2 = u1 \/ u2 = record_anomaly(u1, i, "new_heavy_flow", at)
  <2> HIDE DEF u1, b, w, at
  <2> QED
    BY DEF RecordIf
<1>7. u3 = u2 \/ u3 = record_anomaly(u2, i, "protocol_shift", at)
  <2> HIDE DEF u2, b, w, at
  <2> QED
    BY DEF RecordIf
<1> HIDE DEF u0, u1, u2, u3, p, w, b, at
<1>8. u.log \in Logs /\ Tells(u.log, u0, i) /\ i \in 1..Len(u0.clients)
  BY <1>4, ContextIs DEF Tells, Others
<1>9. /\ u1 \in Contexts /\ Others(u0, u1, i) /\ Tells(u.log, u1, i)
      /\ Noted(u0, u1, i, EventOf(u0, i, "bandwidth_spike", at))
      /\ Logged(u0.log, u1.log, EventOf(u0, i, "bandwidth_spike", at))
      /\ RingOK(u0) => RingOK(u1)
  <2>1. "bandwidth_spike" \in EventTypes
    BY DEF EventTypes
  <2> QED
    BY <1>3, <1>4, <1>5, <1>8, <2>1, CheckIs
<1>10. i \in 1..Len(u1.clients)
  BY <1>8, <1>9 DEF Others
<1>11. /\ u2 \in Contexts /\ Others(u1, u2, i) /\ Tells(u.log, u2, i)
       /\ Noted(u1, u2, i, EventOf(u1, i, "new_heavy_flow", at))
       /\ Logged(u1.log, u2.log, EventOf(u1, i, "new_heavy_flow", at))
       /\ RingOK(u1) => RingOK(u2)
  <2>1. "new_heavy_flow" \in EventTypes
    BY DEF EventTypes
  <2> QED
    BY <1>3, <1>6, <1>8, <1>9, <1>10, <2>1, CheckIs
<1>12. i \in 1..Len(u2.clients)
  BY <1>10, <1>11 DEF Others
<1>13. /\ u3 \in Contexts /\ Others(u2, u3, i) /\ Tells(u.log, u3, i)
       /\ Noted(u2, u3, i, EventOf(u2, i, "protocol_shift", at))
       /\ Logged(u2.log, u3.log, EventOf(u2, i, "protocol_shift", at))
       /\ RingOK(u2) => RingOK(u3)
  <2>1. "protocol_shift" \in EventTypes
    BY DEF EventTypes
  <2> QED
    BY <1>3, <1>7, <1>8, <1>11, <1>12, <2>1, CheckIs
<1> DEFINE r == u3.clients[i]
           q == Closed(r, hour)
<1>14. /\ r.mac = p.mac /\ r.window = w /\ r.baseline = p.baseline /\ r.ports = p.ports
       /\ u1.clients[i].mac = p.mac /\ u2.clients[i].mac = p.mac
  BY <1>4, <1>9, <1>11, <1>13 DEF Noted, w
<1>15. i \in 1..Len(u3.clients) /\ r \in Profiles
  <2>1. i \in 1..Len(u3.clients)
    BY <1>12, <1>13 DEF Others
  <2> QED
    BY <1>13, <2>1, ListsAre
<1>16. v = WithProfile(u3, i, q)
  <2>1. u3 = [clients |-> u3.clients, ring |-> u3.ring, head |-> u3.head,
              total |-> u3.total, log |-> u3.log]
    BY <1>13, ContextIs
  <2>2. v = [u3 EXCEPT !.clients = [u3.clients EXCEPT ![i] = q]]
    OBVIOUS
  <2> HIDE DEF q, v
  <2> QED
    BY <2>1, <2>2 DEF WithProfile
<1> HIDE DEF r
<1>17. /\ q \in Profiles /\ q.mac = p.mac /\ q.ports = p.ports /\ q.flagged = r.flagged
       /\ q.baseline = [p.baseline EXCEPT ![hour] = Moved(b, w)]
  BY <1>14, <1>15, ClosedIs DEF b
<1> HIDE DEF q, v
<1>18. /\ v \in Contexts /\ Others(u3, v, i) /\ v.clients[i] = q /\ v.log = u3.log
       /\ RingOK(u3) => RingOK(v)
  BY <1>13, <1>15, <1>16, <1>17, WithProfileIs
<1>19. Others(u, v, i)
  BY <1>4, <1>9, <1>11, <1>13, <1>18, OthersAgain
<1>20. Tells(u.log, v, i)
  BY <1>13, <1>17, <1>18 DEF Tells, r
<1>21. /\ Logged(u.log, u1.log, EventOf(u, i, "bandwidth_spike", at))
       /\ Logged(u1.log, u2.log, EventOf(u, i, "new_heavy_flow", at))
       /\ Logged(u2.log, v.log, EventOf(u, i, "protocol_shift", at))
  BY <1>4, <1>9, <1>11, <1>13, <1>14, <1>18 DEF EventOf, p
<1>22. u1.log # u.log => Spike(w, b)
  BY <1>4, <1>5
<1>23. u1.log \in Logs /\ u2.log \in Logs
  BY <1>9, <1>11, ContextIs
<1>24. RingOK(u) => RingOK(v)
  BY <1>4, <1>9, <1>11, <1>13, <1>18
<1>25. Checked(u, v, i, hour)
  BY <1>17, <1>18, <1>19, <1>20, <1>21, <1>22, <1>23, <1>24 DEF Checked, p, b, w, at
<1> QED
  BY <1>1, <1>25 DEF v, u3, u2, u1, u0, p, w, b, at

-----------------------------------------------------------------------------
(* What the log and the profiles say of each other.                        *)

Happened(l, e) == \E j \in 1..Len(l) : l[j] = e

Twice(l, e) == \E j, k \in 1..Len(l) : j # k /\ l[j] = e /\ l[k] = e

\* Log m is log l with some events of E appended.
Grew(l, m, E) ==
  /\ m \in Logs /\ Len(l) <= Len(m)
  /\ \A j \in 1..Len(l) : m[j] = l[j]
  /\ \A j \in Len(l) + 1..Len(m) : m[j] \in E

LEMMA LogIs == ASSUME NEW l \in Logs PROVE Len(l) \in Nat /\ DOMAIN l = 1..Len(l)
BY DEF Logs

LEMMA LoggedGrew ==
  ASSUME NEW l \in Logs, NEW e \in Events, NEW m, Logged(l, m, e)
  PROVE  /\ \A E : e \in E => Grew(l, m, E)
         /\ \A x : Happened(m, x) => Happened(l, x) \/ (x = e /\ m # l)
<1>1. CASE m = l
  BY <1>1, LogIs DEF Grew
<1>2. CASE m = Append(l, e) /\ m # l
  <2>1. l \in Seq(Events)
    BY DEF Logs
  <2>2. /\ m \in Logs /\ Len(m) = Len(l) + 1 /\ m[Len(l) + 1] = e /\ Len(l) \in Nat
        /\ \A j \in 1..Len(l) : m[j] = l[j]
    BY <1>2, <2>1 DEF Logs
  <2>3. \A j \in 1..Len(m) : j \in 1..Len(l) \/ j = Len(l) + 1
    BY <2>2
  <2>4. \A j \in Len(l) + 1..Len(m) : m[j] = e
    BY <2>2
  <2>5. Len(l) <= Len(m)
    BY <2>2
  <2>6. \A E : e \in E => Grew(l, m, E)
    BY <2>2, <2>4, <2>5, Zenon DEF Grew
  <2>7. \A x : Happened(m, x) => Happened(l, x) \/ x = e
    BY <2>2, <2>3 DEF Happened
  <2> QED
    BY <1>2, <2>6, <2>7
<1> QED
  BY <1>1, <1>2 DEF Logged

LEMMA GrewAgain ==
  ASSUME NEW l \in Logs, NEW m, NEW n, NEW E, Grew(l, m, E), Grew(m, n, E)
  PROVE  Grew(l, n, E)
<1>1. Len(l) \in Nat /\ Len(m) \in Nat /\ Len(n) \in Nat /\ n \in Logs
  BY LogIs DEF Grew
<1>2. Len(l) <= Len(m) /\ Len(m) <= Len(n)
  BY DEF Grew
<1>3. ASSUME NEW j \in 1..Len(l) PROVE n[j] = l[j]
  BY <1>1, <1>2 DEF Grew
<1>4. ASSUME NEW j \in Len(l) + 1..Len(n) PROVE n[j] \in E
  <2>1. CASE j \in Len(l) + 1..Len(m)
    <3>1. j \in 1..Len(m)
      BY <1>1, <2>1
    <3> QED
      BY <2>1, <3>1 DEF Grew
  <2>2. CASE j \in Len(m) + 1..Len(n)
    BY <2>2 DEF Grew
  <2> QED
    BY <1>1, <2>1, <2>2
<1> QED
  BY <1>1, <1>2, <1>3, <1>4 DEF Grew

LEMMA GrewIs ==
  ASSUME NEW l \in Logs, NEW m, NEW E, Grew(l, m, E)
  PROVE  /\ \A x : Happened(l, x) => Happened(m, x)
         /\ \A x : Happened(m, x) => Happened(l, x) \/ x \in E
         /\ \A x : Twice(m, x) => Twice(l, x) \/ x \in E
<1>1. Len(l) \in Nat /\ Len(m) \in Nat /\ Len(l) <= Len(m)
  BY LogIs DEF Grew
<1>2. \A j \in 1..Len(m) : (j \in 1..Len(l) /\ m[j] = l[j]) \/ m[j] \in E
  <2> TAKE j \in 1..Len(m)
  <2>1. j \in 1..Len(l) \/ j \in Len(l) + 1..Len(m)
    BY <1>1
  <2> QED
    BY <2>1 DEF Grew
<1>3. \A j \in 1..Len(l) : j \in 1..Len(m) /\ m[j] = l[j]
  BY <1>1 DEF Grew
<1> QED
  BY <1>2, <1>3 DEF Happened, Twice

Distinct(u) ==
  \A i, j \in 1..Len(u.clients) : u.clients[i].mac = u.clients[j].mac => i = j

Known(u, mac) == \E i \in 1..Len(u.clients) : u.clients[i].mac = mac

EventsKnown(u) == \A e : Happened(u.log, e) => Known(u, e.mac)

Full(p) == Len(p.ports) = SEEN_PORTS_BUCKETS

\* The port of event e is in its client's table, or did not go in.
Remembered(u, e) ==
  \E i \in 1..Len(u.clients) :
    /\ u.clients[i].mac = e.mac
    /\ e.what \in Range(u.clients[i].ports) \/ Full(u.clients[i])

NoRoom(u, e) ==
  \E i \in 1..Len(u.clients) :
    /\ u.clients[i].mac = e.mac /\ Full(u.clients[i])
    /\ e.what \notin Range(u.clients[i].ports)

\* What was reported is remembered; what was reported twice did not go in.
PortsOK(u) ==
  \A e : e.type = "unusual_port" =>
    /\ Happened(u.log, e) => Remembered(u, e)
    /\ Twice(u.log, e) => NoRoom(u, e)

SpikeOf(mac, h, n, s) ==
  [mac |-> mac, type |-> "bandwidth_spike",
   what |-> [hour |-> h, bytes |-> n, sample |-> s]]

\* Baseline b after a spike of n bytes at sample s, and perhaps two more of n bytes
\* at the samples s + 1 and s + 2: it is on its way to n; after three a fourth
\* window of n bytes is none.
SpikeBound(l, b, mac, h, n, s) ==
  /\ s < b.samples /\ n >= 52
  /\ b.samples = s + 1 => 100 * b.avg_bytes + 99 >= 15 * n
  /\ b.samples = s + 2 /\ Happened(l, SpikeOf(mac, h, n, s + 1)) =>
       10000 * b.avg_bytes + 18315 >= 2775 * n
  /\ b.samples = s + 3 /\ Happened(l, SpikeOf(mac, h, n, s + 1))
                       /\ Happened(l, SpikeOf(mac, h, n, s + 2)) =>
       3 * b.avg_bytes >= n
  /\ ~ (/\ Happened(l, SpikeOf(mac, h, n, s + 1))
        /\ Happened(l, SpikeOf(mac, h, n, s + 2))
        /\ Happened(l, SpikeOf(mac, h, n, s + 3)))

SpikeBounds(l, b, mac, h) ==
  \A n, s \in Nat : Happened(l, SpikeOf(mac, h, n, s)) => SpikeBound(l, b, mac, h, n, s)

SpikesOK(u) ==
  /\ \A j \in 1..Len(u.log) :
       u.log[j].type = "bandwidth_spike" => u.log[j].what \in Measures
  /\ \A i \in 1..Len(u.clients), h \in Hours :
       SpikeBounds(u.log, u.clients[i].baseline[h], u.clients[i].mac, h)

CtxInv(u) ==
  /\ u \in Contexts /\ RingOK(u) /\ Distinct(u) /\ EventsKnown(u) /\ PortsOK(u)
  /\ BASELINE_BYTES >= 16 => SpikesOK(u)

\* Flags are about what was logged behind m.
Since(l, m, mac) == \E j \in m + 1..Len(l) : l[j].mac = mac

FlagsOK(u, m) ==
  \A i \in 1..Len(u.clients) :
    u.clients[i].flagged <=> Since(u.log, m, u.clients[i].mac)

-----------------------------------------------------------------------------
(* Spikes.                                                                 *)

LEMMA SpikeEventIs ==
  ASSUME NEW mac, NEW h, NEW n, NEW s, NEW mac2, NEW h2, NEW n2, NEW s2
  PROVE  SpikeOf(mac, h, n, s) = SpikeOf(mac2, h2, n2, s2) <=>
           mac = mac2 /\ h = h2 /\ n = n2 /\ s = s2
<1> DEFINE x == [hour |-> h, bytes |-> n, sample |-> s]
           y == [hour |-> h2, bytes |-> n2, sample |-> s2]
<1>1. x = y <=> h = h2 /\ n = n2 /\ s = s2
  OBVIOUS
<1> HIDE DEF x, y
<1>2. [mac |-> mac, type |-> "bandwidth_spike", what |-> x] =
        [mac |-> mac2, type |-> "bandwidth_spike", what |-> y] <=> mac = mac2 /\ x = y
  OBVIOUS
<1> QED
  BY <1>1, <1>2 DEF SpikeOf, x, y

\* Where neither the baseline nor the spikes change.
LEMMA BoundsStay ==
  ASSUME NEW l, NEW m, NEW b, NEW mac, NEW h, SpikeBounds(l, b, mac, h),
         \A n, s \in Nat : Happened(m, SpikeOf(mac, h, n, s)) => Happened(l, SpikeOf(mac, h, n, s))
  PROVE  SpikeBounds(m, b, mac, h)
<1> SUFFICES ASSUME NEW n \in Nat, NEW s \in Nat, Happened(m, SpikeOf(mac, h, n, s))
             PROVE  SpikeBound(m, b, mac, h, n, s)
  BY DEF SpikeBounds
<1>1. SpikeBound(l, b, mac, h, n, s)
  BY DEF SpikeBounds
<1>2. s + 1 \in Nat /\ s + 2 \in Nat /\ s + 3 \in Nat
  OBVIOUS
<1> QED
  BY <1>1, <1>2 DEF SpikeBound

\* A window ends: what was a spike has been one, or is one of the window's bytes.
LEMMA BoundsMove ==
  ASSUME BASELINE_BYTES >= 16, NEW l, NEW m, NEW mac, NEW h,
         NEW b \in Baselines, NEW w \in Windows, SpikeBounds(l, b, mac, h),
         \A n, s \in Nat : Happened(m, SpikeOf(mac, h, n, s)) =>
           \/ Happened(l, SpikeOf(mac, h, n, s))
           \/ n = w.bytes /\ s = b.samples /\ Spike(w, b)
  PROVE  SpikeBounds(m, Moved(b, w), mac, h)
<1> DEFINE c == Moved(b, w)
           a == b.avg_bytes
<1>1. b.samples \in Nat /\ a \in Nat /\ w.bytes \in Nat /\ w.flows \in Nat
  BY BaselineIs, WindowIs
<1>2. CASE w.flows = 0
  <2>1. c = b
    BY <1>2, MovedIs
  <2>2. ~Spike(w, b)
    <3>1. w.bytes = 0
      BY <1>2, WindowIs
    <3> QED
      BY <1>1, <3>1 DEF Spike
  <2> QED
    BY <2>1, <2>2, BoundsStay
<1>3. CASE w.flows # 0
  <2>1. c.samples = b.samples + 1 /\ c \in Baselines
    BY <1>3, MovedIs
  <2>2. b.samples # 0 => /\ 15 * w.bytes + 85 * a <= 100 * c.avg_bytes + 99
    <3>1. b.samples # 0 => c.avg_bytes = Ema(w.bytes, a)
      BY <1>3, MovedIs
    <3> QED
      BY <1>1, <3>1, EmaIs
  <2>3. c.avg_bytes \in Nat
    BY <2>1, BaselineIs
  <2> HIDE DEF c, a
  <2>4. Spike(w, b) => a >= 17 /\ w.bytes >= 52 /\ w.bytes > 3 * a /\ b.samples # 0
    <3>1. Spike(w, b) => a > BASELINE_BYTES /\ w.bytes > 3 * a
      BY DEF Spike, a
    <3>2. BASELINE_BYTES \in Nat
      BY ProfileAssumption
    <3>3. b.samples = 0 => a = 0
      BY BaselineIs DEF a
    <3> QED
      BY <1>1, <3>1, <3>2, <3>3
  <2> DEFINE Old(n, s) == Happened(l, SpikeOf(mac, h, n, s))
             All(n, s) == Happened(m, SpikeOf(mac, h, n, s))
             New(n, s) == n = w.bytes /\ s = b.samples /\ Spike(w, b)
  <2>5. \A n, s \in Nat : All(n, s) => Old(n, s) \/ New(n, s)
    OBVIOUS
  <2>6. ASSUME NEW n \in Nat, NEW s \in Nat, Old(n, s)
        PROVE  /\ s < b.samples /\ n >= 52
               /\ b.samples = s + 1 => 100 * a + 99 >= 15 * n
               /\ b.samples = s + 2 /\ Old(n, s + 1) => 10000 * a + 18315 >= 2775 * n
               /\ b.samples = s + 3 /\ Old(n, s + 1) /\ Old(n, s + 2) => 3 * a >= n
               /\ ~ (Old(n, s + 1) /\ Old(n, s + 2) /\ Old(n, s + 3))
    BY <2>6 DEF SpikeBounds, SpikeBound, a
  <2> SUFFICES ASSUME NEW n \in Nat, NEW s \in Nat, All(n, s)
               PROVE  /\ s < c.samples /\ n >= 52
                      /\ c.samples = s + 1 => 100 * c.avg_bytes + 99 >= 15 * n
                      /\ c.samples = s + 2 /\ All(n, s + 1) =>
                           10000 * c.avg_bytes + 18315 >= 2775 * n
                      /\ c.samples = s + 3 /\ All(n, s + 1) /\ All(n, s + 2) =>
                           3 * c.avg_bytes >= n
                      /\ ~ (All(n, s + 1) /\ All(n, s + 2) /\ All(n, s + 3))
    BY DEF SpikeBounds, SpikeBound, c
  <2> HIDE DEF Old, All
  <2>7. s + 1 \in Nat /\ s + 2 \in Nat /\ s + 3 \in Nat
    OBVIOUS
  <2>8. (Old(n, s) => s < b.samples /\ n >= 52) /\ (Old(n, s + 1) => s + 1 < b.samples)
        /\ (Old(n, s + 2) => s + 2 < b.samples) /\ (Old(n, s + 3) => s + 3 < b.samples)
    BY <2>6, <2>7
  <2>9. s < c.samples /\ n >= 52
    BY <1>1, <2>1, <2>4, <2>5, <2>8
  <2>10. c.samples = s + 1 => 100 * c.avg_bytes + 99 >= 15 * n
    <3>1. c.samples = s + 1 => ~Old(n, s)
      BY <1>1, <2>1, <2>8
    <3> QED
      BY <1>1, <2>2, <2>3, <2>4, <2>5, <3>1
  <2>11. ASSUME c.samples = s + 2, All(n, s + 1)
         PROVE  10000 * c.avg_bytes + 18315 >= 2775 * n
    <3>1. b.samples = s + 1
      BY <1>1, <2>1, <2>11
    <3>2. Old(n, s) /\ New(n, s + 1)
      BY <1>1, <2>5, <2>7, <2>8, <2>11, <3>1
    <3>3. 100 * a + 99 >= 15 * n
      BY <2>6, <3>1, <3>2
    <3> QED
      BY <1>1, <2>2, <2>3, <2>4, <3>2, <3>3
  <2>12. ASSUME c.samples = s + 3, All(n, s + 1), All(n, s + 2)
         PROVE  3 * c.avg_bytes >= n
    <3>1. b.samples = s + 2
      BY <1>1, <2>1, <2>12
    <3>2. Old(n, s) /\ Old(n, s + 1) /\ New(n, s + 2)
      BY <1>1, <2>5, <2>7, <2>8, <2>12, <3>1
    <3>3. 10000 * a + 18315 >= 2775 * n
      BY <2>6, <3>1, <3>2
    <3>4. n = w.bytes /\ n >= 52
      BY <2>4, <3>2
    <3> QED
      BY <1>1, <2>2, <2>3, <2>4, <3>2, <3>3, <3>4
  <2>13. ASSUME All(n, s + 1), All(n, s + 2), All(n, s + 3) PROVE FALSE
    <3>1. Old(n, s + 3) \/ New(n, s + 3)
      BY <2>5, <2>7, <2>13
    <3>2. s + 3 <= b.samples
      BY <1>1, <2>7, <2>8, <3>1
    <3>3. Old(n, s) /\ Old(n, s + 1) /\ Old(n, s + 2)
      BY <1>1, <2>5, <2>7, <2>13, <3>2
    <3>4. New(n, s + 3)
      BY <2>6, <3>1, <3>3
    <3>5. b.samples = s + 3 /\ n = w.bytes /\ n > 3 * a
      BY <2>4, <3>4
    <3>6. 3 * a >= n
      BY <2>6, <3>3, <3>5
    <3> QED
      BY <1>1, <3>5, <3>6
  <2> QED
    BY <2>9, <2>10, <2>11, <2>12, <2>13
<1> QED
  BY <1>2, <1>3

-----------------------------------------------------------------------------
(* What stays when the log grows and clients gain ports.                   *)

PortsGrow(p, q) ==
  q.mac = p.mac /\ Range(p.ports) \subseteq Range(q.ports) /\ (Full(p) => q.ports = p.ports)

Kept(u, v) ==
  /\ Len(u.clients) <= Len(v.clients)
  /\ \A i \in 1..Len(u.clients) : PortsGrow(u.clients[i], v.clients[i])

LEMMA KeptIs ==
  ASSUME NEW u \in Contexts, NEW v \in Contexts, Kept(u, v)
  PROVE  /\ \A mac : Known(u, mac) => Known(v, mac)
         /\ \A e : Remembered(u, e) => Remembered(v, e)
         /\ \A e : NoRoom(u, e) => NoRoom(v, e)
<1>1. \A i \in 1..Len(u.clients) : i \in 1..Len(v.clients) /\ PortsGrow(u.clients[i], v.clients[i])
  BY ListsAre DEF Kept
<1>2. \A mac : Known(u, mac) => Known(v, mac)
  BY <1>1 DEF Known, PortsGrow
<1>3. \A e : Remembered(u, e) => Remembered(v, e)
  BY <1>1 DEF Remembered, PortsGrow, Full
<1>4. \A e : NoRoom(u, e) => NoRoom(v, e)
  BY <1>1 DEF NoRoom, PortsGrow, Full
<1> QED
  BY <1>2, <1>3, <1>4

LEMMA EventsStay ==
  ASSUME NEW u \in Contexts, NEW v \in Contexts, Kept(u, v), EventsKnown(u), PortsOK(u),
         NEW E, Grew(u.log, v.log, E),
         \A e \in E : /\ Known(v, e.mac)
                      /\ e.type = "unusual_port" =>
                           Remembered(v, e) /\ (Twice(v.log, e) => NoRoom(v, e))
  PROVE  EventsKnown(v) /\ PortsOK(v)
<1>1. /\ \A x : Happened(v.log, x) => Happened(u.log, x) \/ x \in E
      /\ \A x : Twice(v.log, x) => Twice(u.log, x) \/ x \in E
  BY ContextIs, GrewIs
<1>2. EventsKnown(v)
  <2> SUFFICES ASSUME NEW e, Happened(v.log, e) PROVE Known(v, e.mac)
    BY DEF EventsKnown
  <2>1. CASE Happened(u.log, e)
    <3>1. Known(u, e.mac)
      BY <2>1 DEF EventsKnown
    <3> QED
      BY <3>1, KeptIs
  <2> QED
    BY <1>1, <2>1
<1>3. PortsOK(v)
  <2> SUFFICES ASSUME NEW e, e.type = "unusual_port"
               PROVE  /\ Happened(v.log, e) => Remembered(v, e)
                      /\ Twice(v.log, e) => NoRoom(v, e)
    BY DEF PortsOK
  <2>1. /\ Happened(u.log, e) => Remembered(u, e)
        /\ Twice(u.log, e) => NoRoom(u, e)
    BY DEF PortsOK
  <2>2. Happened(v.log, e) => Remembered(v, e)
    BY <1>1, <2>1, KeptIs
  <2>3. Twice(v.log, e) => NoRoom(v, e)
    BY <1>1, <2>1, KeptIs
  <2> QED
    BY <2>2, <2>3
<1> QED
  BY <1>2, <1>3

\* The same, when nothing is logged.
LEMMA QuietStays ==
  ASSUME NEW u \in Contexts, NEW v \in Contexts, Kept(u, v), EventsKnown(u), PortsOK(u),
         Grew(u.log, v.log, {})
  PROVE  EventsKnown(v) /\ PortsOK(v)
<1> DEFINE none == {}
<1>1. \A e \in none :
        /\ Known(v, e.mac)
        /\ e.type = "unusual_port" => Remembered(v, e) /\ (Twice(v.log, e) => NoRoom(v, e))
  OBVIOUS
<1>2. Grew(u.log, v.log, none)
  OBVIOUS
<1> HIDE DEF none
<1> QED
  BY <1>1, <1>2, EventsStay

\* Without new spikes, a baseline that stays keeps its bounds, and a new client
\* has had no spike.
LEMMA SpikesStay ==
  ASSUME NEW u \in Contexts, NEW v \in Contexts, EventsKnown(u), SpikesOK(u),
         NEW E, Grew(u.log, v.log, E), \A e \in E : e.type # "bandwidth_spike",
         \A i \in 1..Len(v.clients) :
           \/ /\ i \in 1..Len(u.clients) /\ v.clients[i].mac = u.clients[i].mac
              /\ v.clients[i].baseline = u.clients[i].baseline
           \/ ~Known(u, v.clients[i].mac)
  PROVE  SpikesOK(v)
<1>1. \A x : Happened(v.log, x) /\ x.type = "bandwidth_spike" => Happened(u.log, x)
  BY ContextIs, GrewIs
<1>2. ASSUME NEW j \in 1..Len(v.log), v.log[j].type = "bandwidth_spike"
      PROVE  v.log[j].what \in Measures
  <2>1. Happened(u.log, v.log[j])
    BY <1>1, <1>2 DEF Happened
  <2> QED
    BY <1>2, <2>1 DEF Happened, SpikesOK
<1>3. ASSUME NEW i \in 1..Len(v.clients), NEW h \in Hours
      PROVE  SpikeBounds(v.log, v.clients[i].baseline[h], v.clients[i].mac, h)
  <2> DEFINE mac == v.clients[i].mac
  <2>1. \A n, s : Happened(v.log, SpikeOf(mac, h, n, s)) => Happened(u.log, SpikeOf(mac, h, n, s))
    <3> TAKE n, s
    <3> DEFINE e == SpikeOf(mac, h, n, s)
    <3>1. e.type = "bandwidth_spike"
      BY DEF SpikeOf
    <3> HIDE DEF e
    <3>2. Happened(v.log, e) => Happened(u.log, e)
      BY <1>1, <3>1
    <3> QED
      BY <3>2 DEF e
  <2> HIDE DEF mac
  <2>2. CASE Known(u, mac)
    <3>1. /\ i \in 1..Len(u.clients) /\ mac = u.clients[i].mac
          /\ v.clients[i].baseline = u.clients[i].baseline
      BY <2>2 DEF mac
    <3>2. SpikeBounds(u.log, u.clients[i].baseline[h], mac, h)
      BY <3>1 DEF SpikesOK
    <3> QED
      BY <2>1, <3>1, <3>2, BoundsStay DEF mac
  <2>3. CASE ~Known(u, mac)
    <3>1. \A n, s : ~Happened(v.log, SpikeOf(mac, h, n, s))
      <4> TAKE n, s
      <4> DEFINE e == SpikeOf(mac, h, n, s)
      <4>1. e.mac = mac
        BY DEF SpikeOf
      <4>2. Happened(u.log, e) => Known(u, e.mac)
        BY DEF EventsKnown
      <4> HIDE DEF e
      <4>3. ~Happened(u.log, e)
        BY <2>3, <4>1, <4>2
      <4> QED
        BY <2>1, <4>3 DEF e
    <3> QED
      BY <3>1 DEF SpikeBounds, mac
  <2> QED
    BY <2>2, <2>3
<1> QED
  BY <1>2, <1>3 DEF SpikesOK

LEMMA SinceGrows ==
  ASSUME NEW l \in Logs, NEW m, NEW E, Grew(l, m, E), NEW k \in 0..Len(l), NEW mac
  PROVE  /\ Since(l, k, mac) => Since(m, k, mac)
         /\ Since(m, k, mac) => Since(l, k, mac) \/ \E e \in E : e.mac = mac
         /\ Len(m) > Len(l) /\ (\A e \in E : e.mac = mac) => Since(m, k, mac)
<1>1. Len(l) \in Nat /\ Len(m) \in Nat /\ Len(l) <= Len(m)
  BY LogIs DEF Grew
<1>2. \A j \in k + 1..Len(m) :
        (j \in k + 1..Len(l) /\ m[j] = l[j]) \/ (j \in Len(l) + 1..Len(m) /\ m[j] \in E)
  <2> TAKE j \in k + 1..Len(m)
  <2>1. (j \in 1..Len(l) /\ j \in k + 1..Len(l)) \/ j \in Len(l) + 1..Len(m)
    BY <1>1
  <2> QED
    BY <2>1 DEF Grew
<1>3. \A j \in k + 1..Len(l) : j \in k + 1..Len(m) /\ m[j] = l[j]
  BY <1>1 DEF Grew
<1>4. Len(m) > Len(l) => Len(m) \in k + 1..Len(m) /\ m[Len(m)] \in E
  <2>1. Len(m) > Len(l) => Len(m) \in k + 1..Len(m) /\ Len(m) \in Len(l) + 1..Len(m)
    BY <1>1
  <2> QED
    BY <2>1 DEF Grew
<1> QED
  BY <1>2, <1>3, <1>4 DEF Since

-----------------------------------------------------------------------------
(* A flow is added to its sender's window.                                 *)

LEMMA AddedIs ==
  ASSUME NEW w \in Windows, NEW f, flow[f] \in [bytes: Nat, cls: Classes]
  PROVE  Added(w, f) \in Windows
<1> DEFINE n == w.bytes + flow[f].bytes
           k == w.flows + 1
           c == [w.classes EXCEPT ![flow[f].cls] = w.classes[flow[f].cls] + 1]
           h == IF flow[f].bytes > w.heaviest THEN flow[f].bytes ELSE w.heaviest
<1>1. flow[f].bytes \in Nat /\ flow[f].cls \in Classes
  OBVIOUS
<1>2. Added(w, f) = [bytes |-> n, flows |-> k, classes |-> c, heaviest |-> h]
  BY DEF Added
<1>3. n \in Nat /\ k \in Nat /\ k # 0 /\ h \in Nat
  BY <1>1, WindowIs
<1>4. c \in [Classes -> Nat]
  <2>1. w.classes \in [Classes -> Nat]
    BY WindowIs
  <2> QED
    BY <1>1, <2>1
<1> HIDE DEF n, k, c, h
<1> QED
  BY <1>2, <1>3, <1>4 DEF Windows

\* Client p, with window w and the port.
Gained(p, w, port) == port_add([p EXCEPT !.window = w], port)

LEMMA GainedIs ==
  ASSUME NEW p \in Profiles, NEW w \in Windows, NEW port \in Nat
  PROVE  LET q == Gained(p, w, port)
         IN  /\ q \in Profiles /\ q.baseline = p.baseline /\ q.flagged = p.flagged
             /\ PortsGrow(p, q) /\ (port \in Range(q.ports) \/ Full(q))
<1> DEFINE f == p.flagged
           x == [p EXCEPT !.window = w]
           l == Append(p.ports, port)
           y == [x EXCEPT !.ports = l]
           q == Gained(p, w, port)
<1>1. /\ p = [mac |-> p.mac, window |-> p.window, baseline |-> p.baseline, ports |-> p.ports,
              anomaly_count |-> p.anomaly_count, flagged |-> f]
      /\ p.mac \in Macs /\ p.baseline \in Histories
      /\ p.ports \in PortLists /\ p.anomaly_count \in Nat /\ f \in BOOLEAN
  BY ProfileIs
<1> HIDE DEF f
<1>2. x = [mac |-> p.mac, window |-> w, baseline |-> p.baseline, ports |-> p.ports,
           anomaly_count |-> p.anomaly_count, flagged |-> f]
  BY <1>1
<1> HIDE DEF x, l
<1>3. y = [mac |-> p.mac, window |-> w, baseline |-> p.baseline, ports |-> l,
           anomaly_count |-> p.anomaly_count, flagged |-> f]
  BY <1>2
<1> HIDE DEF y
<1>4. x.mac = p.mac /\ x.baseline = p.baseline /\ x.flagged = f /\ x.ports = p.ports
  BY <1>2
<1>5. y.mac = p.mac /\ y.baseline = p.baseline /\ y.flagged = f /\ y.ports = l
  BY <1>3
<1>6. /\ l \in PortLists /\ Len(l) = Len(p.ports) + 1 /\ port \in Range(l)
      /\ Range(p.ports) \subseteq Range(l) /\ Len(p.ports) \in Nat
  <2>1. p.ports \in Seq(Nat)
    BY <1>1 DEF PortLists
  <2>2. /\ l \in Seq(Nat) /\ Len(l) = Len(p.ports) + 1 /\ l[Len(p.ports) + 1] = port
        /\ \A i \in 1..Len(p.ports) : l[i] = p.ports[i]
        /\ Len(p.ports) \in Nat
    BY <2>1 DEF l
  <2>3. DOMAIN l = 1..Len(p.ports) + 1 /\ DOMAIN p.ports = 1..Len(p.ports)
    BY <2>1, <2>2
  <2> QED
    BY <2>2, <2>3 DEF Range, PortLists
<1>7. x \in Profiles /\ y \in Profiles
  BY <1>1, <1>2, <1>3, <1>6 DEF Profiles
<1>8. \/ q = x /\ (port \in Range(x.ports) \/ Full(x))
      \/ q = y /\ ~Full(p)
  <2>1. q = IF port \in Range(x.ports) \/ Full(x) THEN x ELSE [x EXCEPT !.ports = Append(x.ports, port)]
    BY DEF Gained, port_add, port_is_known, Full, x
  <2>2. [x EXCEPT !.ports = Append(x.ports, port)] = y
    BY <1>4 DEF y, l
  <2> QED
    BY <1>4, <2>1, <2>2 DEF Full
<1> HIDE DEF q
<1>9. CASE q = x /\ (port \in Range(x.ports) \/ Full(x))
  BY <1>4, <1>7, <1>9 DEF PortsGrow, Full, f, q
<1>10. CASE q = y /\ ~Full(p)
  BY <1>5, <1>6, <1>7, <1>10 DEF PortsGrow, Full, f, q
<1> QED
  BY <1>8, <1>9, <1>10 DEF q

\* The invariant of the profiler between two flows and between two clients.
Fine(u, k) == CtxInv(u) /\ FlagsOK(u, k) /\ k \in 0..Len(u.log)

LEMMA FoundIs ==
  ASSUME NEW u, NEW k, Fine(u, k), NEW mac \in Macs
  PROVE  Fine(find_or_create_profile(u, mac), k)
<1> DEFINE c == NewClient(mac)
           l == Append(u.clients, c)
           v == [clients |-> l, ring |-> u.ring, head |-> u.head, total |-> u.total,
                 log |-> u.log]
<1>0. u \in Contexts
  BY DEF Fine, CtxInv
<1>1. CASE ~(Slot(u, mac) = {} /\ Len(u.clients) < PROFILE_MAX_CLIENTS)
  BY <1>1 DEF find_or_create_profile
<1>2. CASE Slot(u, mac) = {} /\ Len(u.clients) < PROFILE_MAX_CLIENTS
  <2>1. find_or_create_profile(u, mac) = v
    <3>1. find_or_create_profile(u, mac) = [u EXCEPT !.clients = l]
      BY <1>2 DEF find_or_create_profile
    <3> HIDE DEF l
    <3> QED
      BY <1>0, <3>1, ContextIs
  <2>2. ~Known(u, mac)
    BY <1>2 DEF Known, Slot
  <2>3. c \in Profiles /\ c.mac = mac /\ c.flagged = FALSE
    <3> DEFINE w == NewWindow
               b == [h \in Hours |-> NewBaseline]
               s == << >>
    <3>1. c = [mac |-> mac, window |-> w, baseline |-> b, ports |-> s, anomaly_count |-> 0,
               flagged |-> FALSE]
      BY DEF NewClient
    <3>2. w \in Windows
      <4> DEFINE z == [d \in Classes |-> 0]
      <4>1. z \in [Classes -> Nat] /\ w = [bytes |-> 0, flows |-> 0, classes |-> z, heaviest |-> 0]
        BY DEF NewWindow
      <4> HIDE DEF z, w
      <4> QED
        BY <4>1 DEF Windows
    <3>3. NewBaseline \in Baselines
      <4> DEFINE z == [d \in Classes |-> 0]
      <4>1. z \in [Classes -> Nat] /\ NewBaseline = [avg_bytes |-> 0, class_frac |-> z, samples |-> 0]
        BY DEF NewBaseline
      <4> HIDE DEF z
      <4> QED
        BY <4>1 DEF Baselines
    <3>4. b \in Histories /\ s \in PortLists
      BY <3>3 DEF Histories, PortLists
    <3> HIDE DEF w, b, s, c
    <3> QED
      BY <3>1, <3>2, <3>4 DEF Profiles
  <2> HIDE DEF c
  <2>4. /\ l \in Seq(Profiles) /\ Len(l) = Len(u.clients) + 1 /\ l[Len(u.clients) + 1] = c
        /\ \A i \in 1..Len(u.clients) : l[i] = u.clients[i]
        /\ Len(u.clients) \in Nat
    BY <1>0, <2>3, ContextIs
  <2>5. \A i \in 1..Len(l) : (i \in 1..Len(u.clients) /\ l[i] = u.clients[i])
                             \/ (i = Len(u.clients) + 1 /\ l[i] = c)
    BY <2>4
  <2> HIDE DEF l
  <2>6. v \in Contexts
    BY <1>0, <2>4, ContextIs DEF Contexts
  <2>7. v.clients = l /\ v.log = u.log /\ v.ring = u.ring /\ v.head = u.head /\ v.total = u.total
    OBVIOUS
  <2> HIDE DEF v
  <2>8. RingOK(v)
    BY <2>7 DEF Fine, CtxInv, RingOK
  <2>9. Distinct(v)
    BY <2>2, <2>3, <2>5, <2>7 DEF Fine, CtxInv, Distinct, Known
  <2>10. Kept(u, v)
    BY <2>4, <2>7 DEF Kept, PortsGrow
  <2>11. Grew(u.log, v.log, {})
    BY <1>0, <2>7, LogIs, ContextIs DEF Grew
  <2>12. EventsKnown(v) /\ PortsOK(v)
    BY <1>0, <2>6, <2>10, <2>11, QuietStays DEF Fine, CtxInv
  <2>13. ASSUME BASELINE_BYTES >= 16 PROVE SpikesOK(v)
    <3>0. EventsKnown(u) /\ SpikesOK(u)
      BY <2>13 DEF Fine, CtxInv
    <3>1. \A i \in 1..Len(v.clients) :
            \/ /\ i \in 1..Len(u.clients) /\ v.clients[i].mac = u.clients[i].mac
               /\ v.clients[i].baseline = u.clients[i].baseline
            \/ ~Known(u, v.clients[i].mac)
      BY <2>2, <2>3, <2>5, <2>7
    <3>2. \A e \in {} : e.type # "bandwidth_spike"
      OBVIOUS
    <3> QED
      BY <1>0, <2>6, <2>11, <3>0, <3>1, <3>2, SpikesStay
  <2>14. FlagsOK(v, k)
    <3>1. ~Since(u.log, k, mac)
      <4>1. \A j \in k + 1..Len(u.log) : j \in 1..Len(u.log)
        BY <1>0, ListsAre DEF Fine
      <4> QED
        BY <2>2, <4>1 DEF Fine, CtxInv, EventsKnown, Happened, Since
    <3> SUFFICES ASSUME NEW i \in 1..Len(v.clients)
                 PROVE  v.clients[i].flagged <=> Since(v.log, k, v.clients[i].mac)
      BY DEF FlagsOK
    <3>2. CASE i \in 1..Len(u.clients) /\ l[i] = u.clients[i]
      BY <2>7, <3>2 DEF Fine, FlagsOK
    <3>3. CASE l[i] = c
      BY <2>3, <2>7, <3>1, <3>3
    <3> QED
      BY <2>5, <2>7, <3>2, <3>3
  <2>15. Fine(v, k)
    BY <2>6, <2>7, <2>8, <2>9, <2>12, <2>13, <2>14 DEF Fine, CtxInv
  <2> QED
    BY <2>1, <2>15
<1> QED
  BY <1>1, <1>2

\* A new window and perhaps a new port for client i, with an event of that port or
\* without one.
LEMMA GainedFine ==
  ASSUME NEW u, NEW k, Fine(u, k), NEW i \in 1..Len(u.clients), NEW w \in Windows,
         NEW port \in Nat, NEW v,
         LET x == WithProfile(u, i, Gained(u.clients[i], w, port))
         IN  \/ v = x
             \/ /\ v = record_anomaly(x, i, "unusual_port", port)
                /\ port \notin Range(u.clients[i].ports)
  PROVE  Fine(v, k)
<1> DEFINE p == u.clients[i]
           q == Gained(p, w, port)
           x == WithProfile(u, i, q)
           e == EventOf(x, i, "unusual_port", port)
<1>1. u \in Contexts /\ p \in Profiles
  BY ListsAre DEF Fine, CtxInv
<1>2. /\ q \in Profiles /\ q.baseline = p.baseline /\ q.flagged = p.flagged
      /\ PortsGrow(p, q) /\ (port \in Range(q.ports) \/ Full(q))
  <2> HIDE DEF p
  <2> QED
    BY <1>1, GainedIs
<1>3. v = x \/ (v = record_anomaly(x, i, "unusual_port", port) /\ port \notin Range(p.ports))
  OBVIOUS
<1> HIDE DEF q
<1>4. /\ x \in Contexts /\ Others(u, x, i) /\ x.clients[i] = q /\ x.log = u.log
      /\ RingOK(x)
  BY <1>1, <1>2, WithProfileIs DEF Fine, CtxInv
<1> HIDE DEF x, p
<1>5. i \in 1..Len(x.clients) /\ p.mac \in Macs /\ e.mac = p.mac /\ e.what = port
      /\ e.type = "unusual_port"
  BY <1>1, <1>2, <1>4, ProfileIs DEF Others, PortsGrow, EventOf
<1> HIDE DEF e
<1>6. /\ v = x \/ (v.log = Append(u.log, e) /\ port \notin Range(p.ports))
      /\ Noted(x, v, i, e)
  <2>1. CASE v = x
    BY <1>4, <2>1, NothingNoted
  <2>2. CASE v = record_anomaly(x, i, "unusual_port", port) /\ port \notin Range(p.ports)
    <3>1. "unusual_port" \in EventTypes /\ port \in Nat \cup Measures
      BY DEF EventTypes
    <3>2. Noted(x, v, i, e) /\ v.log = Append(x.log, e)
      BY <1>4, <1>5, <2>2, <3>1, RecordIs DEF e
    <3> QED
      BY <1>4, <2>2, <3>2
  <2> QED
    BY <1>3, <2>1, <2>2
<1> DEFINE r == v.clients[i]
<1>7. /\ v \in Contexts /\ RingOK(v) /\ Others(u, v, i)
      /\ r.mac = p.mac /\ r.baseline = p.baseline /\ r.ports = q.ports
      /\ \/ v.log = u.log /\ r.flagged = p.flagged
         \/ v.log = Append(u.log, e) /\ r.flagged = TRUE
  <2>1. Others(x, v, i) /\ v \in Contexts /\ RingOK(v)
    BY <1>4, <1>6 DEF Noted
  <2>2. Others(u, v, i)
    BY <1>4, <2>1, OthersAgain
  <2>3. r.mac = q.mac /\ r.baseline = q.baseline /\ r.ports = q.ports
    BY <1>4, <1>6 DEF Noted
  <2>4. \/ v.log = u.log /\ r.flagged = q.flagged
        \/ v.log = Append(u.log, e) /\ r.flagged = TRUE
    BY <1>4, <1>6 DEF Noted
  <2> QED
    BY <1>2, <2>1, <2>2, <2>3, <2>4 DEF PortsGrow
<1> HIDE DEF r
<1>8. e \in Events
  <2>1. e = [mac |-> x.clients[i].mac, type |-> "unusual_port", what |-> port]
    BY DEF e, EventOf
  <2>2. x.clients[i].mac \in Macs
    BY <1>4, <1>5, ListsAre, ProfileIs
  <2> QED
    BY <2>1, <2>2 DEF Events, EventTypes
<1>9. Logged(u.log, v.log, e) /\ u.log \in Logs
  BY <1>1, <1>7, ContextIs DEF Logged
<1>10. Grew(u.log, v.log, {e})
  BY <1>8, <1>9, LoggedGrew
<1>11. PortsGrow(p, r)
  BY <1>2, <1>7 DEF PortsGrow, Full
<1>12. Kept(u, v)
  <2>1. \A j \in 1..Len(u.clients) \ {i} : v.clients[j] = u.clients[j]
    BY <1>7 DEF Others
  <2>2. \A j \in 1..Len(u.clients) : PortsGrow(u.clients[j], v.clients[j])
    BY <1>11, <2>1 DEF PortsGrow, p, r
  <2> QED
    BY <1>1, <1>7, <2>2, ListsAre DEF Kept, Others
<1>13. Len(v.clients) = Len(u.clients) /\ Len(u.clients) \in Nat
       /\ \A j \in 1..Len(u.clients) : v.clients[j].mac = u.clients[j].mac
                                       /\ v.clients[j].baseline = u.clients[j].baseline
  BY <1>1, <1>7, ListsAre DEF Others, p, r
<1>14. Distinct(v)
  BY <1>13 DEF Fine, CtxInv, Distinct
<1>15. EventsKnown(v) /\ PortsOK(v)
  <2>1. CASE v.log = u.log
    <3>1. Grew(u.log, v.log, {})
      BY <1>1, <2>1, ContextIs, LogIs DEF Grew
    <3>2. EventsKnown(u) /\ PortsOK(u)
      BY DEF Fine, CtxInv
    <3> QED
      BY <1>1, <1>7, <1>12, <3>1, <3>2, QuietStays
  <2>2. CASE v.log = Append(u.log, e) /\ v.log # u.log
    <3>1. port \notin Range(p.ports)
      BY <1>4, <1>6, <2>2
    <3>2. Known(v, e.mac)
      BY <1>5, <1>7, <1>13 DEF Known, r
    <3>3. Remembered(v, e)
      BY <1>2, <1>5, <1>7, <1>13 DEF Remembered, Full, r
    <3>4. ASSUME Twice(v.log, e) PROVE NoRoom(v, e)
      <4>1. Happened(u.log, e)
        <5>1. u.log \in Seq(Events)
          BY <1>9 DEF Logs
        <5>2. /\ Len(v.log) = Len(u.log) + 1 /\ Len(u.log) \in Nat
              /\ \A j \in 1..Len(u.log) : v.log[j] = u.log[j]
          BY <2>2, <5>1
        <5>3. PICK j1, j2 \in 1..Len(v.log) : j1 # j2 /\ v.log[j1] = e /\ v.log[j2] = e
          BY <3>4 DEF Twice
        <5>4. j1 \in 1..Len(u.log) \/ j2 \in 1..Len(u.log)
          BY <5>2, <5>3
        <5> QED
          BY <5>2, <5>3, <5>4 DEF Happened
      <4>2. PICK j \in 1..Len(u.clients) :
              u.clients[j].mac = e.mac /\ (port \in Range(u.clients[j].ports) \/ Full(u.clients[j]))
        BY <1>5, <4>1 DEF Fine, CtxInv, PortsOK, Remembered
      <4>3. j = i
        BY <1>5, <4>2 DEF Fine, CtxInv, Distinct, p
      <4>4. Full(p)
        BY <3>1, <4>2, <4>3 DEF p
      <4>5. r.ports = p.ports
        BY <1>11, <4>4 DEF PortsGrow
      <4>6. Full(r) /\ e.what \notin Range(r.ports)
        BY <1>5, <3>1, <4>4, <4>5 DEF Full
      <4> QED
        BY <1>5, <1>7, <1>13, <4>6 DEF NoRoom, r
    <3> QED
      BY <1>1, <1>7, <1>10, <1>12, <3>2, <3>3, <3>4, EventsStay DEF Fine, CtxInv
  <2> QED
    BY <1>9, <2>1, <2>2 DEF Logged
<1>16. ASSUME BASELINE_BYTES >= 16 PROVE SpikesOK(v)
  <2>1. EventsKnown(u) /\ SpikesOK(u)
    BY <1>16 DEF Fine, CtxInv
  <2>2. \A d \in {e} : d.type # "bandwidth_spike"
    BY <1>5
  <2>3. \A j \in 1..Len(v.clients) :
          \/ /\ j \in 1..Len(u.clients) /\ v.clients[j].mac = u.clients[j].mac
             /\ v.clients[j].baseline = u.clients[j].baseline
          \/ ~Known(u, v.clients[j].mac)
    BY <1>13
  <2> QED
    BY <1>1, <1>7, <1>10, <2>1, <2>2, <2>3, SpikesStay
<1>17. k \in 0..Len(u.log) /\ k \in 0..Len(v.log)
  <2>1. Len(u.log) \in Nat /\ Len(v.log) \in Nat /\ Len(u.log) <= Len(v.log)
    BY <1>1, <1>7, <1>10, ListsAre DEF Grew
  <2> QED
    BY <2>1 DEF Fine
<1>18. FlagsOK(v, k)
  <2> SUFFICES ASSUME NEW j \in 1..Len(v.clients)
               PROVE  v.clients[j].flagged <=> Since(v.log, k, v.clients[j].mac)
    BY DEF FlagsOK
  <2>1. u.clients[j].flagged <=> Since(u.log, k, u.clients[j].mac)
    BY <1>13 DEF Fine, FlagsOK
  <2>2. CASE v.log = u.log /\ r.flagged = p.flagged
    <3>1. v.clients[j].flagged = u.clients[j].flagged
      BY <1>7, <1>13, <2>2 DEF Others, p, r
    <3> QED
      BY <1>13, <2>1, <2>2, <3>1
  <2>3. CASE v.log = Append(u.log, e) /\ r.flagged = TRUE
    <3>1. Len(v.log) > Len(u.log)
      BY <1>9, <2>3 DEF Logs
    <3>2. CASE j = i
      <4>1. Since(v.log, k, p.mac)
        BY <1>5, <1>9, <1>10, <1>17, <3>1, SinceGrows
      <4> QED
        BY <1>13, <2>3, <3>2, <4>1 DEF p, r
    <3>3. CASE j # i
      <4>1. v.clients[j].mac # e.mac
        BY <1>5, <1>13, <3>3 DEF Fine, CtxInv, Distinct, p
      <4>2. v.clients[j] = u.clients[j]
        BY <1>7, <1>13, <3>3 DEF Others
      <4>3. Since(v.log, k, v.clients[j].mac) <=> Since(u.log, k, v.clients[j].mac)
        BY <1>9, <1>10, <1>17, <4>1, SinceGrows
      <4> QED
        BY <2>1, <4>2, <4>3
    <3> QED
      BY <3>2, <3>3
  <2> QED
    BY <1>7, <2>2, <2>3
<1> QED
  BY <1>7, <1>14, <1>15, <1>16, <1>17, <1>18 DEF Fine, CtxInv

LEMMA UpdatedIs ==
  ASSUME NEW u, NEW k, Fine(u, k), NEW f \in Range(Flows),
         flow[f] \in [bytes: Nat, cls: Classes]
  PROVE  Fine(usage_profile_update(u, f), k)
<1> DEFINE mac  == src_mac[f]
           v    == find_or_create_profile(u, mac)
           i    == CHOOSE j \in Slot(v, mac) : TRUE
           port == dst_port[f]
           old  == v.clients[i]
           w    == Added(old.window, f)
           new  == Gained(old, w, port)
           x    == WithProfile(v, i, new)
           now  == ~port_is_known(old, port) /\ Len(new.ports) > PORT_HISTORY
                     /\ port \notin CommonPorts
<1>1. mac \in Macs /\ port \in Nat
  BY ProfileAssumption DEF Macs, Range
<1>2. Fine(v, k)
  <2> HIDE DEF mac
  <2> QED
    BY <1>1, FoundIs
<1>3. CASE Slot(v, mac) = {}
  <2>1. usage_profile_update(u, f) = v
    BY <1>3 DEF usage_profile_update
  <2> QED
    BY <1>2, <2>1
<1>4. CASE Slot(v, mac) # {}
  <2>1. i \in 1..Len(v.clients)
    <3> HIDE DEF v, mac
    <3>1. i \in Slot(v, mac)
      BY <1>4
    <3> QED
      BY <3>1 DEF Slot
  <2>2. v \in Contexts /\ old \in Profiles
    <3> HIDE DEF v, i
    <3>1. v \in Contexts
      BY <1>2 DEF Fine, CtxInv
    <3> QED
      BY <2>1, <3>1, ListsAre
  <2>3. usage_profile_update(u, f) = RecordIf(now, x, i, "unusual_port", port)
    <3>1. usage_profile_update(u, f) =
            RecordIf(now, [v EXCEPT !.clients[i] = new], i, "unusual_port", port)
      BY <1>4 DEF usage_profile_update, Gained
    <3>2. [v EXCEPT !.clients[i] = new] = x
      <4> HIDE DEF v, i, new
      <4>1. v = [clients |-> v.clients, ring |-> v.ring, head |-> v.head,
                 total |-> v.total, log |-> v.log]
        BY <2>2, ContextIs
      <4> QED
        BY <4>1 DEF WithProfile
    <3> HIDE DEF now, x, v, i, new, port
    <3> QED
      BY <3>1, <3>2
  <2>4. \/ RecordIf(now, x, i, "unusual_port", port) = x
        \/ /\ RecordIf(now, x, i, "unusual_port", port) = record_anomaly(x, i, "unusual_port", port)
           /\ port \notin Range(old.ports)
    <3> HIDE DEF x, v, i, new, port
    <3> QED
      BY DEF RecordIf, port_is_known
  <2>5. w \in Windows
    <3> HIDE DEF old
    <3> QED
      BY <2>2, ProfileIs, AddedIs
  <2> DEFINE y == RecordIf(now, x, i, "unusual_port", port)
  <2> HIDE DEF y, w, i, v, port
  <2>6. \/ y = WithProfile(v, i, Gained(v.clients[i], w, port))
        \/ /\ y = record_anomaly(WithProfile(v, i, Gained(v.clients[i], w, port)), i,
                                 "unusual_port", port)
           /\ port \notin Range(v.clients[i].ports)
    BY <2>4 DEF y
  <2>7. Fine(y, k)
    BY <1>1, <1>2, <2>1, <2>5, <2>6, GainedFine
  <2> QED
    BY <2>3, <2>7 DEF y
<1> QED
  BY <1>3, <1>4

-----------------------------------------------------------------------------
(* A client's window ends.                                                 *)

\* The log grows by events of client i, of which at most one is a spike.
LEMMA CheckedLog ==
  ASSUME NEW u \in Contexts, NEW v, NEW i \in 1..Len(u.clients), NEW hour \in Hours,
         Checked(u, v, i, hour)
  PROVE  LET p  == u.clients[i]
             b  == p.baseline[hour]
             at == [hour |-> hour, bytes |-> p.window.bytes, sample |-> b.samples]
             E  == {EventOf(u, i, type, at) :
                      type \in {"bandwidth_spike", "new_heavy_flow", "protocol_shift"}}
         IN  /\ at \in Measures /\ Grew(u.log, v.log, E)
             /\ \A x : Happened(v.log, x) /\ x.type = "bandwidth_spike" =>
                  \/ Happened(u.log, x)
                  \/ x = EventOf(u, i, "bandwidth_spike", at) /\ Spike(p.window, b)
<1> DEFINE p  == u.clients[i]
           b  == p.baseline[hour]
           at == [hour |-> hour, bytes |-> p.window.bytes, sample |-> b.samples]
           ev(type) == EventOf(u, i, type, at)
           E  == {ev(type) : type \in {"bandwidth_spike", "new_heavy_flow", "protocol_shift"}}
<1>1. p \in Profiles /\ p.window \in Windows /\ b \in Baselines /\ p.mac \in Macs
  <2>1. p \in Profiles
    BY ListsAre
  <2> HIDE DEF p
  <2> QED
    BY <2>1, ProfileIs DEF Histories
<1>2. at \in Measures
  <2> HIDE DEF p, b
  <2>1. p.window.bytes \in Nat /\ b.samples \in Nat
    BY <1>1, WindowIs, BaselineIs
  <2> QED
    BY <2>1 DEF Measures
<1> DEFINE e1 == ev("bandwidth_spike")
           e2 == ev("new_heavy_flow")
           e3 == ev("protocol_shift")
<1>3. PICK l1, l2 \in Logs :
        /\ Logged(u.log, l1, e1) /\ (l1 # u.log => Spike(p.window, b))
        /\ Logged(l1, l2, e2) /\ Logged(l2, v.log, e3)
  BY DEF Checked
<1> HIDE DEF p, b, at
<1>4. /\ e1 \in Events /\ e2 \in Events /\ e3 \in Events
      /\ e1.type = "bandwidth_spike" /\ e2.type = "new_heavy_flow" /\ e3.type = "protocol_shift"
      /\ e1 \in E /\ e2 \in E /\ e3 \in E
  BY <1>1, <1>2 DEF EventOf, Events, EventTypes, p
<1> HIDE DEF ev, E
<1>5. u.log \in Logs
  BY ContextIs
<1>6. Grew(u.log, l1, E) /\ Grew(l1, l2, E) /\ Grew(l2, v.log, E)
  BY <1>3, <1>4, <1>5, LoggedGrew
<1>7. Grew(u.log, v.log, E)
  BY <1>3, <1>5, <1>6, GrewAgain
<1>8. ASSUME NEW x, Happened(v.log, x), x.type = "bandwidth_spike"
      PROVE  Happened(u.log, x) \/ (x = e1 /\ Spike(p.window, b))
  <2>1. Happened(l2, x)
    BY <1>3, <1>4, <1>8, LoggedGrew
  <2>2. Happened(l1, x)
    BY <1>3, <1>4, <1>8, <2>1, LoggedGrew
  <2> QED
    BY <1>3, <1>4, <1>5, <2>2, LoggedGrew
<1> QED
  BY <1>2, <1>7, <1>8 DEF p, b, at, ev, E

LEMMA CheckedKeeps ==
  ASSUME NEW u, CtxInv(u), NEW i \in 1..Len(u.clients), NEW hour \in Hours, NEW v,
         Checked(u, v, i, hour)
  PROVE  /\ CtxInv(v) /\ Len(v.clients) = Len(u.clients)
         /\ \A j \in 1..Len(u.clients) : v.clients[j].mac = u.clients[j].mac
         /\ \E E : Grew(u.log, v.log, E) /\ \A e \in E : e.mac = u.clients[i].mac
<1> DEFINE p  == u.clients[i]
           q  == v.clients[i]
           w  == p.window
           b  == p.baseline[hour]
           at == [hour |-> hour, bytes |-> w.bytes, sample |-> b.samples]
           ev(type) == EventOf(u, i, type, at)
           E  == {ev(type) : type \in {"bandwidth_spike", "new_heavy_flow", "protocol_shift"}}
<1>1. u \in Contexts /\ v \in Contexts /\ Len(u.clients) \in Nat
  BY ListsAre DEF CtxInv, Checked
<1>2. /\ at \in Measures /\ Grew(u.log, v.log, E)
      /\ \A x : Happened(v.log, x) /\ x.type = "bandwidth_spike" =>
           Happened(u.log, x) \/ (x = ev("bandwidth_spike") /\ Spike(w, b))
  BY <1>1, CheckedLog
<1>3. /\ Others(u, v, i) /\ q.mac = p.mac /\ q.ports = p.ports
      /\ q.baseline = [p.baseline EXCEPT ![hour] = Moved(b, w)]
      /\ RingOK(v)
  BY DEF Checked, CtxInv
<1>4. p \in Profiles
  BY <1>1, ListsAre
<1>5. w \in Windows /\ p.baseline \in Histories /\ b \in Baselines
  <2> HIDE DEF p
  <2> QED
    BY <1>4, ProfileIs DEF Histories
<1>6. ev("bandwidth_spike") = SpikeOf(p.mac, hour, w.bytes, b.samples)
  BY DEF EventOf, SpikeOf
<1>7. \A e \in E : e.mac = p.mac /\ e.type # "unusual_port"
  BY DEF EventOf
<1> HIDE DEF p, q, w, b, ev, E
<1>8. Len(v.clients) = Len(u.clients)
      /\ \A j \in 1..Len(u.clients) : v.clients[j].mac = u.clients[j].mac
  BY <1>3 DEF Others, p, q
<1>9. Kept(u, v)
  <2>1. PortsGrow(p, q)
    BY <1>3 DEF PortsGrow, Full
  <2>2. \A j \in 1..Len(u.clients) : PortsGrow(u.clients[j], v.clients[j])
    BY <1>3, <2>1 DEF Others, PortsGrow, p, q
  <2> QED
    BY <1>1, <1>8, <2>2 DEF Kept
<1>10. Known(v, p.mac)
  BY <1>8 DEF Known, p
<1>11. EventsKnown(v) /\ PortsOK(v)
  <2>1. EventsKnown(u) /\ PortsOK(u)
    BY DEF CtxInv
  <2>2. \A e \in E :
          /\ Known(v, e.mac)
          /\ e.type = "unusual_port" => Remembered(v, e) /\ (Twice(v.log, e) => NoRoom(v, e))
    BY <1>7, <1>10
  <2> QED
    BY <1>1, <1>2, <1>9, <2>1, <2>2, EventsStay
<1>12. Distinct(v)
  BY <1>8 DEF CtxInv, Distinct
<1>13. ASSUME BASELINE_BYTES >= 16 PROVE SpikesOK(v)
  <2>0. SpikesOK(u)
    BY <1>13 DEF CtxInv
  <2>1. ASSUME NEW j \in 1..Len(v.log), v.log[j].type = "bandwidth_spike"
        PROVE  v.log[j].what \in Measures
    <3>1. Happened(v.log, v.log[j])
      BY DEF Happened
    <3>2. CASE Happened(u.log, v.log[j])
      BY <2>0, <2>1, <3>2 DEF Happened, SpikesOK
    <3>3. CASE v.log[j] = ev("bandwidth_spike")
      BY <1>2, <3>3 DEF ev, EventOf
    <3> QED
      BY <1>2, <2>1, <3>1, <3>2, <3>3
  <2>2. ASSUME NEW j \in 1..Len(v.clients), NEW h \in Hours
        PROVE  SpikeBounds(v.log, v.clients[j].baseline[h], v.clients[j].mac, h)
    <3> DEFINE mac == v.clients[j].mac
    <3>1. j \in 1..Len(u.clients) /\ mac = u.clients[j].mac
      BY <1>8
    <3>2. SpikeBounds(u.log, u.clients[j].baseline[h], mac, h)
      BY <2>0, <3>1 DEF SpikesOK
    <3> HIDE DEF mac
    <3>3. \A n, s \in Nat : Happened(v.log, SpikeOf(mac, h, n, s)) =>
            \/ Happened(u.log, SpikeOf(mac, h, n, s))
            \/ mac = p.mac /\ h = hour /\ n = w.bytes /\ s = b.samples /\ Spike(w, b)
      <4> TAKE n, s \in Nat
      <4> DEFINE x == SpikeOf(mac, h, n, s)
      <4>1. x.type = "bandwidth_spike"
        BY DEF SpikeOf
      <4>2. x = SpikeOf(p.mac, hour, w.bytes, b.samples) =>
              mac = p.mac /\ h = hour /\ n = w.bytes /\ s = b.samples
        BY SpikeEventIs
      <4> HIDE DEF x
      <4>3. Happened(v.log, x) =>
              Happened(u.log, x) \/ (mac = p.mac /\ h = hour /\ n = w.bytes /\ s = b.samples
                                     /\ Spike(w, b))
        BY <1>2, <1>6, <4>1, <4>2
      <4> QED
        BY <4>3 DEF x
    <3>4. CASE j = i /\ h = hour
      <4>1. SpikeBounds(u.log, b, mac, h)
        BY <3>2, <3>4 DEF b, p
      <4>2. v.clients[j].baseline[h] = Moved(b, w)
        BY <1>3, <1>5, <3>4 DEF q, Histories
      <4>3. \A n, s \in Nat : Happened(v.log, SpikeOf(mac, h, n, s)) =>
              \/ Happened(u.log, SpikeOf(mac, h, n, s))
              \/ n = w.bytes /\ s = b.samples /\ Spike(w, b)
        BY <3>3
      <4>4. SpikeBounds(v.log, Moved(b, w), mac, h)
        BY <1>5, <1>13, <4>1, <4>3, BoundsMove
      <4> QED
        BY <4>2, <4>4 DEF mac
    <3>5. CASE ~(j = i /\ h = hour)
      <4>1. v.clients[j].baseline[h] = u.clients[j].baseline[h]
        <5>1. CASE j = i
          BY <1>3, <1>5, <3>5, <5>1 DEF p, q, Histories
        <5>2. CASE j # i
          BY <1>3, <3>1, <5>2 DEF Others
        <5> QED
          BY <5>1, <5>2
      <4>2. ~(mac = p.mac /\ h = hour)
        BY <3>1, <3>5 DEF CtxInv, Distinct, p
      <4>3. \A n, s \in Nat : Happened(v.log, SpikeOf(mac, h, n, s)) =>
              Happened(u.log, SpikeOf(mac, h, n, s))
        BY <3>3, <4>2
      <4> QED
        BY <3>2, <4>1, <4>3, BoundsStay DEF mac
    <3> QED
      BY <3>4, <3>5
  <2> QED
    BY <2>1, <2>2 DEF SpikesOK
<1>14. CtxInv(v)
  BY <1>1, <1>3, <1>11, <1>12, <1>13 DEF CtxInv
<1> QED
  BY <1>2, <1>7, <1>8, <1>14 DEF p

\* The tick that began at log length k has looked at the first i of n clients:
\* their flags are right, and nothing was logged of the others yet.
Half(u, k, n, i) ==
  /\ CtxInv(u) /\ Len(u.clients) = n /\ k \in 0..Len(u.log)
  /\ \A j \in 1..i : u.clients[j].flagged <=> Since(u.log, k, u.clients[j].mac)
  /\ \A j \in i + 1..n : ~Since(u.log, k, u.clients[j].mac)

LEMMA HalfMore ==
  ASSUME NEW n \in Nat, NEW k, NEW i \in 1..n, NEW u, Half(u, k, n, i - 1),
         NEW hour \in Hours
  PROVE  Half(check_and_update_baseline(u, i, hour), k, n, i)
<1> DEFINE v == check_and_update_baseline(u, i, hour)
<1>1. /\ u \in Contexts /\ CtxInv(u) /\ i \in 1..Len(u.clients) /\ Len(u.clients) = n
      /\ k \in 0..Len(u.log)
  BY DEF Half, CtxInv
<1>2. Checked(u, v, i, hour)
  BY <1>1, CheckedIs
<1> HIDE DEF v
<1>3. /\ CtxInv(v) /\ Len(v.clients) = Len(u.clients)
      /\ \A j \in 1..Len(u.clients) : v.clients[j].mac = u.clients[j].mac
  BY <1>1, <1>2, CheckedKeeps
<1>4. PICK E : Grew(u.log, v.log, E) /\ \A e \in E : e.mac = u.clients[i].mac
  BY <1>1, <1>2, CheckedKeeps
<1>5. u.log \in Logs /\ Len(u.log) \in Nat /\ Len(v.log) \in Nat /\ Len(u.log) <= Len(v.log)
  BY <1>1, <1>3, <1>4, ListsAre, ContextIs DEF CtxInv, Grew
<1>6. k \in 0..Len(v.log)
  BY <1>1, <1>5
<1>7. ASSUME NEW j \in 1..n, j # i
      PROVE  /\ v.clients[j] = u.clients[j]
             /\ Since(v.log, k, v.clients[j].mac) <=> Since(u.log, k, u.clients[j].mac)
  <2>1. v.clients[j] = u.clients[j]
    BY <1>1, <1>2, <1>7 DEF Checked, Others
  <2>2. u.clients[j].mac # u.clients[i].mac
    BY <1>1, <1>7 DEF CtxInv, Distinct
  <2> QED
    BY <1>1, <1>4, <1>5, <2>1, <2>2, SinceGrows
<1>8. v.clients[i].flagged <=> Since(v.log, k, v.clients[i].mac)
  <2>1. ~Since(u.log, k, u.clients[i].mac) /\ v.clients[i].mac = u.clients[i].mac
    BY <1>1, <1>3 DEF Half
  <2>2. CASE v.log = u.log /\ v.clients[i].flagged = FALSE
    BY <2>1, <2>2
  <2>3. CASE Len(v.log) > Len(u.log) /\ v.clients[i].flagged = TRUE
    <3>1. Since(v.log, k, v.clients[i].mac)
      BY <1>1, <1>4, <1>5, <2>1, <2>3, SinceGrows
    <3> QED
      BY <2>3, <3>1
  <2> QED
    BY <1>2, <2>2, <2>3 DEF Checked, Tells
<1>9. ASSUME NEW j \in 1..i PROVE v.clients[j].flagged <=> Since(v.log, k, v.clients[j].mac)
  <2>1. CASE j = i
    BY <1>8, <2>1
  <2>2. CASE j # i
    <3>1. j \in 1..i - 1 /\ j \in 1..n
      BY <2>2
    <3>2. u.clients[j].flagged <=> Since(u.log, k, u.clients[j].mac)
      BY <3>1 DEF Half
    <3> QED
      BY <1>7, <2>2, <3>1, <3>2
  <2> QED
    BY <2>1, <2>2
<1>10. ASSUME NEW j \in i + 1..n PROVE ~Since(v.log, k, v.clients[j].mac)
  <2>1. j \in (i - 1) + 1..n /\ j \in 1..n /\ j # i
    OBVIOUS
  <2>2. ~Since(u.log, k, u.clients[j].mac)
    BY <2>1 DEF Half
  <2> QED
    BY <1>7, <2>1, <2>2
<1> QED
  BY <1>1, <1>3, <1>6, <1>9, <1>10 DEF Half, v

-----------------------------------------------------------------------------
(* The loops of the two timers.                                            *)

\* Tracked flows are known 5-tuples.
FlowsTyped ==
  \A f \in DOMAIN flow : f \in Range(Flows) /\ flow[f] \in [bytes: Nat, cls: Classes]

\* One round of the classify pass.
Round(u, n) ==
  IF Flows[n] \in DOMAIN flow THEN usage_profile_update(u, Flows[n]) ELSE u

LEMMA RoundIs ==
  ASSUME FlowsTyped, NEW u, NEW k, Fine(u, k), NEW n
  PROVE  Fine(Round(u, n), k)
<1>1. CASE Flows[n] \in DOMAIN flow
  <2> DEFINE f == Flows[n]
  <2>1. f \in Range(Flows) /\ flow[f] \in [bytes: Nat, cls: Classes]
    BY <1>1 DEF FlowsTyped
  <2> HIDE DEF f
  <2>2. Fine(usage_profile_update(u, f), k)
    BY <2>1, UpdatedIs
  <2> QED
    BY <1>1, <2>2 DEF Round, f
<1>2. CASE Flows[n] \notin DOMAIN flow
  BY <1>2 DEF Round
<1> QED
  BY <1>1, <1>2

LEMMA PassIs ==
  ASSUME Fine(ctx, mark), FlowsTyped, Pass
  PROVE  Fine(ctx', mark)
<1> DEFINE n == Len(Flows)
           c == ctx
           St == {x \in Contexts : Fine(x, mark)}
           step == [i \in 1..n |-> [x \in St |-> Round(x, i)]]
           Is(g) == g = [i \in 0..n |->
                           IF i = 0 THEN c
                           ELSE IF Flows[i] \in DOMAIN flow
                                THEN usage_profile_update(g[i - 1], Flows[i])
                           ELSE g[i - 1]]
           after == CHOOSE g : Is(g)
<1>1. n \in Nat
  BY ProfileAssumption
<1>2. step \in [1..n -> [St -> St]] /\ c \in St
  <2>1. ASSUME NEW x \in St, NEW i \in 1..n PROVE Round(x, i) \in St
    <3>1. Fine(Round(x, i), mark)
      BY RoundIs
    <3> QED
      BY <3>1 DEF Fine, CtxInv
  <2>2. c \in St
    BY DEF Fine, CtxInv
  <2> HIDE DEF n, St, c
  <2> QED
    BY <2>1, <2>2
<1> HIDE DEF c
<1>3. PICK g : Runs(g, n, St, c, step)
  <2> HIDE DEF n, step, St
  <2> QED
    BY <1>1, <1>2, RunExists
<1>4. \A h : Is(h) <=> h = [i \in 0..n |-> IF i = 0 THEN c ELSE Round(h[i - 1], i)]
  BY DEF Round
<1>5. Is(g)
  <2> HIDE DEF n, St
  <2>1. g = [i \in 0..n |-> g[i]] /\ g[0] = c
    BY <1>3 DEF Runs
  <2>2. ASSUME NEW i \in 1..n PROVE g[i] = Round(g[i - 1], i)
    <3>1. g[i - 1] \in St /\ g[i] = step[i][g[i - 1]]
      BY <1>1, <1>3 DEF Runs
    <3> QED
      BY <3>1
  <2>3. ASSUME NEW i \in 0..n PROVE g[i] = IF i = 0 THEN c ELSE Round(g[i - 1], i)
    <3>1. CASE i = 0
      BY <2>1, <3>1
    <3>2. CASE i \in 1..n
      <4>1. i # 0
        BY <3>2
      <4> QED
        BY <2>2, <3>2, <4>1, Zenon
    <3> QED
      BY <1>1, <3>1, <3>2
  <2> HIDE DEF Is
  <2> QED
    BY <1>4, <2>1, <2>3
<1>6. Is(after)
  <2> HIDE DEF Is
  <2> QED
    BY <1>5
<1>7. Become(after[n])
  BY DEF Pass, c
<1>8. after = [i \in 0..n |-> IF i = 0 THEN c ELSE Round(after[i - 1], i)]
  <2> HIDE DEF Is, after
  <2> QED
    BY <1>4, <1>6
<1> HIDE DEF after, n
<1> DEFINE T == {i \in 0..n : Fine(after[i], mark)}
<1>9. 0 \in T
  <2>1. after[0] = c
    BY <1>1, <1>8
  <2> QED
    BY <1>1, <1>2, <2>1
<1>10. ASSUME NEW i \in 1..n, i - 1 \in T PROVE i \in T
  <2>1. Fine(after[i - 1], mark) /\ after[i] = Round(after[i - 1], i)
    BY <1>1, <1>8, <1>10
  <2>2. Fine(after[i], mark)
    BY <2>1, RoundIs
  <2> QED
    BY <2>2
<1>11. Fine(after[n], mark)
  <2> HIDE DEF T
  <2>1. 0..n \subseteq T
    BY <1>1, <1>9, <1>10, UpTo
  <2> QED
    BY <1>1, <2>1 DEF T
<1>12. ctx' = after[n]
  <2> DEFINE x == after[n]
  <2>1. x = [clients |-> x.clients, ring |-> x.ring, head |-> x.head, total |-> x.total,
             log |-> x.log]
    BY <1>11, ContextIs DEF Fine, CtxInv
  <2> QED
    BY <1>7, <2>1 DEF ctx, Become
<1> QED
  BY <1>11, <1>12

LEMMA TickIs ==
  ASSUME CtxInv(ctx), usage_profile_tick
  PROVE  Fine(ctx', mark')
<1> DEFINE n == Len(clients)
           k == Len(log)
           c == ctx
           St == {x \in Contexts : Len(x.clients) = n}
<1>1. PICK hour \in Hours :
        LET after[i \in 0..Len(clients)] ==
              IF i = 0 THEN ctx ELSE check_and_update_baseline(after[i - 1], i, hour)
        IN  Become(after[Len(clients)])
  BY DEF usage_profile_tick
<1> DEFINE step == [i \in 1..n |-> [x \in St |-> check_and_update_baseline(x, i, hour)]]
           Is(g) == g = [i \in 0..n |->
                           IF i = 0 THEN c ELSE check_and_update_baseline(g[i - 1], i, hour)]
           after == CHOOSE g : Is(g)
<1>2. n \in Nat /\ k \in Nat /\ c \in Contexts
  <2>1. c \in Contexts /\ c.clients = clients /\ c.log = log
    BY DEF CtxInv, ctx
  <2> QED
    BY <2>1, ListsAre
<1>3. c.clients = clients /\ c.log = log
  BY DEF ctx
<1>4. Become(after[n])
  BY <1>1 DEF c
<1> HIDE DEF c
<1>5. step \in [1..n -> [St -> St]] /\ c \in St
  <2>1. ASSUME NEW x \in St, NEW i \in 1..n
        PROVE  check_and_update_baseline(x, i, hour) \in St
    <3>1. Checked(x, check_and_update_baseline(x, i, hour), i, hour)
      BY CheckedIs
    <3> QED
      BY <3>1 DEF Checked, Others
  <2>2. c \in St
    BY <1>2, <1>3
  <2> HIDE DEF n, St
  <2> QED
    BY <2>1, <2>2
<1>6. PICK g : Runs(g, n, St, c, step)
  <2> HIDE DEF n, step, St
  <2> QED
    BY <1>2, <1>5, RunExists
<1>7. Is(g)
  <2> HIDE DEF n, St
  <2>1. g = [i \in 0..n |-> g[i]] /\ g[0] = c
    BY <1>6 DEF Runs
  <2>2. ASSUME NEW i \in 1..n PROVE g[i] = check_and_update_baseline(g[i - 1], i, hour)
    <3>1. g[i - 1] \in St /\ g[i] = step[i][g[i - 1]]
      BY <1>2, <1>6 DEF Runs
    <3> QED
      BY <3>1
  <2>3. ASSUME NEW i \in 0..n
        PROVE  g[i] = IF i = 0 THEN c ELSE check_and_update_baseline(g[i - 1], i, hour)
    <3>1. CASE i = 0
      BY <2>1, <3>1
    <3>2. CASE i \in 1..n
      <4>1. i # 0
        BY <3>2
      <4> QED
        BY <2>2, <3>2, <4>1, Zenon
    <3> QED
      BY <1>2, <3>1, <3>2
  <2> QED
    BY <2>1, <2>3
<1>8. Is(after)
  <2> HIDE DEF Is
  <2> QED
    BY <1>7
<1>9. after = [i \in 0..n |->
                 IF i = 0 THEN c ELSE check_and_update_baseline(after[i - 1], i, hour)]
  <2> HIDE DEF after
  <2> QED
    BY <1>8
<1> HIDE DEF after, n, k
<1> DEFINE T == {i \in 0..n : Half(after[i], k, n, i)}
<1>10. 0 \in T
  <2>1. after[0] = c
    BY <1>2, <1>9
  <2>2. Half(c, k, n, 0)
    <3>1. CtxInv(c) /\ Len(c.clients) = n /\ k \in 0..Len(c.log)
      BY <1>2, <1>3 DEF c, n, k
    <3>2. \A mac : ~Since(c.log, k, mac)
      BY <1>2, <1>3 DEF Since, k
    <3>3. \A j \in 1..0 : c.clients[j].flagged <=> Since(c.log, k, c.clients[j].mac)
      OBVIOUS
    <3> QED
      BY <3>1, <3>2, <3>3 DEF Half
  <2> QED
    BY <1>2, <2>1, <2>2
<1>11. ASSUME NEW i \in 1..n, i - 1 \in T PROVE i \in T
  <2>1. Half(after[i - 1], k, n, i - 1) /\ after[i] = check_and_update_baseline(after[i - 1], i, hour)
    BY <1>2, <1>9, <1>11
  <2>2. Half(after[i], k, n, i)
    BY <1>2, <2>1, HalfMore
  <2> QED
    BY <2>2
<1>12. Half(after[n], k, n, n)
  <2> HIDE DEF T
  <2>1. 0..n \subseteq T
    BY <1>2, <1>10, <1>11, UpTo
  <2> QED
    BY <1>2, <2>1 DEF T
<1>13. Fine(after[n], k)
  BY <1>12 DEF Half, Fine, FlagsOK
<1>14. ctx' = after[n]
  <2> DEFINE x == after[n]
  <2>1. x = [clients |-> x.clients, ring |-> x.ring, head |-> x.head, total |-> x.total,
             log |-> x.log]
    BY <1>13, ContextIs DEF Fine, CtxInv
  <2> QED
    BY <1>4, <2>1 DEF ctx, Become
<1>15. mark' = k
  BY DEF usage_profile_tick, k
<1> QED
  BY <1>13, <1>14, <1>15

LEMMA TrafficIs == ASSUME FlowsTyped, Traffic PROVE FlowsTyped' /\ ctx' = ctx /\ mark' = mark
<1>1. FlowsTyped'
  <2> PICK f \in Range(Flows) : Transfer(f) \/ Forget(f)
    BY DEF Traffic
  <2>1. CASE Transfer(f)
    <3>1. PICK l \in loads[f] : flow' = [g \in DOMAIN flow \cup {f} |-> IF g = f THEN l ELSE flow[g]]
      BY <2>1 DEF Transfer
    <3>2. l \in [bytes: Nat, cls: Classes]
      BY ProfileAssumption
    <3> QED
      BY <3>1, <3>2 DEF FlowsTyped
  <2>2. CASE Forget(f)
    BY <2>2 DEF Forget, FlowsTyped
  <2> QED
    BY <2>1, <2>2
<1>2. ctx' = ctx /\ mark' = mark
  BY DEF Traffic, ctx
<1> QED
  BY <1>1, <1>2

ProfileInv == Fine(ctx, mark) /\ FlowsTyped

LEMMA InitIsFine == ProfileInit => ProfileInv
<1> SUFFICES ASSUME ProfileInit PROVE ProfileInv
  OBVIOUS
<1> DEFINE none == << >>
           r == [i \in Places |-> NoEvent]
<1>1. ctx = [clients |-> none, ring |-> r, head |-> 0, total |-> 0, log |-> none]
  BY DEF ProfileInit, ctx, Places
<1>2. none \in Seq(Profiles) /\ none \in Logs /\ Len(none) = 0
  BY DEF Logs
<1>3. ANOMALY_RING_SIZE \in Nat \ {0} /\ 0 \in Places /\ 0 \in 0..ANOMALY_RING_SIZE
  BY ProfileAssumption DEF Places
<1>4. r \in Rings
  BY DEF Rings
<1> HIDE DEF none, r
<1>5. ctx \in Contexts /\ ctx.clients = none /\ ctx.log = none /\ ctx.total = 0
  BY <1>1, <1>2, <1>3, <1>4 DEF Contexts
<1> HIDE DEF ctx
<1>6. RingOK(ctx)
  BY <1>2, <1>3, <1>5 DEF RingOK
<1>7. \A e : ~Happened(none, e) /\ ~Twice(none, e)
  BY <1>2 DEF Happened, Twice
<1>8. Distinct(ctx) /\ EventsKnown(ctx) /\ PortsOK(ctx)
  BY <1>2, <1>5, <1>7 DEF Distinct, EventsKnown, PortsOK
<1>9. SpikesOK(ctx)
  BY <1>2, <1>5 DEF SpikesOK
<1>10. mark \in 0..Len(ctx.log) /\ FlagsOK(ctx, mark)
  BY <1>2, <1>5 DEF ProfileInit, FlagsOK
<1>11. FlowsTyped
  BY DEF ProfileInit, FlowsTyped
<1> QED
  BY <1>5, <1>6, <1>8, <1>9, <1>10, <1>11 DEF ProfileInv, Fine, CtxInv

LEMMA ProfileStep == ProfileInv /\ [ProfileNext]_profileVars => ProfileInv'
<1> SUFFICES ASSUME ProfileInv, [ProfileNext]_profileVars PROVE ProfileInv'
  OBVIOUS
<1>1. Fine(ctx, mark) /\ FlowsTyped /\ CtxInv(ctx)
  BY DEF ProfileInv, Fine
<1>2. CASE Traffic
  BY <1>1, <1>2, TrafficIs DEF ProfileInv
<1>3. CASE Pass
  <2>1. Fine(ctx', mark)
    BY <1>1, <1>3, PassIs
  <2>2. mark' = mark /\ FlowsTyped'
    BY <1>1, <1>3 DEF Pass, FlowsTyped
  <2> QED
    BY <2>1, <2>2 DEF ProfileInv
<1>4. CASE usage_profile_tick
  <2>1. Fine(ctx', mark')
    BY <1>1, <1>4, TickIs
  <2>2. FlowsTyped'
    BY <1>1, <1>4 DEF usage_profile_tick, FlowsTyped
  <2> QED
    BY <2>1, <2>2 DEF ProfileInv
<1>5. CASE UNCHANGED profileVars
  <2>1. ctx' = ctx /\ mark' = mark /\ flow' = flow
    BY <1>5 DEF profileVars, ctx
  <2>2. FlowsTyped'
    BY <1>1, <2>1 DEF FlowsTyped
  <2> QED
    BY <1>1, <2>1, <2>2 DEF ProfileInv
<1> QED
  BY <1>2, <1>3, <1>4, <1>5 DEF ProfileNext

\* In every state ring, log and profiles fit each other.
THEOREM ProfileInvariant == ProfileSpec => []ProfileInv
<1>1. ProfileInit => ProfileInv
  BY InitIsFine
<1>2. ProfileInv /\ [ProfileNext]_profileVars => ProfileInv'
  BY ProfileStep
<1> QED
  BY <1>1, <1>2, PTL DEF ProfileSpec

LEMMA CtxFields ==
  ctx.clients = clients /\ ctx.ring = ring /\ ctx.head = anomaly_head
  /\ ctx.total = anomaly_total /\ ctx.log = log
BY DEF ctx

\* However many events an API asks for, it gets the newest ones, newest first,
\* also after the ring has gone round.
THEOREM NewestFirst == ProfileSpec => []RecentFirst
<1>1. ASSUME ProfileInv PROVE RecentFirst
  <2>1. /\ RingOK(ctx) /\ ctx \in Contexts
    BY <1>1 DEF ProfileInv, Fine, CtxInv
  <2>2. /\ ring \in Rings /\ anomaly_head \in Places /\ anomaly_total \in 0..ANOMALY_RING_SIZE
        /\ Len(log) \in Nat /\ ANOMALY_RING_SIZE \in Nat
    BY <2>1, CtxFields, ContextIs, ListsAre, ProfileAssumption
  <2>3. /\ anomaly_total = IF Len(log) < ANOMALY_RING_SIZE THEN Len(log) ELSE ANOMALY_RING_SIZE
        /\ \A n \in 1..anomaly_total : ring[Back(anomaly_head, n)] = log[Len(log) + 1 - n]
    BY <2>1, CtxFields DEF RingOK
  <2> SUFFICES ASSUME NEW max \in 0..ANOMALY_RING_SIZE
               PROVE  LET r == get_anomalies(max)
                      IN  /\ Len(r) = IF Len(log) < max THEN Len(log) ELSE max
                          /\ \A i \in 1..Len(r) : r[i] = log[Len(log) + 1 - i]
    BY DEF RecentFirst
  <2> DEFINE n == IF anomaly_total < max THEN anomaly_total ELSE max
             r == [i \in 1..n |-> ring[Back(anomaly_head, i)]]
  <2>4. get_anomalies(max) = r
    BY DEF get_anomalies, Back
  <2>5. n \in Nat /\ n <= anomaly_total /\ n = IF Len(log) < max THEN Len(log) ELSE max
    BY <2>2, <2>3
  <2> HIDE DEF n
  <2>6. r \in Seq(Events \cup {NoEvent}) /\ Len(r) = n
    <3>1. \A i \in 1..n : ring[Back(anomaly_head, i)] \in Events \cup {NoEvent}
      <4> TAKE i \in 1..n
      <4>1. i \in 1..ANOMALY_RING_SIZE
        BY <2>2, <2>5
      <4> QED
        BY <2>2, <4>1, BackIs DEF Rings
    <3> QED
      BY <2>5, <3>1
  <2>7. \A i \in 1..n : r[i] = log[Len(log) + 1 - i]
    BY <2>2, <2>3, <2>5
  <2> HIDE DEF r
  <2> QED
    BY <2>4, <2>5, <2>6, <2>7
<1> QED
  BY <1>1, ProfileInvariant, PTL

\* A client is shown as anomalous exactly if an event of it was recorded since the
\* last tick began.
THEOREM FlagsAreFresh == ProfileSpec => []FlaggedSinceTick
<1>1. ASSUME ProfileInv PROVE FlaggedSinceTick
  BY <1>1, CtxFields DEF ProfileInv, Fine, FlagsOK, Since, FlaggedSinceTick
<1> QED
  BY <1>1, ProfileInvariant, PTL

\* An unusual port is reported once, unless the client's port table was full before
\* it came; what is in a full table stays silent (port_add, usage_profile_update).
THEOREM PortsReportedOnce == ProfileSpec => []PortReportedOnce
<1>1. ASSUME ProfileInv PROVE PortReportedOnce
  <2> SUFFICES ASSUME NEW j \in 1..Len(log), NEW k \in 1..Len(log),
                      log[j] = log[k], j # k, log[j].type = "unusual_port"
               PROVE  \E i \in 1..Len(clients) :
                        /\ clients[i].mac = log[j].mac
                        /\ Len(clients[i].ports) = SEEN_PORTS_BUCKETS
                        /\ log[j].what \notin Range(clients[i].ports)
    BY DEF PortReportedOnce
  <2>1. Twice(ctx.log, log[j])
    BY CtxFields DEF Twice
  <2>2. NoRoom(ctx, log[j])
    BY <1>1, <2>1 DEF ProfileInv, Fine, CtxInv, PortsOK
  <2> QED
    BY <2>2, CtxFields DEF NoRoom, Full
<1> QED
  BY <1>1, ProfileInvariant, PTL

\* A new level of traffic is a spike in at most three consecutive windows of the
\* same total, if an average one measures against is not tiny: over sixteen bytes
\* (the code has a thousand), so that rounding does not hold it back.
THEOREM BaselineFollows == BASELINE_BYTES >= 16 => (ProfileSpec => []SpikesSubside)
<1>1. ASSUME BASELINE_BYTES >= 16, ProfileInv PROVE SpikesSubside
  <2>1. SpikesOK(ctx) /\ EventsKnown(ctx) /\ ctx \in Contexts
    BY <1>1 DEF ProfileInv, Fine, CtxInv
  <2>2. log \in Logs
    BY <2>1, CtxFields, ContextIs
  <2> SUFFICES ASSUME NEW j \in 1..Len(log), log[j].type = "bandwidth_spike",
                      \A s \in 1..3 : [log[j] EXCEPT !.what.sample = @ + s] \in Range(log)
               PROVE  FALSE
    BY DEF SpikesSubside
  <2> DEFINE e == log[j]
             mac == e.mac
             h == e.what.hour
             n == e.what.bytes
             t == e.what.sample
  <2>3. e \in Events /\ e.what \in Measures
    BY <2>1, <2>2, CtxFields DEF Logs, SpikesOK
  <2>4. h \in Hours /\ n \in Nat /\ t \in Nat /\ e.what = [hour |-> h, bytes |-> n, sample |-> t]
    BY <2>3 DEF Measures
  <2>5. e = [mac |-> mac, type |-> "bandwidth_spike", what |-> e.what]
    BY <2>3 DEF Events
  <2>6. \A s \in 1..3 : [e EXCEPT !.what.sample = @ + s] = SpikeOf(mac, h, n, t + s)
    <3> TAKE s \in 1..3
    <3> DEFINE x == [e.what EXCEPT !.sample = t + s]
    <3>1. [e EXCEPT !.what.sample = @ + s] = [e EXCEPT !.what = x]
      OBVIOUS
    <3>2. x = [hour |-> h, bytes |-> n, sample |-> t + s]
      <4> DEFINE y == e.what
                 z == t + s
      <4>1. y = [hour |-> h, bytes |-> n, sample |-> t]
        BY <2>4
      <4> HIDE DEF y, h, n, t, z
      <4>2. [y EXCEPT !.sample = z] = [hour |-> h, bytes |-> n, sample |-> z]
        BY <4>1
      <4> QED
        BY <4>2 DEF y, z
    <3> HIDE DEF x, h, n, t, mac, e
    <3>3. [e EXCEPT !.what = x] = [mac |-> mac, type |-> "bandwidth_spike", what |-> x]
      BY <2>5
    <3> QED
      BY <3>1, <3>2, <3>3 DEF SpikeOf
  <2>7. \A s \in 1..3 : Happened(log, SpikeOf(mac, h, n, t + s))
    <3> TAKE s \in 1..3
    <3>1. SpikeOf(mac, h, n, t + s) \in Range(log)
      BY <2>6
    <3> QED
      BY <2>2, <3>1, LogIs DEF Happened, Range
  <2>8. Happened(log, SpikeOf(mac, h, n, t))
    <3>1. e = SpikeOf(mac, h, n, t)
      BY <2>4, <2>5 DEF SpikeOf
    <3> QED
      BY <3>1 DEF Happened
  <2>9. PICK i \in 1..Len(clients) : clients[i].mac = mac
    <3>1. Happened(ctx.log, e)
      BY CtxFields DEF Happened
    <3> QED
      BY <2>1, <3>1, CtxFields DEF EventsKnown, Known
  <2> HIDE DEF e, mac, h, n, t
  <2>10. SpikeBounds(log, clients[i].baseline[h], mac, h)
    BY <2>1, <2>4, <2>9, CtxFields DEF SpikesOK
  <2>11. SpikeBound(log, clients[i].baseline[h], mac, h, n, t)
    BY <2>4, <2>8, <2>10 DEF SpikeBounds
  <2> QED
    BY <2>7, <2>11 DEF SpikeBound
<1>2. ASSUME BASELINE_BYTES >= 16 PROVE ProfileSpec => []SpikesSubside
  <2>1. ProfileInv => SpikesSubside
    BY <1>1, <1>2
  <2> QED
    BY <2>1, ProfileInvariant, PTL
<1> QED
  BY <1>2

=============================================================================
