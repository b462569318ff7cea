------------------------------ MODULE Capture ------------------------------
(***************************************************************************)
(* capture.c: what one captured packet does to the flow table and the DNS  *)
(* cache, and the expiry timer that empties both.                          *)
(*                                                                         *)
(* The two stores are the maps their own modules are shown to implement    *)
(* (FlowTable implements FlowMap; DnsCache likewise): flow is a function   *)
(* on the tracked 5-tuples, dns on the cached addresses, dead entries      *)
(* included.  Packet sizes, inter-arrival times and TCP flags only feed    *)
(* the model's features and are left out.                                  *)
(***************************************************************************)
EXTENDS Clock, FiniteSets, Sequences, SequencesExt

CONSTANTS
  Hosts,             \* addresses
  Lan,               \* those behind the access point
  Keys,              \* 5-tuples on the wire: [src, dst, port53]
  Macs,
  senders,           \* senders[h]: the MACs that send packets from address h
  Responses,         \* DNS responses: [name, answers], answers a sequence of [ip, ttl]
  Hints,             \* what fits in dns_hint[64]
  cut,               \* cut[name]: the name as dns_hint keeps it
  max_entries,
  dns_max_entries,
  FLOW_TIMEOUT_SEC,
  DNS_TTL_DEFAULT,
  PacketHorizon,     \* bound: no packet arrives after this second
  MaxPkts            \* MaxPkts[key]: bound on the packets counted in one entry

NoHint == "none"     \* dns_hint[0] == '\0'

ASSUME CaptureAssumption ==
  /\ Keys \subseteq [src: Hosts, dst: Hosts, port53: BOOLEAN]
  /\ senders \in [Hosts -> SUBSET Macs] /\ IsFiniteSet(Macs)
  /\ NoHint \notin Hints
  /\ cut \in [{r.name : r \in Responses} -> Hints]
  /\ \A r \in Responses : r.answers \in Seq([ip: Hosts, ttl: Nat])
  /\ {max_entries, dns_max_entries, FLOW_TIMEOUT_SEC, DNS_TTL_DEFAULT,
      PacketHorizon} \subseteq Nat
  /\ MaxPkts \in [Keys -> Nat \ {0}]
  /\ Lan \subseteq Hosts

VARIABLES
  flow,              \* the flow table, as FlowMap
  dns,               \* the DNS cache, as a map from addresses to [domain, expires]
  answered           \* history: the <<address, name>> pairs answered so far

captureVars == <<flow, dns, answered, now>>

NoPayload == [name |-> NoHint, answers |-> <<>>]

FlowData ==
  LET counts == UNION {0..MaxPkts[k] : k \in Keys}
  IN  [dns_hint: Hints \cup {NoHint}, pkts_fwd: counts, pkts_bwd: counts]

NewData == [dns_hint |-> NoHint, pkts_fwd |-> 0, pkts_bwd |-> 0]

Pkts(d) == d.pkts_fwd + d.pkts_bwd

\* f with x mapped to v.
Upd(f, x, v) == [y \in DOMAIN f \cup {x} |-> IF y = x THEN v ELSE f[y]]

-----------------------------------------------------------------------------
(* dns_cache.c on the map.  (A failed calloc loses an answer as a full     *)
(* cache does; DnsCache has both.)                                         *)
Learnt(c, name, a) ==
  IF a.ip \in DOMAIN c \/ Cardinality(DOMAIN c) < dns_max_entries
  THEN Upd(c, a.ip, [domain |-> name,
                     expires |-> now + IF a.ttl > 0 THEN a.ttl ELSE DNS_TTL_DEFAULT])
  ELSE c

\* One answer after the other: learnt[i] is the cache with the first i of them.
dns_cache_parse_response(c, r) ==
  LET learnt[i \in 0..Len(r.answers)] ==
        IF i = 0 THEN c ELSE Learnt(learnt[i - 1], r.name, r.answers[i])
  IN  learnt[Len(r.answers)]

\* The name an address has in cache c, as a set of at most one.
dns_cache_lookup_AnyAge(c, ip) == {c[i].domain : i \in {ip} \cap DOMAIN c}

dns_cache_lookup_NoCompare(c, ip) ==
  {c[i].domain : i \in {j \in DOMAIN c : c[j].expires > now}}

dns_cache_lookup(c, ip) ==
  {c[i].domain : i \in {j \in {ip} \cap DOMAIN c : c[j].expires > now}}

dns_cache_expire(c) ==
  [i \in {j \in DOMAIN c : c[j].expires > now} |-> c[i]]

-----------------------------------------------------------------------------
(* process_packet.                                                         *)

annotate_dns_hint_Renews(key, hint, c) ==
  LET d == dns_cache_lookup(c, key.dst)
      n == IF d # {} THEN d ELSE dns_cache_lookup(c, key.src)
  IN  IF n # {} THEN cut[CHOOSE x \in n : TRUE] ELSE hint

\* The destination's name if it has one, else the source's; never replaced.
annotate_dns_hint(key, hint, c) ==
  LET d == dns_cache_lookup(c, key.dst)
      n == IF d # {} THEN d ELSE dns_cache_lookup(c, key.src)
  IN  IF hint = NoHint /\ n # {} THEN cut[CHOOSE x \in n : TRUE] ELSE hint

Opened(mac) == [src_mac |-> mac, created |-> now, last_seen |-> now, data |-> NewData]

\* The entry after a packet: stamped, annotated from cache c, and counted
\* forward when the packet comes from the MAC that opened the entry.
Counted_Swapped(e, key, mac, c) ==
  LET fwd == IF mac # e.src_mac THEN 1 ELSE 0
  IN  [e EXCEPT !.last_seen = now,
                !.data = [dns_hint |-> annotate_dns_hint(key, e.data.dns_hint, c),
                          pkts_fwd |-> @.pkts_fwd + fwd,
                          pkts_bwd |-> @.pkts_bwd + 1 - fwd]]
Counted_KeepsStamp(e, key, mac, c) ==
  [e EXCEPT !.data = [dns_hint |-> annotate_dns_hint(key, e.data.dns_hint, c),
                      pkts_fwd |-> @.pkts_fwd + 1, pkts_bwd |-> @.pkts_bwd]]

Counted(e, key, mac, c) ==
  LET fwd == IF mac = e.src_mac THEN 1 ELSE 0
  IN  [e EXCEPT !.last_seen = now,
                !.data = [dns_hint |-> annotate_dns_hint(key, e.data.dns_hint, c),
                          pkts_fwd |-> @.pkts_fwd + fwd,
                          pkts_bwd |-> @.pkts_bwd + 1 - fwd]]

\* A packet is first offered to the DNS cache, then counted in its flow: the
\* cache the hint is read from already has the packet's own answers.
process_packet(key, mac, r) ==
  LET c == IF key.port53 THEN dns_cache_parse_response(dns, r) ELSE dns
  IN  /\ dns' = c
      /\ answered' = answered \cup {<<a.ip, r.name>> : a \in Range(r.answers)}
      /\ \/ /\ key \in DOMAIN flow
            /\ Pkts(flow[key].data) < MaxPkts[key]
            /\ flow' = Upd(flow, key, Counted(flow[key], key, mac, c))
         \/ /\ key \notin DOMAIN flow
            /\ Cardinality(DOMAIN flow) < max_entries
            /\ flow' = Upd(flow, key, Counted(Opened(mac), key, mac, c))
         \/ /\ key \notin DOMAIN flow      \* no room, or calloc failed
            /\ UNCHANGED flow

Packet ==
  /\ now <= PacketHorizon
  /\ \E key \in Keys : \E mac \in senders[key.src] :
       \/ process_packet(key, mac, NoPayload)
       \/ key.port53 /\ \E r \in Responses : process_packet(key, mac, r)
  /\ UNCHANGED now

Silent(e) == now - e.last_seen > FLOW_TIMEOUT_SEC

expire_timer_cb_FlowsOnly ==
  /\ flow' = [k \in {j \in DOMAIN flow : ~Silent(flow[j])} |-> flow[k]]
  /\ UNCHANGED <<dns, answered, now>>

\* expire_timer_cb: one reading of the clock for each of the two sweeps.
expire_timer_cb ==
  /\ flow' = [k \in {j \in DOMAIN flow : ~Silent(flow[j])} |-> flow[k]]
  /\ dns' = dns_cache_expire(dns)
  /\ UNCHANGED <<answered, now>>

Time == (Tick \/ ClockStep) /\ UNCHANGED <<flow, dns, answered>>

CaptureInit ==
  /\ flow = [k \in {} |-> {}]
  /\ dns = [i \in {} |-> {}]
  /\ answered = {}
  /\ ClockInit

CaptureNext == Packet \/ expire_timer_cb \/ Time

CaptureSpec == CaptureInit /\ [][CaptureNext]_captureVars

\* The expiry timer re-arms itself; time passes, and is set back finitely often.
CaptureFairSpec ==
  /\ CaptureSpec
  /\ WF_captureVars(expire_timer_cb)
  /\ WF_captureVars(Tick /\ UNCHANGED <<flow, dns, answered>>)
  /\ <>[][now' > now]_now

-----------------------------------------------------------------------------

\* A flow is only ever labelled with a name that some response gave to one of
\* its own two addresses, across evictions from either store.
HintWasAnswered ==
  \A k \in DOMAIN flow : flow[k].data.dns_hint # NoHint =>
    \E p \in answered : p[1] \in {k.src, k.dst} /\ cut[p[2]] = flow[k].data.dns_hint

\* ... and at that moment the name was still within its TTL, although the
\* cache may hold it, dead, until the next expiry timer.
HintWasLive ==
  [][\A k \in DOMAIN flow' :
       LET hint == flow'[k].data.dns_hint
       IN  hint # NoHint /\ (k \in DOMAIN flow => flow[k].data.dns_hint = NoHint) =>
             \E ip \in {k.src, k.dst} \cap DOMAIN dns' :
               dns'[ip].expires > now /\ cut[dns'[ip].domain] = hint]_captureVars

\* What the backward counters really count: packets of the same 5-tuple sent
\* by another MAC than the first.  Where an address has one sender they stay 0.
BackwardNeedsTwoSenders ==
  \A k \in DOMAIN flow :
    flow[k].data.pkts_bwd > 0 => Cardinality(senders[k.src]) > 1

\* The capture path uses the flow table as the bounded map it implements: every
\* packet renews one record or opens one while there is room, and only the
\* expiry timer forgets, all silent flows at once.
FlowStore == INSTANCE FlowMap WITH Data <- FlowData
IsFlowStore ==
  /\ FlowStore!MapInit
  /\ [][FlowStore!Renew \/ FlowStore!Open \/ FlowStore!Sweep]_flow

\* When packets stop, one timer empties both stores.
BothStoresDrain == <>[](DOMAIN flow = {} /\ DOMAIN dns = {})

\* README.md:110 lists feature 2 as total_bwd_packets, "Download packet count":
\* a download packet that follows an upload flow's first packet is counted
\* backward in that flow.
Reply(k) == [k EXCEPT !.src = k.dst, !.dst = k.src]

DownloadsCountBackward ==
  \A k \in DOMAIN flow :
    k.src \in Lan /\ Reply(k) \in DOMAIN flow /\ flow[Reply(k)].created > flow[k].created
      => flow[k].data.pkts_bwd > 0

=============================================================================
