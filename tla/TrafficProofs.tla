---------------------------- MODULE TrafficProofs ---------------------------
(***************************************************************************)
(* What of Capture holds for every network, every DNS traffic and every    *)
(* size of the two stores: an entry counts packets backward only if its    *)
(* source address has a second sender; a hint is the name of one of the    *)
(* flow's addresses, was answered, and was within its TTL when it was      *)
(* given; the flow table is used as the map it implements.                 *)
(*                                                                         *)
(* And what of Classifier, which adds the passes to the packets, holds for *)
(* every rule table, every model and every shape of traffic: a name's      *)
(* verdict is never mixed with another phase's, stays for the life of the  *)
(* entry, and the volume rules need a second sender.                       *)
(***************************************************************************)
EXTENDS Classifier, RecursionLemmas, FiniteSetTheorems, TLAPS

\* An entry of 5-tuple k that could be e: opened by a sender of k, and with
\* packets counted backward only if there is another one.
EntryOK(k, e) ==
  /\ e = [src_mac |-> e.src_mac, created |-> e.created, last_seen |-> e.last_seen,
          data |-> e.data]
  /\ e.data = [dns_hint |-> e.data.dns_hint, pkts_fwd |-> e.data.pkts_fwd,
               pkts_bwd |-> e.data.pkts_bwd]
  /\ {e.data.pkts_fwd, e.data.pkts_bwd} \subseteq Nat
  /\ e.src_mac \in senders[k.src]
  /\ e.data.pkts_bwd > 0 => \E m \in senders[k.src] : m # e.src_mac

\* What the fields d of an entry keep when they become e, as long as it lives.
Keeps(d, e) ==
  /\ d.dns_hint # NoHint => e.dns_hint = d.dns_hint
  /\ d.pkts_bwd <= e.pkts_bwd

EntriesOK == \A k \in DOMAIN flow : k \in Keys /\ EntryOK(k, flow[k])

EntriesKept ==
  \A k \in DOMAIN flow \cap DOMAIN flow' : Keeps(flow[k].data, flow'[k].data)

LEMMA OpenedIsOK ==
  ASSUME NEW k \in Keys, NEW mac \in senders[k.src]
  PROVE  EntryOK(k, Opened(mac))
BY DEF EntryOK, Opened, NewData

\* A counted entry, field by field.
LEMMA CountedIs ==
  ASSUME NEW k, NEW mac, NEW e, EntryOK(k, e), NEW c
  PROVE  LET fwd == IF mac = e.src_mac THEN 1 ELSE 0
         IN  Counted(e, k, mac, c) =
               [src_mac |-> e.src_mac, created |-> e.created, last_seen |-> now,
                data |-> [dns_hint |-> annotate_dns_hint(k, e.data.dns_hint, c),
                          pkts_fwd |-> e.data.pkts_fwd + fwd,
                          pkts_bwd |-> e.data.pkts_bwd + 1 - fwd]]
<1> DEFINE fwd  == IF mac = e.src_mac THEN 1 ELSE 0
           d    == [dns_hint |-> annotate_dns_hint(k, e.data.dns_hint, c),
                    pkts_fwd |-> e.data.pkts_fwd + fwd,
                    pkts_bwd |-> e.data.pkts_bwd + 1 - fwd]
           s    == [e EXCEPT !.last_seen = now]
<1>1. s = [src_mac |-> e.src_mac, created |-> e.created, last_seen |-> now, data |-> e.data]
  BY DEF EntryOK
<1>2. Counted(e, k, mac, c) = [s EXCEPT !.data = d]
  BY DEF Counted
<1>3. Counted(e, k, mac, c) =
        [src_mac |-> e.src_mac, created |-> e.created, last_seen |-> now, data |-> d]
  <2> HIDE DEF d, s
  <2> QED
    BY <1>1, <1>2
<1> QED
  BY <1>3

LEMMA CountedIsOK ==
  ASSUME NEW k \in Keys, NEW mac \in senders[k.src], NEW e, EntryOK(k, e), NEW c
  PROVE  EntryOK(k, Counted(e, k, mac, c)) /\ Keeps(e.data, Counted(e, k, mac, c).data)
<1> DEFINE hint == annotate_dns_hint(k, e.data.dns_hint, c)
           fwd  == IF mac = e.src_mac THEN 1 ELSE 0
           d    == [dns_hint |-> hint, pkts_fwd |-> e.data.pkts_fwd + fwd,
                    pkts_bwd |-> e.data.pkts_bwd + 1 - fwd]
<1>1. Counted(e, k, mac, c) =
        [src_mac |-> e.src_mac, created |-> e.created, last_seen |-> now, data |-> d]
  BY CountedIs
<1>2. e.data.dns_hint # NoHint => hint = e.data.dns_hint
  BY DEF annotate_dns_hint
<1>3. {d.pkts_fwd, d.pkts_bwd} \subseteq Nat /\ e.data.pkts_bwd <= d.pkts_bwd
  BY DEF EntryOK
<1>4. d.pkts_bwd > 0 => \E m \in senders[k.src] : m # e.src_mac
  BY DEF EntryOK
<1> HIDE DEF hint, fwd
<1> QED
  BY <1>1, <1>2, <1>3, <1>4 DEF EntryOK, Keeps

LEMMA KeepsItself == ASSUME NEW k, NEW e, EntryOK(k, e) PROVE Keeps(e.data, e.data)
BY DEF EntryOK, Keeps

\* Steps that change no entry, but may forget some.
LEMMA ForgettingKeepsEntries ==
  ASSUME EntriesOK, \A k \in DOMAIN flow' : k \in DOMAIN flow /\ flow'[k] = flow[k]
  PROVE  EntriesOK' /\ EntriesKept
BY KeepsItself DEF EntriesOK, EntriesKept

\* Steps that replace or add the entry of one 5-tuple.
LEMMA UpdateKeepsEntries ==
  ASSUME EntriesOK, NEW key \in Keys, NEW e, EntryOK(key, e),
         flow' = Upd(flow, key, e),
         key \in DOMAIN flow => Keeps(flow[key].data, e.data)
  PROVE  EntriesOK' /\ EntriesKept
<1>1. /\ DOMAIN flow' = DOMAIN flow \cup {key}
      /\ flow'[key] = e
      /\ \A k \in DOMAIN flow \ {key} : flow'[k] = flow[k]
  BY DEF Upd
<1>2. EntriesOK'
  BY <1>1 DEF EntriesOK
<1>3. EntriesKept
  BY <1>1, KeepsItself DEF EntriesOK, EntriesKept
<1> QED
  BY <1>2, <1>3

\* What a packet of key, sent by mac, does to the flow table: the cache its
\* hint is read from is the one the packet's own answers are in.
After(key, mac) ==
  \/ /\ key \in DOMAIN flow
     /\ Pkts(flow[key].data) < MaxPkts[key]
     /\ flow' = Upd(flow, key, Counted(flow[key], key, mac, dns'))
  \/ /\ key \notin DOMAIN flow
     /\ Cardinality(DOMAIN flow) < max_entries
     /\ flow' = Upd(flow, key, Counted(Opened(mac), key, mac, dns'))
  \/ UNCHANGED flow

\* At most the entry of its own 5-tuple changes.
LEMMA PacketIs ==
  Packet => /\ UNCHANGED now /\ answered \subseteq answered'
            /\ \E key \in Keys : \E mac \in senders[key.src] : After(key, mac)
<1>1. ASSUME NEW key, NEW mac, NEW r, process_packet(key, mac, r)
      PROVE  answered \subseteq answered' /\ After(key, mac)
  BY <1>1 DEF process_packet, After
<1> QED
  BY <1>1 DEF Packet

LEMMA PacketKeepsEntries == EntriesOK /\ Packet => EntriesOK' /\ EntriesKept
<1> SUFFICES ASSUME EntriesOK, Packet PROVE EntriesOK' /\ EntriesKept
  OBVIOUS
<1>1. PICK key \in Keys : \E mac \in senders[key.src] : After(key, mac)
  BY PacketIs
<1>2. PICK mac \in senders[key.src] : After(key, mac)
  BY <1>1
<1>3. CASE key \in DOMAIN flow /\ flow' = Upd(flow, key, Counted(flow[key], key, mac, dns'))
  <2>1. EntryOK(key, flow[key])
    BY <1>3 DEF EntriesOK
  <2> QED
    BY <1>3, <2>1, CountedIsOK, UpdateKeepsEntries
<1>4. CASE key \notin DOMAIN flow /\ flow' = Upd(flow, key, Counted(Opened(mac), key, mac, dns'))
  BY <1>4, OpenedIsOK, CountedIsOK, UpdateKeepsEntries
<1>5. CASE UNCHANGED flow
  BY <1>5, ForgettingKeepsEntries
<1> QED
  BY <1>2, <1>3, <1>4, <1>5 DEF After

LEMMA CaptureKeepsEntries == EntriesOK /\ CaptureNext => EntriesOK' /\ EntriesKept
<1> SUFFICES ASSUME EntriesOK, CaptureNext PROVE EntriesOK' /\ EntriesKept
  OBVIOUS
<1>1. CASE Packet
  BY <1>1, PacketKeepsEntries
<1>2. CASE expire_timer_cb
  BY <1>2, ForgettingKeepsEntries DEF expire_timer_cb
<1>3. CASE Time
  BY <1>3, ForgettingKeepsEntries DEF Time
<1> QED
  BY <1>1, <1>2, <1>3 DEF CaptureNext

LEMMA TwoSenders ==
  ASSUME NEW S, IsFiniteSet(S), NEW x \in S, NEW y \in S, x # y
  PROVE  Cardinality(S) > 1
<1>1. IsFiniteSet({x, y}) /\ Cardinality({x, y}) = 2
  <2>1. IsFiniteSet({x}) /\ Cardinality({x}) = 1
    BY FS_Singleton
  <2>2. IsFiniteSet({x} \cup {y}) /\ Cardinality({x} \cup {y}) = Cardinality({x}) + 1
    BY <2>1, FS_AddElement
  <2>3. {x} \cup {y} = {x, y}
    OBVIOUS
  <2> QED
    BY <2>1, <2>2, <2>3
<1>2. Cardinality({x, y}) <= Cardinality(S) /\ Cardinality(S) \in Nat
  BY <1>1, FS_Subset, FS_CardinalityType
<1> QED
  BY <1>1, <1>2

LEMMA BackwardNeedsOther == EntriesOK => BackwardNeedsTwoSenders
<1> SUFFICES ASSUME EntriesOK, NEW k \in DOMAIN flow, flow[k].data.pkts_bwd > 0
             PROVE  Cardinality(senders[k.src]) > 1
  BY DEF BackwardNeedsTwoSenders
<1>1. k \in Keys /\ EntryOK(k, flow[k])
  BY DEF EntriesOK
<1>2. PICK m \in senders[k.src] : m # flow[k].src_mac
  BY <1>1 DEF EntryOK
<1>3. IsFiniteSet(senders[k.src])
  BY <1>1, CaptureAssumption, FS_Subset
<1> QED
  BY <1>1, <1>2, <1>3, TwoSenders DEF EntryOK

\* What the backward counters of struct flow_entry count (capture.c,
\* process_packet): a flow whose source address has one sender, as every address
\* has that is not shared, has none, for every network and every traffic.
THEOREM BackwardIsAnotherSender == CaptureSpec => []BackwardNeedsTwoSenders
<1>1. CaptureInit => EntriesOK
  BY DEF CaptureInit, EntriesOK
<1>2. EntriesOK /\ [CaptureNext]_captureVars => EntriesOK'
  BY CaptureKeepsEntries, ForgettingKeepsEntries DEF captureVars
<1> QED
  BY <1>1, <1>2, BackwardNeedsOther, PTL DEF CaptureSpec

-----------------------------------------------------------------------------
(* Hints.                                                                  *)

\* The names a lookup may find in cache c for one of the addresses of k.
Live(k, c) == {ip \in {k.src, k.dst} \cap DOMAIN c : c[ip].expires > now}

\* A hint stays, or is the name of a live entry of the cache.
LEMMA HintIs ==
  ASSUME NEW k, NEW hint, NEW c
  PROVE  \/ annotate_dns_hint(k, hint, c) = hint
         \/ hint = NoHint /\ \E ip \in Live(k, c) :
               annotate_dns_hint(k, hint, c) = cut[c[ip].domain]
<1> DEFINE d == dns_cache_lookup(c, k.dst)
           n == IF d # {} THEN d ELSE dns_cache_lookup(c, k.src)
           x == CHOOSE y \in n : TRUE
<1>1. CASE ~(hint = NoHint /\ n # {})
  BY <1>1 DEF annotate_dns_hint
<1>2. CASE hint = NoHint /\ n # {}
  <2>1. annotate_dns_hint(k, hint, c) = cut[x]
    BY <1>2 DEF annotate_dns_hint
  <2>2. x \in n
    BY <1>2
  <2>3. PICK ip \in Live(k, c) : x = c[ip].domain
    BY <2>2 DEF Live, dns_cache_lookup
  <2> QED
    BY <1>2, <2>1, <2>3
<1> QED
  BY <1>1, <1>2

\* The hint of an entry after a packet of k, whether the packet opened it or not.
LEMMA HintAfter ==
  ASSUME EntriesOK, NEW key \in Keys, NEW mac \in senders[key.src], After(key, mac),
         NEW k \in DOMAIN flow'
  PROVE  LET hint == flow'[k].data.dns_hint
         IN  \/ k \in DOMAIN flow /\ hint = flow[k].data.dns_hint
             \/ k \notin DOMAIN flow /\ hint = NoHint
             \/ /\ k \in DOMAIN flow => flow[k].data.dns_hint = NoHint
                /\ k \in Keys
                /\ \E ip \in Live(k, dns') : hint = cut[dns'[ip].domain]
<1>1. CASE UNCHANGED flow
  BY <1>1
<1>2. ASSUME NEW e, EntryOK(key, e), flow' = Upd(flow, key, Counted(e, key, mac, dns')),
             \/ key \in DOMAIN flow /\ e = flow[key]
             \/ key \notin DOMAIN flow /\ e.data.dns_hint = NoHint,
             k = key
      PROVE  \/ key \in DOMAIN flow /\ flow'[k].data.dns_hint = flow[key].data.dns_hint
             \/ key \notin DOMAIN flow /\ flow'[k].data.dns_hint = NoHint
             \/ /\ key \in DOMAIN flow => flow[key].data.dns_hint = NoHint
                /\ \E ip \in Live(key, dns') : flow'[k].data.dns_hint = cut[dns'[ip].domain]
  <2>1. flow'[k] = Counted(e, key, mac, dns')
    BY <1>2 DEF Upd
  <2>2. flow'[k].data.dns_hint = annotate_dns_hint(key, e.data.dns_hint, dns')
    BY <1>2, <2>1, CountedIs
  <2> QED
    BY <1>2, <2>2, HintIs
<1>3. CASE k # key /\ ~UNCHANGED flow
  <2>1. k \in DOMAIN flow /\ flow'[k] = flow[k]
    BY <1>3 DEF After, Upd
  <2> QED
    BY <2>1
<1>4. CASE /\ key \in DOMAIN flow /\ k = key
           /\ flow' = Upd(flow, key, Counted(flow[key], key, mac, dns'))
  <2>1. EntryOK(key, flow[key])
    BY <1>4 DEF EntriesOK
  <2> QED
    BY <1>2, <1>4, <2>1
<1>5. CASE /\ key \notin DOMAIN flow /\ k = key
           /\ flow' = Upd(flow, key, Counted(Opened(mac), key, mac, dns'))
  <2>1. EntryOK(key, Opened(mac)) /\ Opened(mac).data.dns_hint = NoHint
    BY OpenedIsOK DEF Opened, NewData
  <2> QED
    BY <1>2, <1>5, <2>1
<1> QED
  BY <1>1, <1>3, <1>4, <1>5 DEF After

\* Between a DNS answer's expiry and the next expiry timer (capture.c,
\* annotate_dns_hint and dns_cache_lookup), no flow is given its name.
THEOREM HintsAreLiveWhenGiven == CaptureSpec => HintWasLive
<1> DEFINE GivenLive ==
        \A k \in DOMAIN flow' :
          LET hint == flow'[k].data.dns_hint
          IN  hint # NoHint /\ (k \in DOMAIN flow => flow[k].data.dns_hint = NoHint) =>
                \E ip \in {k.src, k.dst} \cap DOMAIN dns' :
                  dns'[ip].expires > now /\ cut[dns'[ip].domain] = hint
<1>1. EntriesOK /\ CaptureNext => GivenLive
  <2> SUFFICES ASSUME EntriesOK, CaptureNext, NEW k \in DOMAIN flow',
                      flow'[k].data.dns_hint # NoHint,
                      k \in DOMAIN flow => flow[k].data.dns_hint = NoHint
               PROVE  \E ip \in {k.src, k.dst} \cap DOMAIN dns' :
                        dns'[ip].expires > now /\ cut[dns'[ip].domain] = flow'[k].data.dns_hint
    OBVIOUS
  <2>1. CASE Packet
    <3>1. PICK key \in Keys : \E mac \in senders[key.src] : After(key, mac)
      BY <2>1, PacketIs
    <3>2. PICK mac \in senders[key.src] : After(key, mac)
      BY <3>1
    <3> QED
      BY <3>2, HintAfter DEF Live
  <2>2. CASE expire_timer_cb
    BY <2>2 DEF expire_timer_cb
  <2>3. CASE Time
    BY <2>3 DEF Time
  <2> QED
    BY <2>1, <2>2, <2>3 DEF CaptureNext
<1>2. CaptureInit => EntriesOK
  BY DEF CaptureInit, EntriesOK
<1>3. EntriesOK /\ [CaptureNext]_captureVars => EntriesOK'
  BY CaptureKeepsEntries, ForgettingKeepsEntries DEF captureVars
<1> QED
  BY <1>1, <1>2, <1>3, PTL DEF CaptureSpec, HintWasLive

-----------------------------------------------------------------------------
(* What the DNS cache holds.                                               *)

Caches == UNION {[D -> [domain: DOMAIN cut, expires: Int]] : D \in SUBSET Hosts}

Answer == [ip: Hosts, ttl: Nat]

\* The caches that only hold answers of the set A.
Holding(A) == {c \in Caches : \A ip \in DOMAIN c : <<ip, c[ip].domain>> \in A}

AnswersOf(r) == {<<a.ip, r.name>> : a \in Range(r.answers)}

LEMMA IsCache ==
  ASSUME NEW D \in SUBSET Hosts, NEW c \in [D -> [domain: DOMAIN cut, expires: Int]]
  PROVE  c \in Caches
BY DEF Caches

LEMMA CacheIs ==
  ASSUME NEW c \in Caches
  PROVE  /\ DOMAIN c \subseteq Hosts
         /\ c \in [DOMAIN c -> [domain: DOMAIN cut, expires: Int]]
BY DEF Caches

LEMMA LearntHolds ==
  ASSUME NEW A, NEW c \in Holding(A), NEW name \in DOMAIN cut,
         NEW a \in Answer, <<a.ip, name>> \in A, now \in Int
  PROVE  Learnt(c, name, a) \in Holding(A)
<1> DEFINE x == now + IF a.ttl > 0 THEN a.ttl ELSE DNS_TTL_DEFAULT
           e == [domain |-> name, expires |-> x]
           d == Upd(c, a.ip, e)
<1>1. x \in Int
  BY CaptureAssumption DEF Answer
<1>2. Learnt(c, name, a) \in {c, d}
  BY DEF Learnt
<1>3. c \in Caches /\ \A ip \in DOMAIN c : <<ip, c[ip].domain>> \in A
  BY DEF Holding
<1>4. DOMAIN d = DOMAIN c \cup {a.ip} /\ \A ip \in DOMAIN d : d[ip] = IF ip = a.ip THEN e ELSE c[ip]
  BY DEF Upd
<1>5. d \in Caches
  <2>1. DOMAIN d \in SUBSET Hosts
    BY <1>3, <1>4, CacheIs DEF Answer
  <2>2. d \in [DOMAIN d -> [domain: DOMAIN cut, expires: Int]]
    <3> HIDE DEF x
    <3>1. e \in [domain: DOMAIN cut, expires: Int]
      BY <1>1
    <3>2. \A ip \in DOMAIN d : d[ip] \in [domain: DOMAIN cut, expires: Int]
      <4> HIDE DEF d, e
      <4> QED
        BY <3>1, <1>3, <1>4, CacheIs
    <3> QED
      BY <3>2 DEF Upd
  <2> HIDE DEF d
  <2> QED
    BY <2>1, <2>2, IsCache
<1>6. \A ip \in DOMAIN d : <<ip, d[ip].domain>> \in A
  <2> HIDE DEF d
  <2> QED
    BY <1>3, <1>4
<1> HIDE DEF d
<1> QED
  BY <1>2, <1>3, <1>5, <1>6 DEF Holding

\* A response's answers, learnt one after the other.
LEMMA ParsedHolds ==
  ASSUME NEW A, NEW c \in Holding(A), now \in Int,
         NEW r, r.answers \in Seq(Answer),
         Len(r.answers) > 0 => r.name \in DOMAIN cut, AnswersOf(r) \subseteq A
  PROVE  dns_cache_parse_response(c, r) \in Holding(A)
<1> DEFINE n == Len(r.answers)
           S == Holding(A)
           step == [i \in 1..n |-> [x \in S |-> Learnt(x, r.name, r.answers[i])]]
           Is(g) == g = [i \in 0..n |-> IF i = 0 THEN c
                                        ELSE Learnt(g[i - 1], r.name, r.answers[i])]
           learnt == CHOOSE g : Is(g)
<1>1. n \in Nat
  OBVIOUS
<1>2. ASSUME NEW i \in 1..n, NEW x \in S PROVE Learnt(x, r.name, r.answers[i]) \in S
  <2>1. /\ r.answers[i] \in Answer
        /\ r.answers[i] \in Range(r.answers)
        /\ Len(r.answers) > 0
    <3>1. i \in DOMAIN r.answers
      OBVIOUS
    <3>2. r.answers[i] \in Range(r.answers)
      BY <3>1, Zenon DEF Range
    <3>3. Len(r.answers) > 0 /\ r.answers[i] \in Answer
      OBVIOUS
    <3> QED
      BY <3>2, <3>3
  <2>2. <<r.answers[i].ip, r.name>> \in A
    BY <2>1 DEF AnswersOf
  <2> QED
    BY <2>1, <2>2, LearntHolds
<1>3. step \in [1..n -> [S -> S]]
  <2> HIDE DEF n, S
  <2> QED
    BY <1>2
<1>4. PICK f : Runs(f, n, S, c, step)
  <2> HIDE DEF n, step, S
  <2>1. c \in S
    BY DEF S
  <2> QED
    BY <1>1, <1>3, <2>1, RunExists
<1>5. Is(f)
  <2> HIDE DEF n, S
  <2>1. f = [i \in 0..n |-> f[i]] /\ f[0] = c
    BY <1>4 DEF Runs
  <2>2. ASSUME NEW i \in 1..n PROVE f[i] = Learnt(f[i - 1], r.name, r.answers[i])
    <3>1. f[i - 1] \in S /\ f[i] = step[i][f[i - 1]]
      BY <1>1, <1>4 DEF Runs
    <3> QED
      BY <3>1
  <2>3. ASSUME NEW i \in 0..n
        PROVE  f[i] = IF i = 0 THEN c ELSE Learnt(f[i - 1], r.name, r.answers[i])
    BY <1>1, <2>1, <2>2
  <2> QED
    BY <2>1, <2>3
<1>6. Is(learnt)
  <2> HIDE DEF Is
  <2> QED
    BY <1>5
<1>7. dns_cache_parse_response(c, r) = learnt[n]
  BY DEF dns_cache_parse_response
<1>8. learnt[n] \in S
  <2> HIDE DEF learnt, n, S
  <2> DEFINE T == {i \in 0..n : learnt[i] \in S}
  <2>1. 0 \in T
    BY <1>1, <1>6 DEF S
  <2>2. \A i \in 1..n : i - 1 \in T => i \in T
    BY <1>1, <1>2, <1>6
  <2>3. n \in 0..n
    BY <1>1
  <2> HIDE DEF T
  <2>4. n \in T
    BY <1>1, <2>1, <2>2, <2>3, UpTo
  <2> QED
    BY <2>4 DEF T
<1> QED
  BY <1>7, <1>8

CacheOK == now \in Int /\ dns \in Holding(answered)

HintInv == EntriesOK /\ CacheOK /\ HintWasAnswered

LEMMA HoldingMore ==
  ASSUME NEW A, NEW B, A \subseteq B, NEW c \in Holding(A) PROVE c \in Holding(B)
BY DEF Holding

LEMMA PacketKeepsCache == CacheOK /\ Packet => CacheOK'
<1>1. ASSUME NEW r, r.answers \in Seq(Answer),
             Len(r.answers) > 0 => r.name \in DOMAIN cut,
             NEW key, NEW mac, process_packet(key, mac, r), CacheOK
      PROVE  dns' \in Holding(answered')
  <2>1. answered \subseteq answered' /\ AnswersOf(r) \subseteq answered'
    BY <1>1 DEF process_packet, AnswersOf
  <2>2. dns \in Holding(answered')
    BY <1>1, <2>1, HoldingMore DEF CacheOK
  <2>3. dns_cache_parse_response(dns, r) \in Holding(answered')
    BY <1>1, <2>1, <2>2, ParsedHolds DEF CacheOK
  <2> QED
    BY <1>1, <2>2, <2>3 DEF process_packet
<1>2. Len(NoPayload.answers) = 0 /\ NoPayload.answers \in Seq(Answer)
  BY DEF NoPayload
<1>3. \A r \in Responses : r.name \in DOMAIN cut /\ r.answers \in Seq(Answer)
  BY CaptureAssumption DEF Answer
<1> SUFFICES ASSUME CacheOK, Packet PROVE CacheOK'
  OBVIOUS
<1>4. dns' \in Holding(answered')
  BY <1>1, <1>2, <1>3 DEF Packet
<1>5. now' = now /\ Holding(answered)' = Holding(answered')
  BY DEF Packet, Holding
<1> QED
  BY <1>4, <1>5 DEF CacheOK

LEMMA CaptureKeepsCache == CacheOK /\ [CaptureNext]_captureVars => CacheOK'
<1> SUFFICES ASSUME CacheOK, [CaptureNext]_captureVars PROVE CacheOK'
  OBVIOUS
<1>1. CASE Packet
  BY <1>1, PacketKeepsCache
<1>2. CASE expire_timer_cb
  <2> DEFINE D == {j \in DOMAIN dns : dns[j].expires > now}
             c == [i \in D |-> dns[i]]
  <2>1. dns' = c /\ answered' = answered /\ now' = now
    BY <1>2 DEF expire_timer_cb, dns_cache_expire
  <2>2. dns \in Caches /\ \A ip \in DOMAIN dns : <<ip, dns[ip].domain>> \in answered
    BY DEF CacheOK, Holding
  <2>3. D \in SUBSET Hosts /\ D \subseteq DOMAIN dns
    BY <2>2, CacheIs
  <2>4. c \in [D -> [domain: DOMAIN cut, expires: Int]]
    <3> HIDE DEF D
    <3> QED
      BY <2>2, <2>3, CacheIs
  <2>5. c \in Caches
    <3> HIDE DEF c, D
    <3> QED
      BY <2>3, <2>4, IsCache
  <2>6. \A ip \in DOMAIN c : <<ip, c[ip].domain>> \in answered
    BY <2>2
  <2> HIDE DEF c
  <2> QED
    BY <2>1, <2>5, <2>6 DEF CacheOK, Holding
<1>3. CASE Time
  <2>1. now' \in Int
    <3>1. now \in Int
      BY DEF CacheOK
    <3>2. now' = now + 1 \/ now' \in 0..MaxTime
      BY <1>3, ClockAssumption DEF Time, Tick, ClockStep
    <3> QED
      BY <3>1, <3>2
  <2>2. Holding(answered)' = Holding(answered) /\ dns' = dns
    BY <1>3 DEF Time, Holding
  <2> QED
    BY <2>1, <2>2 DEF CacheOK
<1>4. CASE UNCHANGED captureVars
  BY <1>4 DEF captureVars, CacheOK
<1> QED
  BY <1>1, <1>2, <1>3, <1>4 DEF CaptureNext

LEMMA HintInit == CaptureInit => HintInv
<1> SUFFICES ASSUME CaptureInit PROVE HintInv
  OBVIOUS
<1>1. dns \in [{} -> [domain: DOMAIN cut, expires: Int]] /\ DOMAIN dns = {}
  BY DEF CaptureInit
<1>2. dns \in Holding(answered)
  BY <1>1, IsCache DEF Holding
<1> QED
  BY <1>2 DEF CaptureInit, ClockInit, HintInv, CacheOK, EntriesOK, HintWasAnswered

LEMMA CaptureKeepsHints == HintInv /\ [CaptureNext]_captureVars => HintInv'
<1> SUFFICES ASSUME HintInv, [CaptureNext]_captureVars PROVE HintInv'
  OBVIOUS
<1>1. EntriesOK' /\ CacheOK'
  BY CaptureKeepsEntries, ForgettingKeepsEntries, CaptureKeepsCache DEF HintInv, captureVars
<1>2. ASSUME answered \subseteq answered', NEW k \in DOMAIN flow \cap DOMAIN flow',
             flow'[k].data.dns_hint = flow[k].data.dns_hint, flow'[k].data.dns_hint # NoHint
      PROVE  \E p \in answered' : p[1] \in {k.src, k.dst} /\ cut[p[2]] = flow'[k].data.dns_hint
  BY <1>2 DEF HintInv, HintWasAnswered
<1>3. CASE Packet
  <2>1. PICK key \in Keys : \E mac \in senders[key.src] : After(key, mac)
    BY <1>3, PacketIs
  <2>2. PICK mac \in senders[key.src] : After(key, mac)
    BY <2>1
  <2>3. answered \subseteq answered'
    BY <1>3, PacketIs
  <2>4. ASSUME NEW k \in DOMAIN flow', flow'[k].data.dns_hint # NoHint,
               NEW ip \in Live(k, dns'), flow'[k].data.dns_hint = cut[dns'[ip].domain]
        PROVE  \E p \in answered' : p[1] \in {k.src, k.dst} /\ cut[p[2]] = flow'[k].data.dns_hint
    <3>1. <<ip, dns'[ip].domain>> \in answered'
      BY <1>1 DEF CacheOK, Holding, Live
    <3> QED
      BY <2>4, <3>1 DEF Live
  <2>5. HintWasAnswered'
    BY <1>2, <2>2, <2>3, <2>4, HintAfter DEF HintInv, HintWasAnswered
  <2> QED
    BY <1>1, <2>5 DEF HintInv
<1>4. CASE expire_timer_cb \/ Time \/ UNCHANGED captureVars
  <2>1. /\ answered' = answered
        /\ \A k \in DOMAIN flow' : k \in DOMAIN flow /\ flow'[k] = flow[k]
    BY <1>4 DEF expire_timer_cb, Time, captureVars
  <2>2. HintWasAnswered'
    BY <1>2, <2>1 DEF HintWasAnswered
  <2> QED
    BY <1>1, <2>2 DEF HintInv
<1> QED
  BY <1>3, <1>4 DEF CaptureNext

\* A label of a flow (capture.c, annotate_dns_hint) never comes from a name
\* that no response ever gave to one of the flow's two addresses, however the
\* DNS cache and the flow table have evicted and been refilled since.
THEOREM HintsWereAnswered == CaptureSpec => []HintWasAnswered
<1>1. HintInv => HintWasAnswered
  BY DEF HintInv
<1> QED
  BY <1>1, HintInit, CaptureKeepsHints, PTL DEF CaptureSpec

-----------------------------------------------------------------------------
(* The flow table as a map.                                                *)

\* What a record of the map may hold, and the bound of this model on it.
DataOK ==
  \A k \in DOMAIN flow : /\ flow[k].data.dns_hint \in Hints \cup {NoHint}
                         /\ Pkts(flow[k].data) <= MaxPkts[k]

StoreInv == EntriesOK /\ CacheOK /\ DataOK

\* What a packet writes into entry e of key.
LEMMA WrittenIs ==
  ASSUME EntriesOK, CacheOK', NEW key \in Keys, NEW mac \in senders[key.src],
         NEW e, EntryOK(key, e), Pkts(e.data) < MaxPkts[key],
         e.data.dns_hint \in Hints \cup {NoHint}
  PROVE  LET d == Counted(e, key, mac, dns').data
         IN  /\ Counted(e, key, mac, dns') = FlowStore!Record(e.src_mac, e.created, d)
             /\ d \in FlowData /\ d.dns_hint \in Hints \cup {NoHint}
             /\ Pkts(d) <= MaxPkts[key]
<1> DEFINE hint == annotate_dns_hint(key, e.data.dns_hint, dns')
           fwd  == IF mac = e.src_mac THEN 1 ELSE 0
           d    == [dns_hint |-> hint, pkts_fwd |-> e.data.pkts_fwd + fwd,
                    pkts_bwd |-> e.data.pkts_bwd + 1 - fwd]
           counts == UNION {0..MaxPkts[k] : k \in Keys}
<1>1. Counted(e, key, mac, dns') =
        [src_mac |-> e.src_mac, created |-> e.created, last_seen |-> now, data |-> d]
  BY CountedIs
<1>2. hint \in Hints \cup {NoHint}
  <2>1. ASSUME NEW ip \in Live(key, dns') PROVE cut[dns'[ip].domain] \in Hints
    <3>1. dns'[ip].domain \in DOMAIN cut
      BY CacheIs DEF CacheOK, Holding, Live
    <3> QED
      BY <3>1, CaptureAssumption
  <2> QED
    BY <2>1, HintIs
<1>3. /\ {d.pkts_fwd, d.pkts_bwd} \subseteq 0..MaxPkts[key]
      /\ d.pkts_fwd + d.pkts_bwd <= MaxPkts[key]
  <2>1. {e.data.pkts_fwd, e.data.pkts_bwd} \subseteq Nat /\ MaxPkts[key] \in Nat
    BY CaptureAssumption DEF EntryOK
  <2> HIDE DEF hint
  <2> QED
    BY <2>1 DEF Pkts
<1>4. {d.pkts_fwd, d.pkts_bwd} \subseteq counts
  <2> HIDE DEF d
  <2> QED
    BY <1>3
<1>5. d \in FlowData
  <2> HIDE DEF counts, hint
  <2>1. d \in [dns_hint: Hints \cup {NoHint}, pkts_fwd: counts, pkts_bwd: counts]
    BY <1>2, <1>4
  <2> QED
    BY <2>1 DEF FlowData, counts
<1> HIDE DEF hint, fwd
<1> QED
  BY <1>1, <1>2, <1>3, <1>5 DEF FlowStore!Record, Pkts

LEMMA OpenedIsEmpty ==
  ASSUME NEW key \in Keys, NEW mac
  PROVE  /\ Opened(mac).data.dns_hint = NoHint /\ Pkts(Opened(mac).data) < MaxPkts[key]
         /\ Opened(mac).src_mac = mac /\ Opened(mac).created = now
<1>1. MaxPkts[key] \in Nat \ {0}
  BY CaptureAssumption
<1> QED
  BY <1>1 DEF Opened, NewData, Pkts

\* A packet renews a record of the map, or opens one while there is room.
LEMMA PacketUsesStore ==
  ASSUME StoreInv, CacheOK', NEW key \in Keys, NEW mac \in senders[key.src], After(key, mac)
  PROVE  DataOK' /\ (FlowStore!Renew \/ FlowStore!Open \/ UNCHANGED flow)
<1>1. EntriesOK /\ DataOK
  BY DEF StoreInv
<1>2. ASSUME NEW e, EntryOK(key, e), flow' = Upd(flow, key, e),
             e.data.dns_hint \in Hints \cup {NoHint}, Pkts(e.data) <= MaxPkts[key]
      PROVE  DataOK' /\ flow' = FlowStore!With(key, e)
  BY <1>1, <1>2 DEF DataOK, Upd, FlowStore!With
<1>3. CASE /\ key \in DOMAIN flow /\ Pkts(flow[key].data) < MaxPkts[key]
           /\ flow' = Upd(flow, key, Counted(flow[key], key, mac, dns'))
  <2> DEFINE e == Counted(flow[key], key, mac, dns')
  <2>1. EntryOK(key, flow[key]) /\ flow[key].data.dns_hint \in Hints \cup {NoHint}
    BY <1>1, <1>3 DEF EntriesOK, DataOK
  <2>2. EntryOK(key, e)
    BY <2>1, CountedIsOK
  <2>3. /\ e = FlowStore!Record(flow[key].src_mac, flow[key].created, e.data)
        /\ e.data \in FlowData /\ e.data.dns_hint \in Hints \cup {NoHint}
        /\ Pkts(e.data) <= MaxPkts[key]
    BY <1>1, <1>3, <2>1, WrittenIs
  <2>4. DataOK' /\ flow' = FlowStore!With(key, e)
    BY <1>2, <1>3, <2>2, <2>3
  <2> HIDE DEF e
  <2> QED
    BY <1>3, <2>3, <2>4 DEF FlowStore!Renew
<1>4. CASE /\ key \notin DOMAIN flow /\ Cardinality(DOMAIN flow) < max_entries
           /\ flow' = Upd(flow, key, Counted(Opened(mac), key, mac, dns'))
  <2> DEFINE e == Counted(Opened(mac), key, mac, dns')
  <2>1. EntryOK(key, Opened(mac))
    BY OpenedIsOK
  <2>2. EntryOK(key, e)
    BY <2>1, CountedIsOK
  <2>3. /\ e = FlowStore!Record(mac, now, e.data)
        /\ e.data \in FlowData /\ e.data.dns_hint \in Hints \cup {NoHint}
        /\ Pkts(e.data) <= MaxPkts[key]
    BY <1>1, <2>1, OpenedIsEmpty, WrittenIs
  <2>4. DataOK' /\ flow' = FlowStore!With(key, e)
    BY <1>2, <1>4, <2>2, <2>3
  <2>5. mac \in Macs
    BY CaptureAssumption
  <2>6. FlowStore!Cardinality(DOMAIN flow) < max_entries
    BY <1>4 DEF FlowStore!Cardinality, Cardinality
  <2> HIDE DEF e
  <2> QED
    BY <1>4, <2>3, <2>4, <2>5, <2>6 DEF FlowStore!Open
<1>5. CASE UNCHANGED flow
  BY <1>1, <1>5 DEF DataOK
<1> QED
  BY <1>3, <1>4, <1>5 DEF After

\* For its callers' purposes the flow table is a bounded map (flow_table.h):
\* however packets, timers and clock corrections interleave, process_packet
\* only renews a record or opens one while there is room, and
\* expire_timer_cb forgets exactly the silent flows.
THEOREM CaptureUsesFlowMap == CaptureSpec => IsFlowStore
<1> DEFINE Step == FlowStore!Renew \/ FlowStore!Open \/ FlowStore!Sweep
<1>1. CaptureInit => StoreInv /\ FlowStore!MapInit
  <2> SUFFICES ASSUME CaptureInit PROVE StoreInv /\ FlowStore!MapInit
    OBVIOUS
  <2>1. DOMAIN flow = {} /\ FlowStore!MapInit
    BY DEF CaptureInit, FlowStore!MapInit, FlowStore!ClockInit, ClockInit
  <2> QED
    BY <2>1, HintInit DEF StoreInv, HintInv, DataOK
<1>2. StoreInv /\ [CaptureNext]_captureVars => StoreInv' /\ (Step \/ UNCHANGED flow)
  <2> SUFFICES ASSUME StoreInv, [CaptureNext]_captureVars
               PROVE  StoreInv' /\ (Step \/ UNCHANGED flow)
    OBVIOUS
  <2>1. EntriesOK' /\ CacheOK'
    BY CaptureKeepsEntries, ForgettingKeepsEntries, CaptureKeepsCache DEF StoreInv, captureVars
  <2>2. CASE Packet
    <3>1. PICK key \in Keys : \E mac \in senders[key.src] : After(key, mac)
      BY <2>2, PacketIs
    <3>2. PICK mac \in senders[key.src] : After(key, mac)
      BY <3>1
    <3> QED
      BY <2>1, <3>2, PacketUsesStore DEF StoreInv
  <2>3. CASE expire_timer_cb
    <3>1. FlowStore!Sweep
      BY <2>3 DEF expire_timer_cb, FlowStore!Sweep, FlowStore!Silent, Silent
    <3>2. \A k \in DOMAIN flow' : k \in DOMAIN flow /\ flow'[k] = flow[k]
      BY <2>3 DEF expire_timer_cb
    <3>3. DataOK'
      BY <3>2 DEF StoreInv, DataOK
    <3> QED
      BY <2>1, <3>1, <3>3 DEF StoreInv
  <2>4. CASE Time \/ UNCHANGED captureVars
    BY <2>1, <2>4 DEF Time, captureVars, StoreInv, DataOK
  <2> QED
    BY <2>2, <2>3, <2>4 DEF CaptureNext
<1>3. StoreInv /\ [CaptureNext]_captureVars => [Step]_flow
  BY <1>2
<1> QED
  BY <1>1, <1>2, <1>3, PTL DEF CaptureSpec, IsFlowStore

-----------------------------------------------------------------------------
(* The heuristic.                                                          *)

LEMMA FewForwardNeedsBackward ==
  ASSUME NEW d, {d.pkts_fwd, d.pkts_bwd} \subseteq Nat,
         NEW pct \in {5, 10, 15}, FwdBelow(d, pct)
  PROVE  d.pkts_bwd > 0
BY DEF FwdBelow, Pkts

\* Some rule is the first that fires, because the last one always does.
LEMMA SomeRuleFires ==
  ASSUME NEW p, NEW s, NEW d, NEW rs, rs = Rules(p, s, d)
  PROVE  \E i \in 1..Len(rs) : rs[i].when /\ \A j \in 1..i - 1 : ~rs[j].when
<1>1. Len(rs) = 14 /\ rs[14].when
  BY DEF Rules, R
<1>2. \E i \in 1..14 : rs[i].when /\ \A j \in 1..i - 1 : ~rs[j].when
  <2> SUFFICES ASSUME \A i \in 1..14 : rs[i].when => \E j \in 1..i - 1 : rs[j].when
               PROVE  FALSE
    OBVIOUS
  <2>1. ~rs[1].when /\ ~rs[2].when /\ ~rs[3].when /\ ~rs[4].when
    OBVIOUS
  <2>2. ~rs[5].when /\ ~rs[6].when /\ ~rs[7].when /\ ~rs[8].when
    BY <2>1
  <2>3. ~rs[9].when /\ ~rs[10].when /\ ~rs[11].when
    BY <2>1, <2>2
  <2>4. ~rs[12].when /\ ~rs[13].when /\ ~rs[14].when
    BY <2>1, <2>2, <2>3
  <2> QED
    BY <1>1, <2>4
<1> QED
  BY <1>1, <1>2

LEMMA VolumeRules ==
  ASSUME NEW p, NEW s, NEW d, {d.pkts_fwd, d.pkts_bwd} \subseteq Nat,
         classify_heuristic(p, s, d).cls \in {"video", "download"}
  PROVE  d.pkts_bwd > 0
<1> DEFINE rs == Rules(p, s, d)
<1>1. Len(rs) = 14
  BY DEF Rules
<1>2. \A i \in 1..14 : i \notin {7, 8, 9, 12} => rs[i].cls \notin {"video", "download"}
  BY DEF Rules, R
<1>3. /\ rs[7].when => FwdBelow(d, 15)
      /\ rs[8].when => FwdBelow(d, 5)
      /\ rs[9].when => FwdBelow(d, 10)
      /\ rs[12].when => FwdBelow(d, 15)
  <2> DEFINE w7  == s.bps > 100000 /\ s.size > 1000
             w8  == s.bps > 500000
             w9  == s.bps > 200000 /\ s.size > 1200
             w12 == p.udp /\ 443 \in {p.src, p.dst} /\ s.bps > 100000
  <2>1. /\ rs[7].when = (w7 /\ FwdBelow(d, 15))
        /\ rs[8].when = (w8 /\ FwdBelow(d, 5))
        /\ rs[9].when = (w9 /\ FwdBelow(d, 10))
        /\ rs[12].when = (w12 /\ FwdBelow(d, 15))
    BY DEF Rules, R
  <2> HIDE DEF rs, w7, w8, w9, w12
  <2> QED
    BY <2>1, Zenon
<1>4. \E i \in 1..Len(rs) : rs[i].when /\ \A j \in 1..i - 1 : ~rs[j].when
  BY SomeRuleFires
<1> HIDE DEF rs
<1>5. PICK i \in 1..14 : rs[i].when /\ rs[i] = classify_heuristic(p, s, d)
  <2> DEFINE First(i) == rs[i].when /\ \A j \in 1..i - 1 : ~rs[j].when
             i == CHOOSE n \in 1..Len(rs) : First(n)
  <2>1. \E n \in 1..Len(rs) : First(n)
    BY <1>4
  <2>2. i \in 1..Len(rs) /\ First(i)
    BY <2>1, Zenon
  <2>3. classify_heuristic(p, s, d) = rs[i]
    BY DEF classify_heuristic, rs
  <2> QED
    BY <1>1, <2>2, <2>3
<1>6. i \in {7, 8, 9, 12}
  BY <1>2, <1>5
<1> QED
  BY <1>3, <1>5, <1>6, FewForwardNeedsBackward

-----------------------------------------------------------------------------
(* The verdicts.                                                           *)

VerdictsOK ==
  /\ EntriesOK
  /\ DOMAIN verdict = DOMAIN flow
  /\ AppAgreesWithHint
  /\ VolumeRulesNeedBackward

LEMMA VerdictsInit == ClassifierInit => VerdictsOK
BY DEF ClassifierInit, CaptureInit, VerdictsOK, EntriesOK, AppAgreesWithHint,
       VolumeRulesNeedBackward

\* The hint a flow is classified with is its own, if it has one.
LEMMA HintStays ==
  ASSUME NEW k, flow[k].data.dns_hint # NoHint
  PROVE  HintNow(k) = flow[k].data.dns_hint
BY DEF HintNow, annotate_dns_hint

\* A pass of the classify timer changes the hints, and no counter.
LEMMA PassKeepsCounters ==
  ASSUME EntriesOK, classify_timer_cb
  PROVE  /\ EntriesOK'
         /\ DOMAIN flow' = DOMAIN flow
         /\ \A k \in DOMAIN flow :
              /\ flow'[k].data.dns_hint = HintNow(k)
              /\ flow'[k].data.pkts_bwd = flow[k].data.pkts_bwd
<1>1. flow' = [k \in DOMAIN flow |-> [flow[k] EXCEPT !.data.dns_hint = HintNow(k)]]
  BY DEF classify_timer_cb
<1>2. ASSUME NEW k \in DOMAIN flow
      PROVE  /\ EntryOK(k, flow'[k])
             /\ flow'[k].data.dns_hint = HintNow(k)
             /\ flow'[k].data.pkts_bwd = flow[k].data.pkts_bwd
  <2>1. EntryOK(k, flow[k])
    BY DEF EntriesOK
  <2> DEFINE e == flow[k]
             h == HintNow(k)
  <2>2. flow'[k] = [e EXCEPT !.data.dns_hint = h]
    BY <1>1
  <2> HIDE DEF e, h
  <2>3. flow'[k] = [src_mac |-> e.src_mac, created |-> e.created, last_seen |-> e.last_seen,
                    data |-> [dns_hint |-> h, pkts_fwd |-> e.data.pkts_fwd,
                              pkts_bwd |-> e.data.pkts_bwd]]
    BY <2>1, <2>2 DEF EntryOK, e
  <2> QED
    BY <2>1, <2>3 DEF EntryOK, e, h
<1>3. DOMAIN flow' = DOMAIN flow
  BY <1>1
<1> QED
  BY <1>2, <1>3 DEF EntriesOK

\* What a pass makes of the verdict of one flow.
LEMMA PassJudges ==
  ASSUME VerdictsOK, classify_timer_cb, NEW k \in DOMAIN flow
  PROVE  \/ ~Ready(k) /\ verdict'[k] = verdict[k] /\ HintNow(k) = flow[k].data.dns_hint
         \/ HintNow(k) \in DOMAIN rule /\ verdict'[k] = rule[HintNow(k)]
         \/ /\ HintNow(k) \notin DOMAIN rule
            /\ verdict'[k].app = verdict[k].app
            /\ \/ verdict'[k].cls \in {m.cls : m \in Predictions}
               \/ \E s \in Shapes :
                    verdict'[k].cls = classify_heuristic(ports[k], s, flow[k].data).cls
<1>1. PICK s \in [DOMAIN flow -> Shapes], m \in [DOMAIN flow -> Predictions] :
        verdict' = [j \in DOMAIN flow |->
                      IF Ready(j) THEN Classified(j, HintNow(j), s[j], m[j], verdict[j])
                                  ELSE verdict[j]]
  BY DEF classify_timer_cb
<1>2. CASE ~Ready(k)
  BY <1>1, <1>2 DEF HintNow
<1>3. CASE Ready(k)
  <2>1. verdict'[k] = Classified(k, HintNow(k), s[k], m[k], verdict[k])
    BY <1>1, <1>3
  <2>2. s[k] \in Shapes /\ m[k] \in Predictions
    OBVIOUS
  <2> QED
    BY <2>1, <2>2 DEF Classified
<1> QED
  BY <1>2, <1>3

LEMMA CapturedStep ==
  ASSUME VerdictsOK, Captured
  PROVE  /\ VerdictsOK'
         /\ \A k \in DOMAIN verdict \cap DOMAIN verdict' : verdict'[k] = verdict[k]
<1>1. EntriesOK' /\ EntriesKept
  BY CaptureKeepsEntries DEF Captured, CaptureNext, VerdictsOK
<1>2. /\ DOMAIN verdict = DOMAIN flow /\ DOMAIN verdict' = DOMAIN flow'
      /\ \A k \in DOMAIN flow' :
           verdict'[k] = IF k \in DOMAIN flow THEN verdict[k] ELSE Unclassified
  BY DEF Captured, Carried, VerdictsOK
<1>3. AppAgreesWithHint'
  BY <1>1, <1>2, ClassifierAssumption
  DEF AppAgreesWithHint, VerdictsOK, EntriesKept, Keeps, Unclassified
<1>4. VolumeRulesNeedBackward'
  <2> SUFFICES ASSUME NEW k \in DOMAIN flow', verdict'[k].app = NoApp,
                      verdict'[k].cls \in {"video", "download"} \ {m.cls : m \in Predictions}
               PROVE  flow'[k].data.pkts_bwd > 0
    BY <1>2 DEF VolumeRulesNeedBackward
  <2>1. k \in DOMAIN flow /\ verdict'[k] = verdict[k]
    BY <1>2 DEF Unclassified
  <2>2. flow[k].data.pkts_bwd > 0
    BY <1>2, <2>1 DEF VerdictsOK, VolumeRulesNeedBackward
  <2>3. flow[k].data.pkts_bwd <= flow'[k].data.pkts_bwd
    BY <1>1, <2>1 DEF EntriesKept, Keeps
  <2>4. {flow[k].data.pkts_bwd, flow'[k].data.pkts_bwd} \subseteq Nat
    BY <1>1, <2>1 DEF EntriesOK, EntryOK, VerdictsOK
  <2> QED
    BY <2>2, <2>3, <2>4
<1> QED
  BY <1>1, <1>2, <1>3, <1>4 DEF VerdictsOK

LEMMA PassStep ==
  ASSUME VerdictsOK, classify_timer_cb
  PROVE  /\ VerdictsOK'
         /\ \A k \in DOMAIN verdict \cap DOMAIN verdict' :
              verdict[k].app # NoApp => verdict'[k] = verdict[k]
<1>1. /\ EntriesOK' /\ DOMAIN flow' = DOMAIN flow
      /\ \A k \in DOMAIN flow :
           /\ flow'[k].data.dns_hint = HintNow(k)
           /\ flow'[k].data.pkts_bwd = flow[k].data.pkts_bwd
  BY PassKeepsCounters DEF VerdictsOK
<1>2. DOMAIN verdict = DOMAIN flow /\ DOMAIN verdict' = DOMAIN flow
  BY DEF classify_timer_cb, VerdictsOK
<1>3. ASSUME NEW k \in DOMAIN flow, verdict[k].app # NoApp
      PROVE  /\ HintNow(k) = flow[k].data.dns_hint /\ HintNow(k) \in DOMAIN rule
             /\ verdict[k] = rule[HintNow(k)]
  <2>1. /\ flow[k].data.dns_hint \in DOMAIN rule
        /\ verdict[k] = rule[flow[k].data.dns_hint]
    BY <1>2, <1>3 DEF VerdictsOK, AppAgreesWithHint
  <2>2. flow[k].data.dns_hint # NoHint
    BY <2>1, ClassifierAssumption
  <2> QED
    BY <2>1, <2>2, HintStays
<1>4. ASSUME NEW k \in DOMAIN flow, verdict[k].app # NoApp
      PROVE  verdict'[k] = verdict[k]
  BY <1>3, <1>4, PassJudges
<1>5. ASSUME NEW k \in DOMAIN flow, verdict'[k].app # NoApp
      PROVE  HintNow(k) \in DOMAIN rule /\ verdict'[k] = rule[HintNow(k)]
  BY <1>3, <1>5, PassJudges
<1>6. AppAgreesWithHint'
  BY <1>1, <1>2, <1>5 DEF AppAgreesWithHint
<1>7. ASSUME NEW k \in DOMAIN flow, verdict'[k].app = NoApp,
             verdict'[k].cls \in {"video", "download"} \ {m.cls : m \in Predictions}
      PROVE  flow[k].data.pkts_bwd > 0
  <2>1. {flow[k].data.pkts_fwd, flow[k].data.pkts_bwd} \subseteq Nat
    BY DEF VerdictsOK, EntriesOK, EntryOK
  <2>2. CASE verdict'[k] = verdict[k]
    BY <1>2, <1>7, <2>2 DEF VerdictsOK, VolumeRulesNeedBackward
  <2>3. CASE HintNow(k) \in DOMAIN rule /\ verdict'[k] = rule[HintNow(k)]
    <3>1. rule[HintNow(k)].app \in Apps
      BY <2>3, ClassifierAssumption
    <3> QED
      BY <1>7, <2>3, <3>1, ClassifierAssumption
  <2>4. ASSUME NEW s \in Shapes,
               verdict'[k].cls = classify_heuristic(ports[k], s, flow[k].data).cls
        PROVE  flow[k].data.pkts_bwd > 0
    BY <1>7, <2>1, <2>4, VolumeRules
  <2> QED
    BY <1>7, <2>2, <2>3, <2>4, PassJudges
<1>8. VolumeRulesNeedBackward'
  BY <1>1, <1>2, <1>7 DEF VolumeRulesNeedBackward
<1> QED
  BY <1>1, <1>2, <1>4, <1>6, <1>8 DEF VerdictsOK

LEMMA VerdictsStep == VerdictsOK /\ [ClassifierNext]_classifierVars => VerdictsOK'
<1> SUFFICES ASSUME VerdictsOK, [ClassifierNext]_classifierVars PROVE VerdictsOK'
  OBVIOUS
<1>1. CASE UNCHANGED classifierVars
  BY <1>1 DEF classifierVars, VerdictsOK, EntriesOK, AppAgreesWithHint,
              VolumeRulesNeedBackward
<1> QED
  BY <1>1, CapturedStep, PassStep DEF ClassifierNext

\* app_name, written by the domain phase only and never cleared (classifier.c,
\* classifier_classify_flow), always belongs to the class beside it, for every
\* rule table and every model.
THEOREM AppIsTheRules == ClassifierSpec => []AppAgreesWithHint
<1>1. VerdictsOK => AppAgreesWithHint
  BY DEF VerdictsOK
<1> QED
  BY VerdictsInit, VerdictsStep, <1>1, PTL DEF ClassifierSpec

\* A verdict that comes from a name is kept for the life of the entry (annotate_
\* dns_hint never replaces a hint, the domain phase comes first in every pass).
THEOREM NamedVerdictIsKept == ClassifierSpec => DomainVerdictSticks
<1>1. VerdictsOK /\ [ClassifierNext]_classifierVars =>
        [\A k \in DOMAIN verdict \cap DOMAIN verdict' :
           verdict[k].app # NoApp => verdict'[k] = verdict[k]]_classifierVars
  BY CapturedStep, PassStep DEF ClassifierNext
<1> QED
  BY VerdictsInit, VerdictsStep, <1>1, PTL DEF ClassifierSpec, DomainVerdictSticks

\* Without a name or a model that says so, only flows with packets of a second
\* sender are called video or download (classify_heuristic, its forward ratio).
THEOREM VolumeNeedsSecondSender == ClassifierSpec => []VolumeRulesNeedBackward
<1>1. VerdictsOK => VolumeRulesNeedBackward
  BY DEF VerdictsOK
<1> QED
  BY VerdictsInit, VerdictsStep, <1>1, PTL DEF ClassifierSpec

=============================================================================
