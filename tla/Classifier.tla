----------------------------- MODULE Classifier -----------------------------
(***************************************************************************)
(* classifier.c and the classify timer, on top of the capture path: every  *)
(* five seconds each tracked flow with enough packets gets a verdict from  *)
(* the first of three phases that has one: the name its address was        *)
(* resolved from, the compiled-in model, the port and statistics rules.    *)
(*                                                                         *)
(* The rule table is data (rule); so is what the model answers             *)
(* (Predictions), which is any member for any flow.  Of the twenty         *)
(* features the heuristic reads four: three are a member of Shapes, the    *)
(* fourth, the forward ratio, is computed from the flow's own counters.    *)
(***************************************************************************)
EXTENDS Capture

CONSTANTS
  Apps,              \* app_name values
  rule,              \* rule[h]: the verdict of the first domain rule h matches
  ports,             \* ports[key]: [src, dst, udp]
  Shapes,            \* [size, pps, bps]: avg size, packets and bytes per second
  Predictions,       \* [cls, conf] the model may answer; {NoModel}: the stub
  MIN_PKTS           \* packets a flow needs to be classified

Classes == {"unknown", "video", "gaming", "social", "browsing", "download",
            "voip", "other"}

NoApp == "none"
NoModel == [cls |-> "unknown", conf |-> 0]

\* The verdict fields of struct flow_entry; confidence in percent.
Verdicts == [cls: Classes, conf: 0..100, app: Apps \cup {NoApp}]
Unclassified == [cls |-> "unknown", conf |-> 0, app |-> NoApp]

ASSUME ClassifierAssumption ==
  /\ NoApp \notin Apps
  /\ \A h \in DOMAIN rule : rule[h] \in [cls: Classes, conf: 0..100, app: Apps]
  /\ NoHint \notin DOMAIN rule
  /\ ports \in [Keys -> [src: Nat, dst: Nat, udp: BOOLEAN]]
  /\ \A k \in Keys : k.port53 <=> ports[k].udp /\ 53 \in {ports[k].src, ports[k].dst}
  /\ Shapes \subseteq [size: Nat, pps: Nat, bps: Nat]
  /\ Predictions \subseteq [cls: Classes, conf: 0..100]
  /\ MIN_PKTS \in Nat

VARIABLE verdict   \* classification, confidence and app_name of each entry

classifierVars == <<flow, dns, answered, verdict, now>>

-----------------------------------------------------------------------------
(* classify_heuristic: the first rule that fires.                          *)

\* features[14] against a percentage.
FwdAbove(d, pct) == 100 * d.pkts_fwd > pct * Pkts(d)
FwdBelow(d, pct) == 100 * d.pkts_fwd < pct * Pkts(d)
Balanced(d) == FwdAbove(d, 25) /\ FwdBelow(d, 75)

R(when, cls, conf) == [when |-> when, cls |-> cls, conf |-> conf]

Rules(p, s, d) ==
  LET either(n) == n \in {p.src, p.dst}
  IN << R(either(53), "browsing", 95),
        R(p.dst \in {123, 161, 5353}, "other", 90),
        R(either(5060) \/ either(5061), "voip", 90),
        R(p.udp /\ s.size > 60 /\ s.size < 300 /\ s.pps > 20 /\ s.pps < 120
            /\ Balanced(d), "voip", 82),
        R(p.udp /\ s.size < 200 /\ s.pps > 30 /\ Balanced(d), "gaming", 72),
        R(p.udp /\ p.dst \in (7000..8000) \cup (27000..28000) \cup {3478, 3479},
          "gaming", 70),
        R(s.bps > 100000 /\ s.size > 1000 /\ FwdBelow(d, 15), "video", 75),
        R(s.bps > 500000 /\ FwdBelow(d, 5), "download", 72),
        R(s.bps > 200000 /\ s.size > 1200 /\ FwdBelow(d, 10), "download", 65),
        R(either(443) /\ s.bps > 5000 /\ s.bps < 100000
            /\ s.size > 200 /\ s.size < 800, "social", 50),
        R(either(443) \/ either(80), "browsing", 55),
        R(p.udp /\ either(443) /\ s.bps > 100000 /\ FwdBelow(d, 15), "video", 65),
        R(p.udp /\ either(443), "browsing", 50),
        R(TRUE, "other", 30) >>

classify_heuristic_Reversed(p, s, d) ==
  LET rs == Rules(p, s, [d EXCEPT !.pkts_fwd = d.pkts_bwd, !.pkts_bwd = d.pkts_fwd])
  IN  rs[CHOOSE i \in 1..Len(rs) : rs[i].when /\ \A j \in 1..i - 1 : ~rs[j].when]

classify_heuristic(p, s, d) ==
  LET rs == Rules(p, s, d)
  IN  rs[CHOOSE i \in 1..Len(rs) : rs[i].when /\ \A j \in 1..i - 1 : ~rs[j].when]

-----------------------------------------------------------------------------
(* classifier_classify_flow: v is the entry's verdict so far; app_name is   *)
(* only written by the domain phase.                                       *)
Classified_KeepsApp(k, hint, s, m, v) ==
  IF hint \in DOMAIN rule /\ v = Unclassified THEN rule[hint]
  ELSE IF m.conf > 40 THEN [cls |-> m.cls, conf |-> m.conf, app |-> v.app]
  ELSE LET h == classify_heuristic(ports[k], s, flow[k].data)
       IN  [cls |-> h.cls, conf |-> h.conf, app |-> v.app]

Classified(k, hint, s, m, v) ==
  IF hint \in DOMAIN rule THEN rule[hint]
  ELSE IF m.conf > 40 THEN [cls |-> m.cls, conf |-> m.conf, app |-> v.app]
  ELSE LET h == classify_heuristic(ports[k], s, flow[k].data)
       IN  [cls |-> h.cls, conf |-> h.conf, app |-> v.app]

Ready_ForwardOnly(k) == flow[k].data.pkts_fwd >= MIN_PKTS

Ready(k) == Pkts(flow[k].data) >= MIN_PKTS

\* The hint a flow is classified with: a flow still without one asks the cache.
HintNow(k) ==
  IF Ready(k) THEN annotate_dns_hint(k, flow[k].data.dns_hint, dns)
              ELSE flow[k].data.dns_hint

\* classify_timer_cb, for what classify_flow_cb does to the flows themselves.
classify_timer_cb ==
  /\ \E s \in [DOMAIN flow -> Shapes], m \in [DOMAIN flow -> Predictions] :
       verdict' = [k \in DOMAIN flow |->
                     IF Ready(k) THEN Classified(k, HintNow(k), s[k], m[k], verdict[k])
                                 ELSE verdict[k]]
  /\ flow' = [k \in DOMAIN flow |-> [flow[k] EXCEPT !.data.dns_hint = HintNow(k)]]
  /\ UNCHANGED <<dns, answered, now>>

-----------------------------------------------------------------------------
\* A new entry is zeroed; a freed one takes its verdict with it.
Carried ==
  verdict' = [k \in DOMAIN flow' |->
                IF k \in DOMAIN flow THEN verdict[k] ELSE Unclassified]

Captured == (Packet \/ expire_timer_cb \/ Time) /\ Carried

ClassifierInit == CaptureInit /\ verdict = [k \in {} |-> Unclassified]

ClassifierNext == Captured \/ classify_timer_cb

ClassifierSpec == ClassifierInit /\ [][ClassifierNext]_classifierVars

\* The classify timer re-arms itself at the end of its callback.
ClassifierFairSpec == ClassifierSpec /\ WF_classifierVars(classify_timer_cb)

-----------------------------------------------------------------------------

\* A flow that shows an application name shows the class and the confidence of
\* that application's rule for the flow's own hint: app_name, written by one
\* phase of three and never cleared, is never left beside another's class.
AppAgreesWithHint ==
  \A k \in DOMAIN verdict :
    verdict[k].app # NoApp =>
      /\ flow[k].data.dns_hint \in DOMAIN rule
      /\ verdict[k] = rule[flow[k].data.dns_hint]

\* Once named, a flow keeps its class for the life of its entry, whatever the
\* DNS cache learns about, or forgets of, its addresses in the meantime.
DomainVerdictSticks ==
  [][\A k \in DOMAIN verdict \cap DOMAIN verdict' :
       verdict[k].app # NoApp => verdict'[k] = verdict[k]]_classifierVars

\* The heuristic rules call only a flow that counted packets of a second sender
\* video or download: those rules need a forward ratio below 0.15, and an entry's
\* first packet is always forward.  Of a class that the model may answer this says
\* nothing: a verdict does not tell which of the two gave it.
VolumeRulesNeedBackward ==
  \A k \in DOMAIN verdict :
    /\ verdict[k].app = NoApp
    /\ verdict[k].cls \in {"video", "download"} \ {m.cls : m \in Predictions}
    => flow[k].data.pkts_bwd > 0

\* A flow with enough packets gets a verdict, unless it is forgotten first.
EventuallyClassified ==
  \A k \in Keys :
    (k \in DOMAIN flow /\ Pkts(flow[k].data) >= MIN_PKTS) ~>
      (k \notin DOMAIN flow \/ verdict[k] # Unclassified)

\* README.md:94 "DNS domain match (highest priority)": a flow whose name, as it
\* was answered, matches a domain rule is classified by that rule.
DomainMatchWins ==
  [][\A k \in DOMAIN verdict \cap DOMAIN verdict' :
       verdict'[k] # verdict[k] /\ flow'[k].data.dns_hint # NoHint =>
         \E p \in answered :
           /\ p[1] \in {k.src, k.dst} /\ cut[p[2]] = flow'[k].data.dns_hint
           /\ p[2] \in DOMAIN rule => verdict'[k] = rule[p[2]]]_classifierVars

=============================================================================
