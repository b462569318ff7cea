------------------------------ MODULE DeviceFp ------------------------------
(***************************************************************************)
(* device_fingerprint.c: what kind of device a MAC belongs to.             *)
(*                                                                         *)
(* Every classify pass takes every tracked flow and adds votes to the      *)
(* record of the flow's source MAC.  Records are never removed, and votes  *)
(* never taken back.  The rule tables are data: dns_rules on names and     *)
(* oui_rules on MACs, the first match already chosen.                      *)
(***************************************************************************)
EXTENDS Integers, Sequences, FiniteSets, FiniteSetsExt, Functions

CONSTANTS
  dns_rules,         \* dns_rules[name]: [type, weight], for names that match one
  oui_rules,         \* oui_rules[mac]: [type, weight], for known vendors
  FP_MAX_DEVICES

VARIABLE devices     \* ctx->devices[0..count-1], each with its oui_applied

\* enum device_type.
Types == 0..9
DEV_UNKNOWN == 0
DEV_IOT == 7

ASSUME FpAssumption ==
  /\ \A r \in Range(dns_rules) \cup Range(oui_rules) :
       r \in [type: Types \ {DEV_UNKNOWN}, weight: Nat \ {0}]
  /\ FP_MAX_DEVICES \in Nat

NewDevice(mac) ==
  [mac |-> mac, votes |-> [t \in Types |-> 0], best_guess |-> DEV_UNKNOWN,
   confidence |-> 0, oui_applied |-> FALSE]

Evidence(devs, mac) == {i \in DOMAIN devs : devs[i].mac = mac}

find_or_create_Evicts(devs, mac) ==
  IF Evidence(devs, mac) # {} THEN devs
  ELSE IF Len(devs) < FP_MAX_DEVICES THEN Append(devs, NewDevice(mac))
  ELSE [devs EXCEPT ![1] = NewDevice(mac)]

\* A full table takes no more devices, for as long as the daemon lives.  (Operators
\* called <definition>_<what> are mutants.)
find_or_create(devs, mac) ==
  IF Evidence(devs, mac) # {} \/ Len(devs) >= FP_MAX_DEVICES THEN devs
  ELSE Append(devs, NewDevice(mac))

Vote(ev, v) == [ev EXCEPT !.votes[v.type] = @ + v.weight]

apply_dns_rules(ev, name) ==
  IF name \in DOMAIN dns_rules THEN Vote(ev, dns_rules[name]) ELSE ev

apply_oui_rules_EachPass(ev) ==
  IF ev.mac \in DOMAIN oui_rules THEN Vote(ev, oui_rules[ev.mac]) ELSE ev

\* The vendor's vote, for a record that has not had it yet.
apply_oui_rules(ev) ==
  LET done == [ev EXCEPT !.oui_applied = TRUE]
  IN  IF ev.oui_applied \/ ev.mac \notin DOMAIN oui_rules THEN done
      ELSE Vote(done, oui_rules[ev.mac])

\* A short UDP flow of small packets.
IotPattern(f) == f.udp /\ f.pkts > 10 /\ f.pkts < 50 /\ f.bytes > 0 /\ f.bytes < 150 * f.pkts

apply_iot_hint(ev, f) ==
  IF IotPattern(f) THEN Vote(ev, [type |-> DEV_IOT, weight |-> 1]) ELSE ev

\* The type with the most votes, the first of equals; its share in percent.
resolve_device(ev) ==
  LET max   == Max(Range(ev.votes))
      total == SumFunction(ev.votes)
      best  == Min({t \in Types : ev.votes[t] = max})
  IN  [ev EXCEPT !.best_guess = best,
                 !.confidence = IF total = 0 THEN 0 ELSE (100 * max) \div total]

\* device_fp_analyze_flow: flow f, whose destination the DNS cache calls
\* dst_domain at this moment.  A name may so vote twice in one pass.
Judged(ev, f, dst_domain) ==
  resolve_device(
    apply_iot_hint(
      apply_oui_rules(
        apply_dns_rules(apply_dns_rules(ev, f.dns_hint), dst_domain)), f))

device_fp_analyze_flow(devs, f, dst_domain) ==
  LET known == find_or_create(devs, f.src_mac)
  IN  [i \in DOMAIN known |->
         IF known[i].mac = f.src_mac THEN Judged(known[i], f, dst_domain) ELSE known[i]]

\* device_fp_get_type, device_fp_get_confidence and the votes behind them.
device_fp_get_type(devs, mac) ==
  IF Evidence(devs, mac) = {} THEN DEV_UNKNOWN
  ELSE devs[CHOOSE i \in Evidence(devs, mac) : TRUE].best_guess

device_fp_get_confidence(devs, mac) ==
  IF Evidence(devs, mac) = {} THEN 0
  ELSE devs[CHOOSE i \in Evidence(devs, mac) : TRUE].confidence

VotesFor(devs, mac, t) ==
  IF Evidence(devs, mac) = {} THEN 0
  ELSE devs[CHOOSE i \in Evidence(devs, mac) : TRUE].votes[t]

=============================================================================
