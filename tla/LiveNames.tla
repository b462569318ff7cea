----------------------------- MODULE LiveNames -----------------------------
(***************************************************************************)
(* What the DNS cache promises to the capture path and the classifier: a   *)
(* set of names in force, each until its own deadline.  No chains, no      *)
(* sweeps, no dead entries; what the cache has no room for is not learnt.  *)
(***************************************************************************)
EXTENDS Clock

CONSTANTS Ips, Names, Ttls, DNS_TTL_DEFAULT

VARIABLE live     \* the names in force, a function on a subset of Ips

liveVars == <<live, now>>

LiveInit == live = [i \in {} |-> {}] /\ ClockInit

Lifetime(ttl) == IF ttl = 0 THEN DNS_TTL_DEFAULT ELSE ttl

\* Only names that outlast the current second are in force.
InForce(f, t) == [i \in {j \in DOMAIN f : f[j].expires > t} |-> f[i]]

Learn ==
  \E ip \in Ips, name \in Names, ttl \in Ttls :
    LET r == [domain |-> name, expires |-> now + Lifetime(ttl)]
        f == [i \in DOMAIN live \cup {ip} |-> IF i = ip THEN r ELSE live[i]]
    IN  live' = InForce(f, now)

\* Time alone takes names out of force, second by second or, when the clock
\* is set forward, many at once.
Pass ==
  /\ Tick \/ (ClockStep /\ now' > now)
  /\ live' = InForce(live, now')

LiveNext == (Learn /\ UNCHANGED now) \/ Pass

LiveSpec == LiveInit /\ [][LiveNext]_liveVars

=============================================================================
