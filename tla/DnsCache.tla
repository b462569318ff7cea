------------------------------ MODULE DnsCache ------------------------------
(***************************************************************************)
(* dns_cache.c: which name an address was last resolved from, for as long  *)
(* as the answer's TTL allows.                                             *)
(*                                                                         *)
(* The same chained table as FlowTable's, with two differences that        *)
(* matter: an insert looks the address up itself and overwrites what it    *)
(* finds (even when the cache is full), and an entry past its deadline is  *)
(* hidden from lookups before a sweep removes it, so it still takes room.  *)
(***************************************************************************)
EXTENDS Clock, FiniteSets

CONSTANTS
  Ips,               \* IPv4-mapped and IPv6 addresses
  Names,             \* domains, as cut to DNS_MAX_DOMAIN
  Ttls,              \* TTLs an answer may carry
  DnsBuckets,        \* 0..DNS_CACHE_BUCKETS-1
  dns_ip_hash,       \* the bucket of an address
  dns_max_entries,   \* DNS_MAX_ENTRIES
  DNS_TTL_DEFAULT,
  AnswerHorizon      \* bound: no answer arrives after this second

ASSUME DnsCacheAssumption ==
  /\ dns_ip_hash \in [Ips -> DnsBuckets]
  /\ dns_max_entries \in Nat
  /\ Ttls \subseteq Nat
  /\ DNS_TTL_DEFAULT \in Nat
  /\ AnswerHorizon \in Nat

VARIABLES
  dnsBuckets,        \* the chains
  dnsCount           \* dc->count

dnsVars == <<dnsBuckets, dnsCount, now>>

DnsEntries == [ip: Ips, domain: Names, expires: Nat]

Cached == UNION {dnsBuckets[b] : b \in DnsBuckets}

FindIp(ip) == {e \in dnsBuckets[dns_ip_hash[ip]] : e.ip = ip}

Expiry_NoDefault(ttl) == now + ttl

Expiry(ttl) == now + (IF ttl > 0 THEN ttl ELSE DNS_TTL_DEFAULT)

DnsEntry(ip, name, ttl) == [ip |-> ip, domain |-> name, expires |-> Expiry(ttl)]

Dead(e) == e.expires <= now

-----------------------------------------------------------------------------
dns_cache_create ==
  /\ dnsBuckets = [b \in DnsBuckets |-> {}]
  /\ dnsCount = 0

\* The addresses with a name now: what dns_cache_lookup returns one for.
Named(ip) == {e \in FindIp(ip) : e.expires > now}

\* An answer for a known address replaces its name and deadline in place; one
\* for a new address takes a place, if there is one (and memory for it).
Overwrite_KeepsOld(ip, name, ttl) ==
  /\ FindIp(ip) # {}
  /\ dnsBuckets' = [dnsBuckets EXCEPT ![dns_ip_hash[ip]] =
                      @ \cup {DnsEntry(ip, name, ttl)}]
  /\ UNCHANGED dnsCount
Overwrite_Counts(ip, name, ttl) ==
  /\ FindIp(ip) # {}
  /\ dnsBuckets' = [dnsBuckets EXCEPT ![dns_ip_hash[ip]] =
                      (@ \ FindIp(ip)) \cup {DnsEntry(ip, name, ttl)}]
  /\ dnsCount' = dnsCount + 1

Overwrite(ip, name, ttl) ==
  /\ FindIp(ip) # {}
  /\ dnsBuckets' = [dnsBuckets EXCEPT ![dns_ip_hash[ip]] =
                      (@ \ FindIp(ip)) \cup {DnsEntry(ip, name, ttl)}]
  /\ UNCHANGED dnsCount

Remember(ip, name, ttl) ==
  /\ FindIp(ip) = {}
  /\ dnsCount < dns_max_entries
  /\ dnsBuckets' = [dnsBuckets EXCEPT ![dns_ip_hash[ip]] =
                      @ \cup {DnsEntry(ip, name, ttl)}]
  /\ dnsCount' = dnsCount + 1

Ignore(ip) ==
  /\ FindIp(ip) = {}
  /\ UNCHANGED <<dnsBuckets, dnsCount>>

dns_cache_insert(ip, name, ttl) ==
  Overwrite(ip, name, ttl) \/ Remember(ip, name, ttl) \/ Ignore(ip)

dns_cache_expire_Leaks ==
  /\ dnsBuckets' = [b \in DnsBuckets |-> {e \in dnsBuckets[b] : ~Dead(e)}]
  /\ UNCHANGED dnsCount

dns_cache_expire ==
  LET dead == {e \in Cached : Dead(e)}
  IN  /\ dnsBuckets' = [b \in DnsBuckets |-> dnsBuckets[b] \ dead]
      /\ dnsCount' = dnsCount - Cardinality(dead)

-----------------------------------------------------------------------------
\* An answer record for an A or AAAA name, seen by dns_cache_parse_response.
Answer ==
  /\ now <= AnswerHorizon
  /\ \E ip \in Ips, name \in Names, ttl \in Ttls : dns_cache_insert(ip, name, ttl)
  /\ UNCHANGED now

DnsExpire == dns_cache_expire /\ UNCHANGED now

DnsTime == (Tick \/ ClockStep) /\ UNCHANGED <<dnsBuckets, dnsCount>>

DnsInit == dns_cache_create /\ ClockInit

DnsNext == Answer \/ DnsExpire \/ DnsTime

DnsSpec == DnsInit /\ [][DnsNext]_dnsVars

\* The expiry timer re-arms itself, and time passes.
DnsFairSpec == DnsSpec /\ WF_dnsVars(DnsExpire) /\ WF_dnsVars(DnsTime)

-----------------------------------------------------------------------------
\* Every chain holds cache entries, and the counter is a count.
DnsTypeOK ==
  /\ dnsBuckets \in [DnsBuckets -> SUBSET DnsEntries]
  /\ dnsCount \in Nat
  /\ now \in Times

\* An address has one entry: with two, a lookup could return the older name.
OneEntryPerIp ==
  \A e, f \in Cached : e.ip = f.ip => e = f

\* A cached address is on the chain its lookup walks.
OnItsDnsChain ==
  \A b \in DnsBuckets : \A e \in dnsBuckets[b] : dns_ip_hash[e.ip] = b

\* The counter of the admission test is the number of entries, whatever the
\* mix of overwrites, refusals at the limit and sweeps.
DnsCountExact ==
  /\ IsFiniteSet(Cached)
  /\ dnsCount = Cardinality(Cached)
  /\ dnsCount <= dns_max_entries

DnsInv == DnsTypeOK /\ OneEntryPerIp /\ OnItsDnsChain /\ DnsCountExact

\* What the lookups would return now, as a map from addresses to names.
Served == UNION {Named(ip) : ip \in Ips}

Verdict(e) == [domain |-> e.domain, expires |-> e.expires]

NamesOf(S) ==
  [ip \in {e.ip : e \in S} |-> Verdict(CHOOSE e \in S : e.ip = ip)]

liveBar == NamesOf(Served)

Live == INSTANCE LiveNames WITH live <- liveBar

\* While no correction sets the clock back, a lookup returns the latest answer taken for the
\* address and only until that answer's deadline: sweeps cannot be seen.
ServesLiveNames == Live!LiveSpec

\* A cache that is full does not stay full: the counter comes down again once
\* the deadlines have passed, so new names are learnt again.
FullCacheDrains == (dnsCount >= dns_max_entries) ~> (dnsCount < dns_max_entries)

=============================================================================
