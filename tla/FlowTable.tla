----------------------------- MODULE FlowTable -----------------------------
(***************************************************************************)
(* flow_table.c: the chained hash table of active flows.                   *)
(*                                                                         *)
(* A bucket is the set of the entries on its chain: what the properties    *)
(* tell apart is which chain an entry is on, never its place on the chain  *)
(* (ChainSweep models the chain itself).  The table trusts its caller to   *)
(* look a flow up before it inserts it, and keeps its own count beside the *)
(* chains; both are what can go wrong here.                                *)
(*                                                                         *)
(* An entry's counters, DNS hint and class are opaque here (data): the     *)
(* table only hands out a pointer through which its callers write them.    *)
(***************************************************************************)
EXTENDS Clock, FiniteSets

CONSTANTS
  Keys,              \* struct flow_key: the 5-tuples
  Macs,              \* sender addresses
  Data,              \* what the callers keep in an entry
  Buckets,           \* 0..FLOW_TABLE_SIZE-1
  flow_hash,         \* the bucket of a key
  max_entries,       \* -n max_flows
  FLOW_TIMEOUT_SEC,
  PacketHorizon      \* bound: no packet arrives after this second

ASSUME FlowTableAssumption ==
  /\ flow_hash \in [Keys -> Buckets]
  /\ max_entries \in Nat
  /\ FLOW_TIMEOUT_SEC \in Nat
  /\ PacketHorizon \in Nat

VARIABLES
  buckets,           \* the chains
  count              \* ft->count

tableVars == <<buckets, count, now>>

Entries == [key: Keys, src_mac: Macs, created: Times, last_seen: Times,
            data: Data]

Stored == UNION {buckets[b] : b \in Buckets}

\* Definitions named <definition>_<what> are mutants: plausible bugs the runs
\* are tested against.  No model uses them.

Stale_SinceCreated(e) == e.last_seen - e.created > FLOW_TIMEOUT_SEC

Stale(e) == now - e.last_seen > FLOW_TIMEOUT_SEC

lookup_LiveOnly(key) ==
  {e \in buckets[flow_hash[key]] : e.key = key /\ ~Stale(e)}

lookup(key) == {e \in buckets[flow_hash[key]] : e.key = key}

Put(e) == [buckets EXCEPT ![flow_hash[e.key]] = @ \cup {e}]

NewEntry(key, mac, d) ==
  [key |-> key, src_mac |-> mac, created |-> now, last_seen |-> now, data |-> d]

Stamped(e, d) == [e EXCEPT !.last_seen = now, !.data = d]

-----------------------------------------------------------------------------
flow_table_create ==
  /\ buckets = [b \in Buckets |-> {}]
  /\ count = 0

flow_table_insert_OffByOne(key, mac, d) ==
  /\ count <= max_entries
  /\ buckets' = Put(NewEntry(key, mac, d))
  /\ count' = count + 1

flow_table_insert(key, mac, d) ==
  /\ count < max_entries
  /\ buckets' = Put(NewEntry(key, mac, d))
  /\ count' = count + 1

\* A caller writes through the pointer lookup gave it.
WriteEntry(e, new) ==
  /\ buckets' = [buckets EXCEPT ![flow_hash[e.key]] = (@ \ {e}) \cup {new}]
  /\ UNCHANGED count

flow_table_expire_Sooner ==
  LET stale == {e \in Stored : now - e.last_seen >= FLOW_TIMEOUT_SEC}
  IN  /\ buckets' = [b \in Buckets |-> buckets[b] \ stale]
      /\ count' = count - Cardinality(stale)
flow_table_expire_Twice ==
  LET stale == {e \in Stored : Stale(e)}
  IN  /\ buckets' = [b \in Buckets |-> buckets[b] \ stale]
      /\ count' = count - 2 * Cardinality(stale)

flow_table_expire ==
  LET stale == {e \in Stored : Stale(e)}
  IN  /\ buckets' = [b \in Buckets |-> buckets[b] \ stale]
      /\ count' = count - Cardinality(stale)

\* The callback may rewrite the data of every entry it is handed.
flow_table_for_each(f) ==
  /\ buckets' = [b \in Buckets |->
                   {[e EXCEPT !.data = f[e.key]] : e \in buckets[b]}]
  /\ UNCHANGED count

-----------------------------------------------------------------------------
\* process_packet's use of the table: look up, insert on a miss, stamp the
\* entry.  A miss may also find no room (or no memory): the packet is dropped.
Refresh(key) ==
  \E e \in lookup(key), d \in Data :
    WriteEntry(e, Stamped(e, d))

Admit(key, mac) ==
  /\ lookup(key) = {}
  /\ \E d \in Data : flow_table_insert(key, mac, d)

Drop(key) ==
  /\ lookup(key) = {}
  /\ UNCHANGED <<buckets, count>>

Packet ==
  /\ now <= PacketHorizon
  /\ \E key \in Keys, mac \in Macs : Refresh(key) \/ Admit(key, mac) \/ Drop(key)
  /\ UNCHANGED now

Expire == flow_table_expire /\ UNCHANGED now

Visit ==
  /\ \E f \in [Keys -> Data] : flow_table_for_each(f)
  /\ UNCHANGED now

Time == (Tick \/ ClockStep) /\ UNCHANGED <<buckets, count>>

Init == flow_table_create /\ ClockInit

Next == Packet \/ Expire \/ Visit \/ Time

Spec == Init /\ [][Next]_tableVars

\* uloop re-arms the expiry timer at the end of every callback; time passes,
\* and is set back finitely often.
FairSpec ==
  /\ Spec
  /\ WF_tableVars(Expire) /\ WF_tableVars(Tick /\ UNCHANGED <<buckets, count>>)
  /\ <>[][now' > now]_now

-----------------------------------------------------------------------------
\* Every chain holds flow entries, and the counter is a count.
TypeOK ==
  /\ buckets \in [Buckets -> SUBSET Entries]
  /\ count \in Nat
  /\ now \in Times

\* No flow has two entries, wherever their chains are: a second entry would
\* split the flow's counters and the older one would age out under it.
OneEntryPerFlow ==
  \A e, f \in Stored : e.key = f.key => e = f

\* A stored flow is on the chain its lookup walks.
OnItsChain ==
  \A b \in Buckets : \A e \in buckets[b] : flow_hash[e.key] = b

\* The counter the admission test reads is the number of entries on the
\* chains, after any interleaving of admissions, drops and sweeps: a counter
\* that drifts up closes the table for ever, one that drifts down (or wraps
\* below zero, it is unsigned) lets it outgrow max_entries.
CountExact ==
  /\ IsFiniteSet(Stored)
  /\ count = Cardinality(Stored)
  /\ count <= max_entries

\* The inductive invariant.
TableInv == TypeOK /\ OneEntryPerFlow /\ OnItsChain /\ CountExact

\* What the map keeps of an entry, and the map a set of entries stands for.
Fields(e) ==
  [src_mac |-> e.src_mac, created |-> e.created, last_seen |-> e.last_seen,
   data |-> e.data]

MapOf(S) ==
  [k \in {e.key : e \in S} |-> Fields(CHOOSE e \in S : e.key = k)]

flowBar == MapOf(Stored)

Map == INSTANCE FlowMap WITH flow <- flowBar

\* Seen through lookup, insert, expire and for_each, the chains and the counter
\* are one bounded map: every step of the table is a step of FlowMap or none.
IsAMap == Map!MapSpec

Tracked(key) == \E e \in Stored : e.key = key

\* A flow that stops is forgotten: nothing keeps its entry alive, even when it
\* shares a chain with a busy flow or filled the table's last place.
IdleFlowForgotten == \A key \in Keys : Tracked(key) ~> ~Tracked(key)

=============================================================================
