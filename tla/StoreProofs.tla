----------------------------- MODULE StoreProofs ----------------------------
(***************************************************************************)
(* The two hash tables.  For every set of keys, every hash function and    *)
(* every capacity: the chains and the counter of flow_table.c stay         *)
(* consistent, and the table implements the map of FlowMap.  The same of   *)
(* dns_cache.c's chains and counter; and with a clock that is never set,   *)
(* the names it serves are those of LiveNames, sweeps or no sweeps.  The   *)
(* sweep of a chain, link by link, is correct for any chain.               *)
(***************************************************************************)
EXTENDS FlowTable, ChainSweep, DnsCache, FiniteSetTheorems, TLAPS

(***************************************************************************)
(* What is stored after a bucket was rewritten.                            *)
(***************************************************************************)
LEMMA StoredIff ==
  ASSUME NEW e
  PROVE  e \in Stored <=> \E b \in Buckets : e \in buckets[b]
BY DEF Stored

\* A lookup that misses has seen every entry of the key, not only its chain.
LEMMA MissIsAbsence ==
  ASSUME TypeOK, OnItsChain, NEW key \in Keys, lookup(key) = {}
  PROVE  \A e \in Stored : e.key # key
BY FlowTableAssumption DEF TypeOK, OnItsChain, lookup, Stored

LEMMA InitInv == Init => TableInv
<1> SUFFICES ASSUME Init PROVE TableInv
  OBVIOUS
<1> USE FlowTableAssumption, ClockAssumption DEF Init, flow_table_create, ClockInit
<1>1. Stored = {}
  BY DEF Stored
<1>2. TypeOK
  BY DEF TypeOK, Times
<1>3. CountExact
  BY <1>1, FS_EmptySet DEF CountExact
<1> QED
  BY <1>1, <1>2, <1>3 DEF TableInv, OneEntryPerFlow, OnItsChain

\* What an admission and a refresh do to the set of stored entries.
LEMMA AdmitStores ==
  ASSUME TableInv, NEW key \in Keys, NEW mac \in Macs, NEW d \in Data,
         flow_table_insert(key, mac, d)
  PROVE  /\ NewEntry(key, mac, d) \in Entries
         /\ Stored' = Stored \cup {NewEntry(key, mac, d)}
<1> USE FlowTableAssumption
<1> DEFINE e == NewEntry(key, mac, d)
<1>1. e \in Entries /\ e.key = key
  BY DEF TableInv, TypeOK, NewEntry, Entries
<1> HIDE DEF e
<1>2. buckets' = [buckets EXCEPT ![flow_hash[key]] = @ \cup {e}]
  BY <1>1 DEF flow_table_insert, Put, e
<1>3. Stored' = Stored \cup {e}
  BY <1>2 DEF Stored, TableInv, TypeOK
<1> QED
  BY <1>1, <1>3 DEF e

LEMMA RefreshStores ==
  ASSUME TableInv, NEW key \in Keys, NEW e \in lookup(key), NEW new \in Entries,
         new.key = key, WriteEntry(e, new)
  PROVE  /\ e \in Stored /\ e \in Entries /\ e.key = key
         /\ e \in buckets[flow_hash[key]]
         /\ Stored' = (Stored \ {e}) \cup {new}
<1> USE FlowTableAssumption
<1>1. /\ e \in buckets[flow_hash[key]] /\ e.key = key
      /\ e \in Entries /\ e \in Stored
  BY DEF lookup, TableInv, TypeOK, Stored
<1>2. buckets' = [buckets EXCEPT ![flow_hash[key]] = (@ \ {e}) \cup {new}]
  BY <1>1 DEF WriteEntry
<1>3. Stored' = (Stored \ {e}) \cup {new}
  BY <1>1, <1>2 DEF Stored, TableInv, TypeOK, OnItsChain
<1> QED
  BY <1>1, <1>3

LEMMA ExpireStores ==
  ASSUME Expire
  PROVE  Stored' = Stored \ {e \in Stored : Stale(e)}
BY DEF Expire, flow_table_expire, Stored

LEMMA VisitStores ==
  ASSUME NEW f \in [Keys -> Data], flow_table_for_each(f)
  PROVE  Stored' = {[e EXCEPT !.data = f[e.key]] : e \in Stored}
BY DEF flow_table_for_each, Stored

LEMMA AdmitInv ==
  ASSUME TableInv, NEW key \in Keys, NEW mac \in Macs, Admit(key, mac), UNCHANGED now
  PROVE  TableInv'
<1> USE FlowTableAssumption
<1>1. PICK d \in Data : flow_table_insert(key, mac, d)
  BY DEF Admit
<1> DEFINE e == NewEntry(key, mac, d)
<1>2. e \in Entries /\ e.key = key
  BY DEF TableInv, TypeOK, NewEntry, Entries
<1> HIDE DEF e
<1>3. /\ buckets' = [buckets EXCEPT ![flow_hash[key]] = @ \cup {e}]
      /\ count' = count + 1
      /\ count < max_entries
  BY <1>1, <1>2 DEF flow_table_insert, Put, e
<1>4. Stored' = Stored \cup {e}
  BY <1>1, AdmitStores DEF e
<1>5. \A f \in Stored : f.key # key
  BY MissIsAbsence DEF Admit, TableInv
<1>6. TypeOK'
  BY <1>2, <1>3 DEF TableInv, TypeOK
<1>7. OneEntryPerFlow'
  BY <1>2, <1>4, <1>5 DEF TableInv, OneEntryPerFlow
<1>8. OnItsChain'
  BY <1>2, <1>3 DEF TableInv, TypeOK, OnItsChain
<1>9. CountExact'
  <2>1. e \notin Stored
    BY <1>2, <1>5
  <2> QED
    BY <1>3, <1>4, <2>1, FS_AddElement DEF TableInv, TypeOK, CountExact
<1> QED
  BY <1>6, <1>7, <1>8, <1>9 DEF TableInv

\* An entry rewritten in place keeps its key, so nothing moves.
LEMMA RefreshInv ==
  ASSUME TableInv, NEW key \in Keys, Refresh(key), UNCHANGED now
  PROVE  TableInv'
<1> USE FlowTableAssumption
<1>1. PICK e \in lookup(key), d \in Data :
        WriteEntry(e, Stamped(e, d))
  BY DEF Refresh
<1> DEFINE new == Stamped(e, d)
<1>2. e \in Entries /\ e.key = key
  BY DEF lookup, TableInv, TypeOK
<1>3. new \in Entries /\ new.key = key
  BY <1>2 DEF Entries, Stamped, TableInv, TypeOK
<1>4. /\ buckets' = [buckets EXCEPT ![flow_hash[key]] = (@ \ {e}) \cup {new}]
      /\ count' = count
  BY <1>1, <1>2 DEF WriteEntry
<1>5. /\ Stored' = (Stored \ {e}) \cup {new}
      /\ e \in Stored
  BY <1>1, <1>3, RefreshStores
<1> HIDE DEF new
<1>6. TypeOK'
  BY <1>3, <1>4 DEF TableInv, TypeOK
<1>7. OneEntryPerFlow'
  BY <1>2, <1>3, <1>5 DEF TableInv, OneEntryPerFlow
<1>8. OnItsChain'
  BY <1>2, <1>3, <1>4 DEF TableInv, TypeOK, OnItsChain
<1>9. CountExact'
  <2>1. new \notin Stored \ {e}
    BY <1>2, <1>3, <1>5 DEF TableInv, OneEntryPerFlow
  <2>2. /\ IsFiniteSet(Stored \ {e})
        /\ Cardinality(Stored \ {e}) = Cardinality(Stored) - 1
    BY <1>5, FS_RemoveElement DEF TableInv, CountExact
  <2>3. /\ IsFiniteSet(Stored')
        /\ Cardinality(Stored') = Cardinality(Stored \ {e}) + 1
    BY <1>5, <2>1, <2>2, FS_AddElement
  <2>4. Cardinality(Stored) \in Nat
    BY FS_CardinalityType DEF TableInv, CountExact
  <2> QED
    BY <1>4, <2>2, <2>3, <2>4 DEF TableInv, CountExact
<1> QED
  BY <1>6, <1>7, <1>8, <1>9 DEF TableInv

LEMMA ExpireInv ==
  ASSUME TableInv, Expire
  PROVE  TableInv'
<1> USE FlowTableAssumption
<1> DEFINE old == {e \in Stored : Stale(e)}
<1>1. /\ buckets' = [b \in Buckets |-> buckets[b] \ old]
      /\ count' = count - Cardinality(old)
      /\ now' = now
  BY DEF Expire, flow_table_expire
<1>2. old \subseteq Stored
  OBVIOUS
<1>3. Stored' = Stored \ old
  BY ExpireStores
<1> HIDE DEF old
<1>4. /\ IsFiniteSet(Stored \ old)
      /\ Cardinality(Stored \ old) = Cardinality(Stored) - Cardinality(old)
  <2>1. Stored \cap old = old
    BY <1>2
  <2> QED
    BY <2>1, FS_Difference DEF TableInv, CountExact
<1>5. Cardinality(Stored \ old) \in Nat
  BY <1>4, FS_CardinalityType
<1>6. Cardinality(old) \in Nat
  BY <1>2, FS_Subset, FS_CardinalityType DEF TableInv, CountExact
<1>7. TypeOK'
  BY <1>1, <1>4, <1>5 DEF TableInv, TypeOK, CountExact
<1>8. OneEntryPerFlow'
  BY <1>3 DEF TableInv, OneEntryPerFlow
<1>9. OnItsChain'
  BY <1>1 DEF TableInv, OnItsChain
<1>10. CountExact'
  BY <1>1, <1>3, <1>4, <1>5, <1>6 DEF TableInv, TypeOK, CountExact
<1> QED
  BY <1>7, <1>8, <1>9, <1>10 DEF TableInv

\* A visit rewrites data only: the entries stay one for one, so the count holds.
LEMMA VisitInv ==
  ASSUME TableInv, Visit
  PROVE  TableInv'
<1> USE FlowTableAssumption
<1>1. PICK f \in [Keys -> Data] : flow_table_for_each(f)
  BY DEF Visit
<1> DEFINE new(e) == [e EXCEPT !.data = f[e.key]]
<1>2. /\ buckets' = [b \in Buckets |-> {new(e) : e \in buckets[b]}]
      /\ count' = count
      /\ now' = now
  BY <1>1 DEF flow_table_for_each, Visit
<1>3. \A e \in Entries : new(e) \in Entries /\ new(e).key = e.key
  BY DEF Entries
<1> HIDE DEF new
<1>4. Stored \subseteq Entries
  BY DEF TableInv, TypeOK, Stored
<1>5. Stored' = {new(e) : e \in Stored}
  BY <1>1, VisitStores DEF new
<1>6. TypeOK'
  BY <1>2, <1>3 DEF TableInv, TypeOK
<1>7. OneEntryPerFlow'
  BY <1>3, <1>4, <1>5 DEF TableInv, OneEntryPerFlow
<1>8. OnItsChain'
  BY <1>2, <1>3 DEF TableInv, TypeOK, OnItsChain
<1>9. CountExact'
  <2> DEFINE g == [e \in Stored |-> new(e)]
  <2>1. g \in [Stored -> Stored']
    BY <1>5
  <2>2. \A e, d \in Stored : g[e] = g[d] => e = d
    BY <1>3, <1>4 DEF TableInv, OneEntryPerFlow
  <2>3. \A n \in Stored' : \E e \in Stored : g[e] = n
    BY <1>5
  <2> HIDE DEF g
  <2>4. g \in Bijection(Stored, Stored')
    BY <2>1, <2>2, <2>3 DEF Bijection, Injection, Surjection, IsInjective
  <2>5. ExistsBijection(Stored, Stored')
    BY <2>4 DEF ExistsBijection
  <2>6. IsFiniteSet(Stored') /\ Cardinality(Stored') = Cardinality(Stored)
    BY <2>5, FS_Bijection DEF TableInv, CountExact
  <2> QED
    BY <1>2, <2>6 DEF TableInv, CountExact
<1> QED
  BY <1>6, <1>7, <1>8, <1>9 DEF TableInv

LEMMA TimeInv ==
  ASSUME TableInv, UNCHANGED <<buckets, count>>, now' \in Times
  PROVE  TableInv'
BY DEF TableInv, TypeOK, OneEntryPerFlow, OnItsChain, CountExact, Stored

LEMMA NextInv == TableInv /\ [Next]_tableVars => TableInv'
<1> SUFFICES ASSUME TableInv, [Next]_tableVars PROVE TableInv'
  OBVIOUS
<1>1. CASE Packet
  <2>1. PICK key \in Keys, mac \in Macs : Refresh(key) \/ Admit(key, mac) \/ Drop(key)
    BY <1>1 DEF Packet
  <2>2. UNCHANGED now
    BY <1>1 DEF Packet
  <2>3. CASE Refresh(key)
    BY <2>2, <2>3, RefreshInv
  <2>4. CASE Admit(key, mac)
    BY <2>2, <2>4, AdmitInv
  <2>5. CASE Drop(key)
    BY <2>2, <2>5, TimeInv DEF Drop, TableInv, TypeOK
  <2> QED
    BY <2>1, <2>3, <2>4, <2>5
<1>2. CASE Expire
  BY <1>2, ExpireInv
<1>3. CASE Visit
  BY <1>3, VisitInv
<1>4. CASE Time
  <2>1. now' \in Times
    <3>1. CASE Tick
      BY <3>1, ClockAssumption DEF Tick, Times, TableInv, TypeOK
    <3>2. CASE ClockStep
      BY <3>2, ClockAssumption DEF ClockStep, Times
    <3> QED
      BY <1>4, <3>1, <3>2 DEF Time
  <2> QED
    BY <1>4, <2>1, TimeInv DEF Time
<1>5. CASE UNCHANGED tableVars
  BY <1>5, TimeInv DEF tableVars, TableInv, TypeOK
<1> QED
  BY <1>1, <1>2, <1>3, <1>4, <1>5 DEF Next

(***************************************************************************)
(* The inductive invariant holds in every reachable state, for every       *)
(* capacity, hash function, timeout and however the clock is set.          *)
(***************************************************************************)
THEOREM TableInvariant == Spec => []TableInv
BY InitInv, NextInv, PTL DEF Spec

\* The table's type invariant.
THEOREM TableTypeOK == Spec => []TypeOK
<1>1. TableInv => TypeOK
  BY DEF TableInv
<1> QED
  BY <1>1, TableInvariant, PTL

\* flow_table.c never keeps two entries of one flow.
THEOREM NoFlowTwice == Spec => []OneEntryPerFlow
<1>1. TableInv => OneEntryPerFlow
  BY DEF TableInv
<1> QED
  BY <1>1, TableInvariant, PTL

\* ft->count is the number of entries, and is at most max_entries.
THEOREM CountIsExact == Spec => []CountExact
<1>1. TableInv => CountExact
  BY DEF TableInv
<1> QED
  BY <1>1, TableInvariant, PTL

-----------------------------------------------------------------------------
(***************************************************************************)
(* Refinement.  MapOf is a bijection between sets of entries with one      *)
(* entry per key and maps, so each step is argued on the stored set.       *)
(***************************************************************************)
OnePerKey(S) == \A e, f \in S : e.key = f.key => e = f

LEMMA MapOfAt ==
  ASSUME NEW S, OnePerKey(S), NEW e \in S
  PROVE  e.key \in DOMAIN MapOf(S) /\ MapOf(S)[e.key] = Fields(e)
<1>1. (CHOOSE f \in S : f.key = e.key) = e
  BY DEF OnePerKey
<1>2. e.key \in {f.key : f \in S}
  OBVIOUS
<1> QED
  BY <1>1, <1>2 DEF MapOf

LEMMA MapOfDomain ==
  ASSUME NEW S
  PROVE  DOMAIN MapOf(S) = {e.key : e \in S}
BY DEF MapOf

\* A function that agrees with every entry of S is the map of S.
LEMMA MapOfIs ==
  ASSUME NEW S, OnePerKey(S), NEW G, G = [k \in DOMAIN G |-> G[k]],
         DOMAIN G = {e.key : e \in S}, \A e \in S : G[e.key] = Fields(e)
  PROVE  MapOf(S) = G
<1>1. \A k \in DOMAIN G : MapOf(S)[k] = G[k]
  BY MapOfAt
<1>2. MapOf(S) = [k \in DOMAIN G |-> MapOf(S)[k]]
  BY DEF MapOf
<1> QED
  BY <1>1, <1>2

\* FlowMap counts with its own instance of FiniteSets.
LEMMA SameCardinality == \A S : Map!Cardinality(S) = Cardinality(S)
BY DEF Cardinality, Map!Cardinality

\* The capacity test on the counter is the map's test on its domain.
LEMMA MapSize ==
  ASSUME TableInv
  PROVE  Cardinality(DOMAIN flowBar) = count
<1> DEFINE D == DOMAIN flowBar
<1> DEFINE g == [e \in Stored |-> e.key]
<1>1. D = {e.key : e \in Stored}
  BY MapOfDomain DEF flowBar
<1>2. g \in [Stored -> D]
  BY <1>1
<1>3. \A e, f \in Stored : g[e] = g[f] => e = f
  BY DEF TableInv, OneEntryPerFlow
<1>4. \A k \in D : \E e \in Stored : g[e] = k
  BY <1>1
<1> HIDE DEF g, D
<1>5. g \in Bijection(Stored, D)
  BY <1>2, <1>3, <1>4 DEF Bijection, Injection, Surjection, IsInjective
<1>6. Cardinality(D) = Cardinality(Stored)
  BY <1>5, FS_Bijection DEF ExistsBijection, TableInv, CountExact
<1> QED
  BY <1>6 DEF TableInv, CountExact, D

LEMMA InitIsMap == Init => Map!MapInit
<1> SUFFICES ASSUME Init PROVE Map!MapInit
  OBVIOUS
<1>1. Stored = {}
  BY DEF Init, flow_table_create, Stored
<1>2. flowBar = [k \in {} |-> {}]
  BY <1>1 DEF flowBar, MapOf
<1> QED
  BY <1>2 DEF Init, Map!MapInit, ClockInit, Map!ClockInit

LEMMA AdmitIsOpen ==
  ASSUME TableInv, TableInv', NEW key \in Keys, NEW mac \in Macs,
         Admit(key, mac), UNCHANGED now
  PROVE  Map!Open
<1>1. PICK d \in Data : flow_table_insert(key, mac, d)
  BY DEF Admit
<1> DEFINE n == NewEntry(key, mac, d)
           r == Map!Record(mac, now, d)
           D == DOMAIN flowBar
           G == Map!With(key, r)
<1>2. Stored' = Stored \cup {n}
  BY <1>1, AdmitStores
<1>3. /\ OnePerKey(Stored) /\ OnePerKey(Stored')
      /\ \A e \in Stored : e.key # key
  BY MissIsAbsence DEF Admit, TableInv, OneEntryPerFlow, OnePerKey
<1>4. n.key = key /\ Fields(n) = r
  BY DEF NewEntry, Fields, Map!Record
<1>5. /\ D = {e.key : e \in Stored}
      /\ \A e \in Stored : flowBar[e.key] = Fields(e)
  BY <1>3, MapOfDomain, MapOfAt DEF flowBar
<1>6. /\ DOMAIN G = D \cup {key}
      /\ G = [k \in DOMAIN G |-> G[k]]
      /\ G[key] = r
      /\ \A k \in D \ {key} : G[k] = flowBar[k]
  BY DEF Map!With
<1> HIDE DEF n, r, D, G
<1>7. DOMAIN G = {e.key : e \in Stored'}
  BY <1>2, <1>4, <1>5, <1>6
<1>8. \A e \in Stored' : G[e.key] = Fields(e)
  BY <1>2, <1>3, <1>4, <1>5, <1>6
<1>9. flowBar' = Map!With(key, r)
  BY <1>3, <1>6, <1>7, <1>8, MapOfIs DEF flowBar, G
<1>10. key \in Keys \ D
  BY <1>3, <1>5
<1>11. Map!Cardinality(D) < max_entries
  BY <1>1, MapSize, SameCardinality DEF flow_table_insert, D
<1> QED
  BY <1>9, <1>10, <1>11 DEF Map!Open, D, r

LEMMA RefreshIsRenew ==
  ASSUME TableInv, TableInv', NEW key \in Keys, Refresh(key), UNCHANGED now
  PROVE  Map!Renew
<1>1. PICK e \in lookup(key), d \in Data : WriteEntry(e, Stamped(e, d))
  BY DEF Refresh
<1> DEFINE n == Stamped(e, d)
           r == Map!Record(e.src_mac, e.created, d)
           D == DOMAIN flowBar
           G == Map!With(key, r)
<1>2. e \in Entries /\ e.key = key
  BY FlowTableAssumption DEF lookup, TableInv, TypeOK
<1>3. n \in Entries /\ n.key = key /\ Fields(n) = r
  BY <1>2 DEF Entries, Stamped, Fields, Map!Record, TableInv, TypeOK
<1> HIDE DEF r
<1>4. e \in Stored /\ Stored' = (Stored \ {e}) \cup {n}
  BY <1>1, <1>3, RefreshStores
<1>5. OnePerKey(Stored) /\ OnePerKey(Stored')
  BY DEF TableInv, OneEntryPerFlow, OnePerKey
<1>6. /\ D = {f.key : f \in Stored}
      /\ \A f \in Stored : flowBar[f.key] = Fields(f)
  BY <1>5, MapOfDomain, MapOfAt DEF flowBar
<1>7. /\ DOMAIN G = D \cup {key}
      /\ G = [k \in DOMAIN G |-> G[k]]
      /\ G[key] = r
      /\ \A k \in D \ {key} : G[k] = flowBar[k]
  BY DEF Map!With
<1> HIDE DEF n, D, G
<1>8. DOMAIN G = {f.key : f \in Stored'}
  BY <1>2, <1>3, <1>4, <1>6, <1>7
<1>9. \A f \in Stored \ {e} : f.key # key
  BY <1>2, <1>4, <1>5 DEF OnePerKey
<1>10. \A f \in Stored' : G[f.key] = Fields(f)
  BY <1>3, <1>4, <1>6, <1>7, <1>9
<1>11. flowBar' = G
  BY <1>5, <1>7, <1>8, <1>10, MapOfIs DEF flowBar
<1>12. key \in D /\ flowBar[key] = Fields(e)
  BY <1>2, <1>4, <1>6
<1>13. /\ flowBar[key].src_mac = e.src_mac
       /\ flowBar[key].created = e.created
  BY <1>12 DEF Fields
<1> QED
  BY <1>11, <1>12, <1>13 DEF Map!Renew, D, G, r

LEMMA ExpireIsSweep ==
  ASSUME TableInv, TableInv', Expire
  PROVE  Map!Sweep
<1> DEFINE D == DOMAIN flowBar
           G == [k \in {j \in D : ~Map!Silent(j)} |-> flowBar[k]]
<1>1. Stored' = Stored \ {e \in Stored : Stale(e)}
  BY ExpireStores
<1>2. OnePerKey(Stored) /\ OnePerKey(Stored')
  BY DEF TableInv, OneEntryPerFlow, OnePerKey
<1>3. /\ D = {e.key : e \in Stored}
      /\ \A e \in Stored : flowBar[e.key] = Fields(e)
  BY <1>2, MapOfDomain, MapOfAt DEF flowBar
<1>4. \A e \in Stored : Map!Silent(e.key) <=> Stale(e)
  <2> HIDE DEF D, G
  <2>1. \A e \in Stored : Fields(e).last_seen = e.last_seen
    BY DEF Fields
  <2>2. \A e \in Stored : flowBar[e.key].last_seen = e.last_seen
    BY <1>3, <2>1
  <2> QED
    BY <2>2 DEF Map!Silent, Stale
<1> HIDE DEF D
<1>5. DOMAIN G = {e.key : e \in Stored'}
  BY <1>1, <1>3, <1>4
<1>6. \A e \in Stored' : G[e.key] = Fields(e)
  BY <1>1, <1>3, <1>4
<1>7. flowBar' = G
  BY <1>2, <1>5, <1>6, MapOfIs DEF flowBar
<1> QED
  BY <1>7 DEF Map!Sweep, D

LEMMA VisitIsRewrite ==
  ASSUME TableInv, TableInv', Visit
  PROVE  Map!Rewrite
<1>1. PICK f \in [Keys -> Data] : flow_table_for_each(f)
  BY DEF Visit
<1> DEFINE new(e) == [e EXCEPT !.data = f[e.key]]
           D == DOMAIN flowBar
           G == [k \in D |-> [flowBar[k] EXCEPT !.data = f[k]]]
<1>2. Stored' = {new(e) : e \in Stored}
  BY <1>1, VisitStores
<1>3. OnePerKey(Stored) /\ OnePerKey(Stored')
  BY DEF TableInv, OneEntryPerFlow, OnePerKey
<1>4. /\ D = {e.key : e \in Stored}
      /\ \A e \in Stored : flowBar[e.key] = Fields(e)
  BY <1>3, MapOfDomain, MapOfAt DEF flowBar
<1>5. Stored \subseteq Entries
  BY DEF TableInv, TypeOK, Stored
<1>6. \A e \in Entries :
        new(e).key = e.key /\ Fields(new(e)) = [Fields(e) EXCEPT !.data = f[e.key]]
  BY DEF Entries, Fields
<1> HIDE DEF D, new
<1>7. DOMAIN G = {e.key : e \in Stored'}
  BY <1>2, <1>4, <1>5, <1>6
<1>8. \A e \in Stored' : G[e.key] = Fields(e)
  BY <1>2, <1>4, <1>5, <1>6
<1>9. G = [k \in DOMAIN G |-> G[k]]
  OBVIOUS
<1> HIDE DEF G
<1>10. flowBar' = G
  BY <1>3, <1>7, <1>8, <1>9, MapOfIs DEF flowBar
<1> QED
  BY <1>10 DEF Map!Rewrite, D, G

LEMMA SameStored ==
  ASSUME UNCHANGED buckets
  PROVE  UNCHANGED flowBar
BY DEF flowBar, MapOf, Stored, Fields

LEMMA NextIsMap ==
  TableInv /\ TableInv' /\ [Next]_tableVars => [Map!MapNext]_Map!mapVars
<1> SUFFICES ASSUME TableInv, TableInv', [Next]_tableVars
             PROVE  [Map!MapNext]_Map!mapVars
  OBVIOUS
<1>1. CASE Packet
  <2>1. PICK key \in Keys, mac \in Macs : Refresh(key) \/ Admit(key, mac) \/ Drop(key)
    BY <1>1 DEF Packet
  <2>2. UNCHANGED now
    BY <1>1 DEF Packet
  <2>3. CASE Refresh(key)
    BY <2>2, <2>3, RefreshIsRenew DEF Map!MapNext
  <2>4. CASE Admit(key, mac)
    BY <2>2, <2>4, AdmitIsOpen DEF Map!MapNext
  <2>5. CASE Drop(key)
    BY <2>2, <2>5, SameStored DEF Drop, Map!mapVars
  <2> QED
    BY <2>1, <2>3, <2>4, <2>5
<1>2. CASE Expire
  BY <1>2, ExpireIsSweep DEF Map!MapNext, Expire
<1>3. CASE Visit
  BY <1>3, VisitIsRewrite DEF Map!MapNext, Visit
<1>4. CASE Time
  BY <1>4, SameStored
  DEF Time, Map!MapNext, Tick, ClockStep, Map!Tick, Map!ClockStep
<1>5. CASE UNCHANGED tableVars
  BY <1>5, SameStored DEF tableVars, Map!mapVars
<1> QED
  BY <1>1, <1>2, <1>3, <1>4, <1>5 DEF Next

(***************************************************************************)
(* flow_table.c implements a bounded map: admissions only below the bound, *)
(* and forgetting only in sweeps, of exactly the silent flows.             *)
(***************************************************************************)
THEOREM TableImplementsMap == Spec => IsAMap
<1>1. Init => Map!MapInit
  BY InitIsMap
<1>2. TableInv /\ TableInv' /\ [Next]_tableVars => [Map!MapNext]_Map!mapVars
  BY NextIsMap
<1> QED
  BY <1>1, <1>2, TableInvariant, PTL DEF Spec, IsAMap, Map!MapSpec

-----------------------------------------------------------------------------
(* The DNS cache.                                                          *)

LEMMA DnsInitInv == DnsInit => DnsInv
<1> SUFFICES ASSUME DnsInit PROVE DnsInv
  OBVIOUS
<1> USE DnsCacheAssumption, ClockAssumption DEF DnsInit, dns_cache_create, ClockInit
<1>1. Cached = {}
  BY DEF Cached
<1>2. DnsTypeOK
  BY DEF DnsTypeOK, Times
<1>3. DnsCountExact
  BY <1>1, FS_EmptySet DEF DnsCountExact
<1> QED
  BY <1>1, <1>2, <1>3 DEF DnsInv, OneEntryPerIp, OnItsDnsChain

\* The entry of an answer, and what it means for its address to be absent.
LEMMA DnsEntryType ==
  ASSUME DnsTypeOK, NEW ip \in Ips, NEW name \in Names, NEW ttl \in Ttls
  PROVE  /\ DnsEntry(ip, name, ttl) \in DnsEntries
         /\ DnsEntry(ip, name, ttl).ip = ip
BY DnsCacheAssumption DEF DnsTypeOK, DnsEntry, DnsEntries, Expiry, Times

LEMMA NotFoundIsAbsent ==
  ASSUME DnsTypeOK, OnItsDnsChain, NEW ip \in Ips, FindIp(ip) = {}
  PROVE  \A e \in Cached : e.ip # ip
BY DnsCacheAssumption DEF DnsTypeOK, OnItsDnsChain, FindIp, Cached

\* With one entry per address, what an insert finds is all there is.
LEMMA FoundIsAll ==
  ASSUME DnsInv, NEW ip \in Ips, NEW e \in FindIp(ip)
  PROVE  /\ FindIp(ip) = {e}
         /\ e \in Cached /\ e \in DnsEntries /\ e.ip = ip
         /\ \A f \in Cached \ {e} : f.ip # ip
BY DnsCacheAssumption
DEF DnsInv, DnsTypeOK, OneEntryPerIp, FindIp, Cached

LEMMA OverwriteCaches ==
  ASSUME DnsInv, NEW ip \in Ips, NEW name \in Names, NEW ttl \in Ttls,
         Overwrite(ip, name, ttl), NEW e \in FindIp(ip)
  PROVE  Cached' = (Cached \ {e}) \cup {DnsEntry(ip, name, ttl)}
<1> DEFINE n == DnsEntry(ip, name, ttl)
<1>1. n \in DnsEntries /\ n.ip = ip
  BY DnsEntryType DEF DnsInv
<1> HIDE DEF n
<1>2. FindIp(ip) = {e} /\ e.ip = ip /\ e \in DnsEntries
  BY FoundIsAll
<1>3. dnsBuckets' = [dnsBuckets EXCEPT ![dns_ip_hash[ip]] = (@ \ {e}) \cup {n}]
  BY <1>2 DEF Overwrite, n
<1>4. Cached' = (Cached \ {e}) \cup {n}
  BY <1>1, <1>2, <1>3, DnsCacheAssumption
  DEF Cached, DnsInv, DnsTypeOK, OnItsDnsChain
<1> QED
  BY <1>4 DEF n

LEMMA RememberCaches ==
  ASSUME DnsInv, NEW ip \in Ips, NEW name \in Names, NEW ttl \in Ttls,
         Remember(ip, name, ttl)
  PROVE  Cached' = Cached \cup {DnsEntry(ip, name, ttl)}
<1> DEFINE n == DnsEntry(ip, name, ttl)
<1>1. dnsBuckets' = [dnsBuckets EXCEPT ![dns_ip_hash[ip]] = @ \cup {n}]
  BY DEF Remember
<1> HIDE DEF n
<1>2. Cached' = Cached \cup {n}
  BY <1>1, DnsCacheAssumption DEF Cached, DnsInv, DnsTypeOK
<1> QED
  BY <1>2 DEF n

LEMMA SweepCaches ==
  ASSUME DnsExpire
  PROVE  Cached' = Cached \ {e \in Cached : Dead(e)}
BY DEF DnsExpire, dns_cache_expire, Cached

LEMMA OverwriteInv ==
  ASSUME DnsInv, NEW ip \in Ips, NEW name \in Names, NEW ttl \in Ttls,
         Overwrite(ip, name, ttl), UNCHANGED now
  PROVE  DnsInv'
<1> USE DnsCacheAssumption
<1> DEFINE n == DnsEntry(ip, name, ttl)
<1>1. PICK e \in FindIp(ip) : TRUE
  BY DEF Overwrite
<1>2. n \in DnsEntries /\ n.ip = ip
  BY DnsEntryType DEF DnsInv
<1>3. /\ FindIp(ip) = {e}
      /\ e \in Cached /\ e \in DnsEntries /\ e.ip = ip
      /\ \A f \in Cached \ {e} : f.ip # ip
  BY <1>1, FoundIsAll
<1>4. Cached' = (Cached \ {e}) \cup {n}
  BY <1>1, OverwriteCaches
<1>5. /\ dnsBuckets' = [dnsBuckets EXCEPT ![dns_ip_hash[ip]] = (@ \ {e}) \cup {n}]
      /\ dnsCount' = dnsCount
  BY <1>3 DEF Overwrite
<1> HIDE DEF n
<1>6. DnsTypeOK'
  BY <1>2, <1>5 DEF DnsInv, DnsTypeOK
<1>7. OneEntryPerIp'
  BY <1>2, <1>3, <1>4 DEF DnsInv, OneEntryPerIp
<1>8. OnItsDnsChain'
  BY <1>2, <1>5 DEF DnsInv, DnsTypeOK, OnItsDnsChain
<1>9. DnsCountExact'
  <2>1. n \notin Cached \ {e}
    BY <1>2, <1>3
  <2>2. /\ IsFiniteSet(Cached \ {e})
        /\ Cardinality(Cached \ {e}) = Cardinality(Cached) - 1
    BY <1>3, FS_RemoveElement DEF DnsInv, DnsCountExact
  <2>3. /\ IsFiniteSet(Cached')
        /\ Cardinality(Cached') = Cardinality(Cached \ {e}) + 1
    BY <1>4, <2>1, <2>2, FS_AddElement
  <2>4. Cardinality(Cached) \in Nat
    BY FS_CardinalityType DEF DnsInv, DnsCountExact
  <2> QED
    BY <1>5, <2>2, <2>3, <2>4 DEF DnsInv, DnsCountExact
<1> QED
  BY <1>6, <1>7, <1>8, <1>9 DEF DnsInv

LEMMA RememberInv ==
  ASSUME DnsInv, NEW ip \in Ips, NEW name \in Names, NEW ttl \in Ttls,
         Remember(ip, name, ttl), UNCHANGED now
  PROVE  DnsInv'
<1> USE DnsCacheAssumption
<1> DEFINE n == DnsEntry(ip, name, ttl)
<1>1. n \in DnsEntries /\ n.ip = ip
  BY DnsEntryType DEF DnsInv
<1>2. Cached' = Cached \cup {n}
  BY RememberCaches
<1>3. /\ dnsBuckets' = [dnsBuckets EXCEPT ![dns_ip_hash[ip]] = @ \cup {n}]
      /\ dnsCount' = dnsCount + 1
      /\ dnsCount < dns_max_entries
  BY DEF Remember
<1>4. \A f \in Cached : f.ip # ip
  BY NotFoundIsAbsent DEF Remember, DnsInv
<1> HIDE DEF n
<1>5. DnsTypeOK'
  BY <1>1, <1>3 DEF DnsInv, DnsTypeOK
<1>6. OneEntryPerIp'
  BY <1>1, <1>2, <1>4 DEF DnsInv, OneEntryPerIp
<1>7. OnItsDnsChain'
  BY <1>1, <1>3 DEF DnsInv, DnsTypeOK, OnItsDnsChain
<1>8. DnsCountExact'
  <2>1. n \notin Cached
    BY <1>1, <1>4
  <2> QED
    BY <1>2, <1>3, <2>1, FS_AddElement DEF DnsInv, DnsTypeOK, DnsCountExact
<1> QED
  BY <1>5, <1>6, <1>7, <1>8 DEF DnsInv

LEMMA SweepInv ==
  ASSUME DnsInv, DnsExpire
  PROVE  DnsInv'
<1> USE DnsCacheAssumption
<1> DEFINE dead == {e \in Cached : Dead(e)}
<1>1. /\ dnsBuckets' = [b \in DnsBuckets |-> dnsBuckets[b] \ dead]
      /\ dnsCount' = dnsCount - Cardinality(dead)
      /\ now' = now
  BY DEF DnsExpire, dns_cache_expire
<1>2. dead \subseteq Cached
  OBVIOUS
<1>3. Cached' = Cached \ dead
  BY SweepCaches
<1> HIDE DEF dead
<1>4. /\ IsFiniteSet(Cached \ dead)
      /\ Cardinality(Cached \ dead) = Cardinality(Cached) - Cardinality(dead)
  <2>1. Cached \cap dead = dead
    BY <1>2
  <2> QED
    BY <2>1, FS_Difference DEF DnsInv, DnsCountExact
<1>5. Cardinality(Cached \ dead) \in Nat /\ Cardinality(dead) \in Nat
  BY <1>2, <1>4, FS_Subset, FS_CardinalityType DEF DnsInv, DnsCountExact
<1>6. DnsTypeOK'
  BY <1>1, <1>4, <1>5 DEF DnsInv, DnsTypeOK, DnsCountExact
<1>7. OneEntryPerIp'
  BY <1>3 DEF DnsInv, OneEntryPerIp
<1>8. OnItsDnsChain'
  BY <1>1 DEF DnsInv, OnItsDnsChain
<1>9. DnsCountExact'
  BY <1>1, <1>3, <1>4, <1>5 DEF DnsInv, DnsTypeOK, DnsCountExact
<1> QED
  BY <1>6, <1>7, <1>8, <1>9 DEF DnsInv

LEMMA SameCacheInv ==
  ASSUME DnsInv, UNCHANGED <<dnsBuckets, dnsCount>>, now' \in Times
  PROVE  DnsInv'
BY DEF DnsInv, DnsTypeOK, OneEntryPerIp, OnItsDnsChain, DnsCountExact, Cached

LEMMA DnsTimeType ==
  ASSUME DnsInv, DnsTime
  PROVE  now' \in Times
<1>1. CASE Tick
  BY <1>1, ClockAssumption DEF Tick, Times, DnsInv, DnsTypeOK
<1>2. CASE ClockStep
  BY <1>2, ClockAssumption DEF ClockStep, Times
<1> QED
  BY <1>1, <1>2 DEF DnsTime

LEMMA DnsNextInv == DnsInv /\ [DnsNext]_dnsVars => DnsInv'
<1> SUFFICES ASSUME DnsInv, [DnsNext]_dnsVars PROVE DnsInv'
  OBVIOUS
<1>1. CASE Answer
  <2>1. PICK ip \in Ips, name \in Names, ttl \in Ttls : dns_cache_insert(ip, name, ttl)
    BY <1>1 DEF Answer
  <2>2. UNCHANGED now
    BY <1>1 DEF Answer
  <2>3. CASE Overwrite(ip, name, ttl)
    BY <2>2, <2>3, OverwriteInv
  <2>4. CASE Remember(ip, name, ttl)
    BY <2>2, <2>4, RememberInv
  <2>5. CASE Ignore(ip)
    BY <2>2, <2>5, SameCacheInv DEF Ignore, DnsInv, DnsTypeOK
  <2> QED
    BY <2>1, <2>3, <2>4, <2>5 DEF dns_cache_insert
<1>2. CASE DnsExpire
  BY <1>2, SweepInv
<1>3. CASE DnsTime
  BY <1>3, DnsTimeType, SameCacheInv DEF DnsTime
<1>4. CASE UNCHANGED dnsVars
  BY <1>4, SameCacheInv DEF dnsVars, DnsInv, DnsTypeOK
<1> QED
  BY <1>1, <1>2, <1>3, <1>4 DEF DnsNext

(***************************************************************************)
(* The cache's chains and counter agree in every reachable state, for      *)
(* every capacity, hash and TTL and however the clock is set.              *)
(***************************************************************************)
THEOREM DnsInvariant == DnsSpec => []DnsInv
BY DnsInitInv, DnsNextInv, PTL DEF DnsSpec

\* An address is never cached twice.
THEOREM NoIpTwice == DnsSpec => []OneEntryPerIp
<1>1. DnsInv => OneEntryPerIp
  BY DEF DnsInv
<1> QED
  BY <1>1, DnsInvariant, PTL

\* dc->count is the number of cached addresses, and at most the capacity.
THEOREM DnsCountIsExact == DnsSpec => []DnsCountExact
<1>1. DnsInv => DnsCountExact
  BY DEF DnsInv
<1> QED
  BY <1>1, DnsInvariant, PTL

-----------------------------------------------------------------------------
(***************************************************************************)
(* Refinement of LiveNames.                                                *)
(***************************************************************************)
OnePerIp(S) == \A e, f \in S : e.ip = f.ip => e = f

\* Walking the chains of all addresses finds every entry still in force.
LEMMA ServedIs == DnsInv => Served = {e \in Cached : e.expires > now}
<1> SUFFICES ASSUME DnsInv PROVE Served = {e \in Cached : e.expires > now}
  OBVIOUS
<1> USE DnsCacheAssumption
<1>1. ASSUME NEW ip \in Ips, NEW e \in Named(ip)
      PROVE  e \in Cached /\ e.expires > now
  BY <1>1 DEF Named, FindIp, Cached
<1>2. ASSUME NEW e \in Cached, e.expires > now
      PROVE  e.ip \in Ips /\ e \in Named(e.ip)
  BY <1>2 DEF Named, FindIp, Cached, DnsInv, DnsTypeOK, OnItsDnsChain, DnsEntries
<1> QED
  BY <1>1, <1>2 DEF Served

LEMMA NamesOfIs ==
  ASSUME NEW S, OnePerIp(S), NEW G, G = [k \in DOMAIN G |-> G[k]],
         DOMAIN G = {e.ip : e \in S}, \A e \in S : G[e.ip] = Verdict(e)
  PROVE  NamesOf(S) = G
<1>1. \A e \in S : (CHOOSE f \in S : f.ip = e.ip) = e
  BY DEF OnePerIp
<1>2. \A k \in DOMAIN G : NamesOf(S)[k] = G[k]
  BY <1>1 DEF NamesOf
<1>3. NamesOf(S) = [k \in DOMAIN G |-> NamesOf(S)[k]]
  BY DEF NamesOf
<1> QED
  BY <1>2, <1>3

LEMMA NamesOfAt ==
  ASSUME NEW S, OnePerIp(S)
  PROVE  /\ DOMAIN NamesOf(S) = {e.ip : e \in S}
         /\ \A e \in S : NamesOf(S)[e.ip] = Verdict(e)
<1>1. \A e \in S : (CHOOSE f \in S : f.ip = e.ip) = e
  BY DEF OnePerIp
<1> QED
  BY <1>1 DEF NamesOf

\* The facts of one state that the steps below start and end with.
LEMMA LiveBarIs ==
  DnsInv => /\ OnePerIp(Served)
            /\ DOMAIN liveBar = {e.ip : e \in Served}
            /\ \A e \in Served : liveBar[e.ip] = Verdict(e)
<1> SUFFICES ASSUME DnsInv
             PROVE  /\ OnePerIp(Served)
                    /\ DOMAIN liveBar = {e.ip : e \in Served}
                    /\ \A e \in Served : liveBar[e.ip] = Verdict(e)
  OBVIOUS
<1>1. OnePerIp(Served)
  BY ServedIs DEF OnePerIp, DnsInv, OneEntryPerIp
<1> QED
  BY <1>1, NamesOfAt DEF liveBar

LEMMA LiveInitMaps == DnsInit => Live!LiveInit
<1> SUFFICES ASSUME DnsInit PROVE Live!LiveInit
  OBVIOUS
<1>1. Served = {}
  BY DnsCacheAssumption
  DEF DnsInit, dns_cache_create, Served, Named, FindIp
<1>2. liveBar = [i \in {} |-> {}]
  BY <1>1 DEF liveBar, NamesOf
<1> QED
  BY <1>2 DEF DnsInit, Live!LiveInit, ClockInit, Live!ClockInit

\* An answer that is taken: the address's name in force is the answer's, or
\* none when the answer is already past its deadline.
LEMMA TakenIsLearn ==
  ASSUME DnsInv, DnsInv', NEW ip \in Ips, NEW name \in Names, NEW ttl \in Ttls,
         UNCHANGED now, NEW old \in SUBSET Cached,
         Cached' = (Cached \ old) \cup {DnsEntry(ip, name, ttl)},
         \A e \in Cached : e.ip = ip <=> e \in old
  PROVE  Live!Learn
<1> DEFINE n == DnsEntry(ip, name, ttl)
           r == [domain |-> name, expires |-> now + Live!Lifetime(ttl)]
           f == [i \in DOMAIN liveBar \cup {ip} |-> IF i = ip THEN r ELSE liveBar[i]]
           G == Live!InForce(f, now)
<1>1. Verdict(n) = r /\ n.ip = ip /\ n.expires = r.expires
  BY DnsCacheAssumption DEF Verdict, DnsEntry, Expiry, Live!Lifetime
<1>2. /\ OnePerIp(Served)
      /\ DOMAIN liveBar = {e.ip : e \in Served}
      /\ \A e \in Served : liveBar[e.ip] = Verdict(e)
      /\ Served = {e \in Cached : e.expires > now}
  BY LiveBarIs, ServedIs
<1>3. (DnsInv => Served = {e \in Cached : e.expires > now})'
  BY ServedIs, PTL
<1>4. OnePerIp(Served')
  <2>1. (DnsInv => OnePerIp(Served))'
    BY LiveBarIs, PTL
  <2> QED
    BY <2>1
<1> HIDE DEF n, r
<1>5. Served' = {e \in (Cached \ old) \cup {n} : e.expires > now}
  BY <1>3 DEF n
<1>6. \A e \in Served' : e = n \/ (e \in Served /\ e.ip # ip)
  BY <1>2, <1>5
<1>7. \A e \in Served : Verdict(e).expires = e.expires
  BY DEF Verdict
<1>8. \A e \in Served : e.ip # ip => e \in Served' /\ f[e.ip] = Verdict(e)
  BY <1>2, <1>5
<1>9. f[ip] = r /\ DOMAIN f = DOMAIN liveBar \cup {ip}
  OBVIOUS
<1> HIDE DEF f
<1>10. /\ DOMAIN G = {j \in DOMAIN f : f[j].expires > now}
       /\ G = [k \in DOMAIN G |-> G[k]]
       /\ \A j \in DOMAIN G : G[j] = f[j]
  BY DEF Live!InForce
<1> HIDE DEF G
<1>11. DOMAIN G = {e.ip : e \in Served'}
  <2>1. ASSUME NEW j \in DOMAIN G PROVE \E e \in Served' : e.ip = j
    <3>1. CASE j = ip
      BY <1>1, <1>5, <1>9, <1>10, <2>1, <3>1
    <3>2. CASE j # ip
      BY <1>2, <1>8, <1>9, <1>10, <2>1, <3>2
    <3> QED
      BY <3>1, <3>2
  <2>2. ASSUME NEW e \in Served' PROVE e.ip \in DOMAIN G
    <3>1. CASE e = n
      BY <1>1, <1>5, <1>9, <1>10, <2>2, <3>1
    <3>2. CASE e \in Served /\ e.ip # ip
      BY <1>2, <1>7, <1>8, <1>9, <1>10, <2>2, <3>2
    <3> QED
      BY <1>6, <2>2, <3>1, <3>2
  <2> QED
    BY <2>1, <2>2
<1>12. \A e \in Served' : G[e.ip] = Verdict(e)
  BY <1>1, <1>6, <1>8, <1>9, <1>10, <1>11
<1>13. liveBar' = G
  BY <1>4, <1>10, <1>11, <1>12, NamesOfIs DEF liveBar
<1> QED
  BY <1>13 DEF Live!Learn, G, f, r

LEMMA SweepIsInvisible ==
  ASSUME DnsInv, DnsInv', DnsExpire
  PROVE  UNCHANGED liveBar
<1>1. Cached' = Cached \ {e \in Cached : Dead(e)}
  BY SweepCaches
<1>2. Served = {e \in Cached : e.expires > now}
  BY ServedIs
<1>3. (DnsInv => Served = {e \in Cached : e.expires > now})'
  BY ServedIs, PTL
<1>4. now' = now
  BY DEF DnsExpire
<1>5. \A e \in Cached : e.expires \in Nat /\ now \in Nat
  BY ClockAssumption DEF DnsInv, DnsTypeOK, DnsEntries, Cached, Times
<1>6. Served' = Served
  BY <1>1, <1>2, <1>3, <1>4, <1>5 DEF Dead
<1> QED
  BY <1>6 DEF liveBar, NamesOf, Verdict

LEMMA TickIsPass ==
  ASSUME DnsInv, DnsInv', Tick \/ (ClockStep /\ now' > now),
         UNCHANGED <<dnsBuckets, dnsCount>>
  PROVE  Live!Pass
<1> DEFINE G == Live!InForce(liveBar, now')
<1>1. /\ DOMAIN liveBar = {e.ip : e \in Served}
      /\ \A e \in Served : liveBar[e.ip] = Verdict(e)
      /\ Served = {e \in Cached : e.expires > now}
  BY LiveBarIs, ServedIs
<1>2. (DnsInv => Served = {e \in Cached : e.expires > now})'
  BY ServedIs, PTL
<1>3. OnePerIp(Served')
  <2>1. (DnsInv => OnePerIp(Served))'
    BY LiveBarIs, PTL
  <2> QED
    BY <2>1
<1>4. Cached' = Cached
  BY DEF Cached
<1>5. \A e \in Cached : e.expires \in Nat
  BY DEF DnsInv, DnsTypeOK, DnsEntries, Cached
<1>6. now \in Nat /\ now' \in Nat /\ now' > now
  BY ClockAssumption DEF Tick, ClockStep, DnsInv, DnsTypeOK, Times
<1>7. Served' = {e \in Served : e.expires > now'}
  BY <1>1, <1>2, <1>4, <1>5, <1>6
<1>8. \A e \in Served : Verdict(e).expires = e.expires
  BY DEF Verdict
<1>9. /\ DOMAIN G = {j \in DOMAIN liveBar : liveBar[j].expires > now'}
      /\ G = [k \in DOMAIN G |-> G[k]]
      /\ \A j \in DOMAIN G : G[j] = liveBar[j]
  BY DEF Live!InForce
<1> HIDE DEF G
<1>10. DOMAIN G = {e.ip : e \in Served'}
  BY <1>1, <1>7, <1>8, <1>9
<1>11. \A e \in Served' : G[e.ip] = Verdict(e)
  BY <1>1, <1>7, <1>9, <1>10
<1>12. liveBar' = G
  BY <1>3, <1>9, <1>10, <1>11, NamesOfIs DEF liveBar
<1> QED
  BY <1>12 DEF Live!Pass, Tick, Live!Tick, ClockStep, Live!ClockStep, G

LEMMA DnsNextMaps ==
  ASSUME ClockSteps \subseteq {MaxTime}, DnsInv, DnsInv', [DnsNext]_dnsVars
  PROVE  [Live!LiveNext]_Live!liveVars
<1>1. CASE Answer
  <2>1. PICK ip \in Ips, name \in Names, ttl \in Ttls : dns_cache_insert(ip, name, ttl)
    BY <1>1 DEF Answer
  <2>2. UNCHANGED now
    BY <1>1 DEF Answer
  <2>3. CASE Overwrite(ip, name, ttl)
    <3>1. PICK e \in FindIp(ip) : TRUE
      BY <2>3 DEF Overwrite
    <3>2. /\ Cached' = (Cached \ {e}) \cup {DnsEntry(ip, name, ttl)}
          /\ \A f \in Cached : f.ip = ip <=> f \in {e}
          /\ {e} \in SUBSET Cached
      BY <2>3, <3>1, OverwriteCaches, FoundIsAll
    <3>3. Live!Learn
      BY <2>2, <3>2, TakenIsLearn
    <3> QED
      BY <2>2, <3>3 DEF Live!LiveNext
  <2>4. CASE Remember(ip, name, ttl)
    <3>1. /\ Cached' = (Cached \ {}) \cup {DnsEntry(ip, name, ttl)}
          /\ \A f \in Cached : f.ip = ip <=> f \in {}
          /\ {} \in SUBSET Cached
      BY <2>4, RememberCaches, NotFoundIsAbsent DEF Remember, DnsInv
    <3>2. Live!Learn
      BY <2>2, <3>1, TakenIsLearn
    <3> QED
      BY <2>2, <3>2 DEF Live!LiveNext
  <2>5. CASE Ignore(ip)
    BY <2>2, <2>5 DEF Ignore, Live!liveVars, liveBar, NamesOf, Served, Named, FindIp, Verdict
  <2> QED
    BY <2>1, <2>3, <2>4, <2>5 DEF dns_cache_insert
<1>2. CASE DnsExpire
  BY <1>2, SweepIsInvisible DEF DnsExpire, Live!liveVars
<1>3. CASE DnsTime
  <2>1. CASE now' = now
    BY <1>3, <2>1 DEF DnsTime, Live!liveVars, liveBar, NamesOf, Served, Named, FindIp, Verdict
  <2>2. CASE now' # now
    <3>1. Tick \/ (ClockStep /\ now' > now)
      BY <1>3, <2>2, ClockAssumption DEF DnsTime, ClockStep, DnsInv, DnsTypeOK, Times
    <3> QED
      BY <1>3, <3>1, TickIsPass DEF DnsTime, Live!LiveNext
  <2> QED
    BY <2>1, <2>2
<1>4. CASE UNCHANGED dnsVars
  BY <1>4 DEF dnsVars, Live!liveVars, liveBar, NamesOf, Served, Named, FindIp, Verdict
<1> QED
  BY <1>1, <1>2, <1>3, <1>4 DEF DnsNext

(***************************************************************************)
(* While the clock is never set back, what lookups return is the latest answer  *)
(* taken, until its deadline and not a second longer; that an entry may    *)
(* sit dead in the cache until the next sweep cannot be observed.          *)
(***************************************************************************)
THEOREM ServesLatestLiveAnswer ==
  ASSUME ClockSteps \subseteq {MaxTime}
  PROVE  DnsSpec => ServesLiveNames
<1>1. DnsInit => Live!LiveInit
  BY LiveInitMaps
<1>2. DnsInv /\ DnsInv' /\ [DnsNext]_dnsVars => [Live!LiveNext]_Live!liveVars
  BY DnsNextMaps
<1> QED
  BY <1>1, <1>2, DnsInvariant, PTL DEF DnsSpec, ServesLiveNames, Live!LiveSpec

-----------------------------------------------------------------------------
(***************************************************************************)
(* The sweep loop over one chain, of any length and with any choice of     *)
(* stale entries.  What a recursive definition of "the filtered chain"     *)
(* would need induction for is here an invariant of the loop itself.       *)
(***************************************************************************)

\* The loop invariant: pp is the link that leads to the next entry to visit,
\* the kept entries are linked one to the next behind it, and the links ahead
\* of it are still those of the original chain.
LoopInv ==
  /\ chain \in Seq(Nodes) /\ kept \in Seq(Nodes)
  /\ pos \in 1..Len(chain) + 1
  /\ \A i, j \in 1..Len(chain) : chain[i] = chain[j] => i = j
  /\ stale \subseteq Nodes
  /\ head \in Nodes \cup {NIL} /\ next \in [Nodes -> Nodes \cup {NIL}]
  /\ pp = IF kept = <<>> THEN NIL ELSE kept[Len(kept)]
  /\ head = IF kept = <<>> THEN At(pos) ELSE kept[1]
  /\ kept # <<>> => next[kept[Len(kept)]] = At(pos)
  /\ \A i \in 1..Len(kept) - 1 : next[kept[i]] = kept[i + 1]
  /\ \A i, j \in 1..Len(kept) : kept[i] = kept[j] => i = j
  /\ \A j \in pos..Len(chain) : next[chain[j]] = At(j + 1)
  /\ \A i \in 1..Len(kept) : \E j \in 1..pos - 1 : kept[i] = chain[j] /\ chain[j] \notin stale
  /\ \A j \in 1..pos - 1 : chain[j] \notin stale => \E i \in 1..Len(kept) : kept[i] = chain[j]
  /\ freed = Visited \cap stale
  /\ chainCount = Len(kept) + Len(chain) - (pos - 1)

LEMMA LoopInit == SweepInit => LoopInv
<1> SUFFICES ASSUME SweepInit PROVE LoopInv
  OBVIOUS
<1>1. chain \in Seq(Nodes) /\ Len(chain) \in Nat
  BY DEF SweepInit
<1>2. kept = <<>> /\ Len(kept) = 0 /\ kept \in Seq(Nodes)
  BY DEF SweepInit
<1>3. \A i : At(i) \in Nodes \cup {NIL}
  BY <1>1 DEF At
<1>4. Visited = {}
  BY DEF SweepInit, Visited
<1> QED
  BY <1>1, <1>2, <1>3, <1>4 DEF SweepInit, LoopInv

\* The link under inspection always leads to the next unvisited entry.
LEMMA LinkIsNext ==
  ASSUME LoopInv
  PROVE  /\ Link = At(pos)
         /\ Len(kept) \in Nat /\ Len(chain) \in Nat /\ pos \in Nat
         /\ Link # NIL => pos \in 1..Len(chain) /\ Link = chain[pos] /\ Link \in Nodes
<1>1. Len(kept) \in Nat /\ Len(chain) \in Nat /\ pos \in Nat
  BY DEF LoopInv
<1>2. kept # <<>> => Len(kept) \in 1..Len(kept) /\ kept[Len(kept)] \in Nodes
  BY DEF LoopInv
<1>3. Link = At(pos)
  BY <1>2, ChainAssumption DEF LoopInv, Link
<1>4. At(pos) # NIL => pos \in 1..Len(chain) /\ At(pos) = chain[pos] /\ chain[pos] \in Nodes
  BY DEF At, LoopInv
<1> QED
  BY <1>1, <1>3, <1>4

LEMMA UnlinkInv ==
  ASSUME LoopInv, Unlink
  PROVE  LoopInv'
<1>1. /\ Link = At(pos) /\ Link # NIL
      /\ Len(kept) \in Nat /\ Len(chain) \in Nat /\ pos \in Nat
      /\ pos \in 1..Len(chain) /\ Link = chain[pos] /\ Link \in Nodes
      /\ Link \in stale
  BY LinkIsNext, ChainAssumption DEF Unlink, LoopInv
<1>2. /\ chain' = chain /\ stale' = stale /\ pp' = pp /\ kept' = kept
      /\ pos' = pos + 1 /\ chainCount' = chainCount - 1 /\ freed' = freed \cup {Link}
  BY DEF Unlink
<1>3. \A i : At(i)' = At(i)
  BY <1>2 DEF At
<1>4. next[Link] = At(pos + 1) /\ At(pos + 1) \in Nodes \cup {NIL}
  BY <1>1 DEF LoopInv, At
<1>5. /\ head' \in Nodes \cup {NIL} /\ next' \in [Nodes -> Nodes \cup {NIL}]
      /\ head' = IF kept = <<>> THEN At(pos + 1) ELSE kept[1]
      /\ kept # <<>> => next'[kept[Len(kept)]] = At(pos + 1)
      /\ \A e \in Nodes : (kept = <<>> \/ e # kept[Len(kept)]) => next'[e] = next[e]
  <2>1. CASE kept = <<>>
    BY <1>1, <1>4, <2>1 DEF Unlink, LoopInv
  <2>2. CASE kept # <<>>
    <3>1. pp = kept[Len(kept)] /\ pp \in Nodes /\ pp # NIL
      BY <1>1, <2>2, ChainAssumption DEF LoopInv
    <3>2. next' = [next EXCEPT ![pp] = next[Link]] /\ head' = head
      BY <3>1 DEF Unlink
    <3> QED
      BY <1>4, <2>2, <3>1, <3>2 DEF LoopInv
  <2> QED
    BY <2>1, <2>2
<1>6. \A i \in 1..Len(kept) - 1 : next'[kept[i]] = kept[i + 1]
  <2> SUFFICES ASSUME NEW i \in 1..Len(kept) - 1 PROVE next'[kept[i]] = kept[i + 1]
    OBVIOUS
  <2>1. i \in 1..Len(kept) /\ Len(kept) \in 1..Len(kept) /\ i # Len(kept) /\ kept # <<>>
    BY <1>1
  <2>2. kept[i] # kept[Len(kept)] /\ kept[i] \in Nodes
    BY <2>1 DEF LoopInv
  <2> QED
    BY <1>5, <2>2 DEF LoopInv
<1>7. \A j \in pos + 1..Len(chain) : next'[chain[j]] = At(j + 1)
  <2> SUFFICES ASSUME NEW j \in pos + 1..Len(chain) PROVE next'[chain[j]] = At(j + 1)
    OBVIOUS
  <2>1. j \in pos..Len(chain) /\ j \in 1..Len(chain) /\ chain[j] \in Nodes
    BY <1>1 DEF LoopInv
  <2>2. kept # <<>> => chain[j] # kept[Len(kept)]
    <3>1. SUFFICES ASSUME kept # <<>>, chain[j] = kept[Len(kept)] PROVE FALSE
      OBVIOUS
    <3>2. Len(kept) \in 1..Len(kept)
      BY <1>1, <3>1 DEF LoopInv
    <3>3. PICK k \in 1..pos - 1 : kept[Len(kept)] = chain[k]
      BY <3>2 DEF LoopInv
    <3>4. k \in 1..Len(chain) /\ k # j
      BY <1>1
    <3> QED
      BY <2>1, <3>1, <3>3, <3>4 DEF LoopInv
  <2> QED
    BY <1>5, <2>1, <2>2 DEF LoopInv
<1>8. /\ \A i \in 1..Len(kept) : \E j \in 1..pos : kept[i] = chain[j] /\ chain[j] \notin stale
      /\ \A j \in 1..pos : chain[j] \notin stale => \E i \in 1..Len(kept) : kept[i] = chain[j]
  <2>1. \A j \in 1..pos : j \in 1..pos - 1 \/ j = pos
    BY <1>1
  <2>2. \A j \in 1..pos - 1 : j \in 1..pos
    BY <1>1
  <2> QED
    BY <1>1, <2>1, <2>2 DEF LoopInv
<1>9. freed' = Visited' \cap stale
  <2>1. Visited' = Visited \cup {chain[pos]}
    <3>1. (pos + 1) - 1 = pos /\ 1..pos = (1..pos - 1) \cup {pos}
      BY <1>1
    <3> QED
      BY <1>2, <3>1 DEF Visited
  <2> QED
    BY <1>1, <1>2, <2>1 DEF LoopInv
<1>10. chainCount' = Len(kept) + Len(chain) - pos
  BY <1>1, <1>2 DEF LoopInv
<1>11. pos + 1 \in 1..Len(chain) + 1 /\ (pos + 1) - 1 = pos
  BY <1>1
<1> QED
  BY <1>1, <1>2, <1>3, <1>5, <1>6, <1>7, <1>8, <1>9, <1>10, <1>11 DEF LoopInv

LEMMA AdvanceInv ==
  ASSUME LoopInv, Advance
  PROVE  LoopInv'
<1>1. /\ Link = At(pos) /\ Link # NIL
      /\ Len(kept) \in Nat /\ Len(chain) \in Nat /\ pos \in Nat
      /\ pos \in 1..Len(chain) /\ Link = chain[pos] /\ Link \in Nodes
      /\ Link \notin stale
  BY LinkIsNext DEF Advance
<1>2. /\ chain' = chain /\ stale' = stale /\ head' = head /\ next' = next
      /\ freed' = freed /\ chainCount' = chainCount /\ pos' = pos + 1
      /\ pp' = Link /\ kept' = Append(kept, Link)
  BY DEF Advance
<1> DEFINE n == Len(kept)
<1>3. /\ kept' \in Seq(Nodes) /\ kept' # <<>> /\ Len(kept') = n + 1
      /\ kept'[n + 1] = Link
      /\ \A i \in 1..n : kept'[i] = kept[i]
  BY <1>1, <1>2 DEF LoopInv
<1>4. \A i : At(i)' = At(i)
  BY <1>2 DEF At
<1>5. \A i \in 1..n + 1 : i \in 1..n \/ i = n + 1
  BY <1>1
<1>6. \A i \in 1..n : \E j \in 1..pos - 1 : kept[i] = chain[j] /\ chain[j] \notin stale
  BY DEF LoopInv
<1>7. \A i \in 1..n : kept[i] # Link
  <2> SUFFICES ASSUME NEW i \in 1..n, kept[i] = Link PROVE FALSE
    OBVIOUS
  <2>1. PICK j \in 1..pos - 1 : kept[i] = chain[j]
    BY <1>6
  <2>2. j \in 1..Len(chain) /\ j # pos
    BY <1>1
  <2> QED
    BY <1>1, <2>1, <2>2 DEF LoopInv
<1>8. head = IF kept' = <<>> THEN At(pos + 1) ELSE kept'[1]
  BY <1>1, <1>3 DEF LoopInv
<1>9. next[kept'[n + 1]] = At(pos + 1)
  BY <1>1, <1>3 DEF LoopInv
<1>10. \A i \in 1..n : next[kept'[i]] = kept'[i + 1]
  <2> SUFFICES ASSUME NEW i \in 1..n PROVE next[kept'[i]] = kept'[i + 1]
    OBVIOUS
  <2>1. CASE i = n
    BY <1>1, <1>3, <2>1 DEF LoopInv
  <2>2. CASE i # n
    <3>1. i \in 1..n - 1 /\ i + 1 \in 1..n
      BY <1>1, <2>2
    <3> QED
      BY <1>3, <3>1 DEF LoopInv
  <2> QED
    BY <2>1, <2>2
<1>11. \A i, j \in 1..n + 1 : kept'[i] = kept'[j] => i = j
  <2>1. \A i, j \in 1..n : kept[i] = kept[j] => i = j
    BY DEF LoopInv
  <2> HIDE DEF n
  <2> SUFFICES ASSUME NEW i \in 1..n + 1, NEW j \in 1..n + 1, kept'[i] = kept'[j]
               PROVE  i = j
    OBVIOUS
  <2>2. CASE i \in 1..n /\ j \in 1..n
    BY <1>3, <2>1, <2>2
  <2>3. CASE i = n + 1 /\ j \in 1..n
    BY <1>3, <1>7, <2>3
  <2>4. CASE j = n + 1 /\ i \in 1..n
    BY <1>3, <1>7, <2>4
  <2> QED
    BY <1>5, <2>2, <2>3, <2>4
<1>12. \A j \in pos + 1..Len(chain) : next[chain[j]] = At(j + 1)
  <2>1. \A j \in pos + 1..Len(chain) : j \in pos..Len(chain)
    BY <1>1
  <2> QED
    BY <2>1 DEF LoopInv
<1>13. \A i \in 1..n + 1 : \E j \in 1..pos : kept'[i] = chain[j] /\ chain[j] \notin stale
  <2>1. \A j \in 1..pos - 1 : j \in 1..pos
    BY <1>1
  <2>2. pos \in 1..pos
    BY <1>1
  <2> QED
    BY <1>1, <1>3, <1>5, <1>6, <2>1, <2>2
<1>14. \A j \in 1..pos : chain[j] \notin stale => \E i \in 1..n + 1 : kept'[i] = chain[j]
  <2>1. \A j \in 1..pos : j \in 1..pos - 1 \/ j = pos
    BY <1>1
  <2>2. \A i \in 1..n : i \in 1..n + 1
    BY <1>1
  <2>3. n + 1 \in 1..n + 1
    BY <1>1
  <2> QED
    BY <1>1, <1>3, <2>1, <2>2, <2>3 DEF LoopInv
<1>15. freed = Visited' \cap stale
  <2>1. Visited' = Visited \cup {chain[pos]}
    <3>1. (pos + 1) - 1 = pos /\ 1..pos = (1..pos - 1) \cup {pos}
      BY <1>1
    <3> QED
      BY <1>2, <3>1 DEF Visited
  <2> QED
    BY <1>1, <2>1 DEF LoopInv
<1>16. /\ chainCount = (n + 1) + Len(chain) - pos
       /\ pos + 1 \in 1..Len(chain) + 1 /\ (pos + 1) - 1 = pos /\ (n + 1) - 1 = n
  BY <1>1 DEF LoopInv
<1> HIDE DEF n
<1>17. /\ chain' \in Seq(Nodes) /\ stale' \subseteq Nodes
       /\ head' \in Nodes \cup {NIL} /\ next' \in [Nodes -> Nodes \cup {NIL}]
       /\ \A i, j \in 1..Len(chain') : chain'[i] = chain'[j] => i = j
  BY <1>2 DEF LoopInv
<1>18. \A j \in pos'..Len(chain') : next'[chain'[j]] = At(j + 1)'
  BY <1>2, <1>4, <1>12
<1>19. freed' = (Visited \cap stale)'
  BY <1>2, <1>15
<1>20. /\ kept' # <<>> => next'[kept'[Len(kept')]] = At(pos)'
       /\ head' = IF kept' = <<>> THEN At(pos)' ELSE kept'[1]
       /\ pp' = IF kept' = <<>> THEN NIL ELSE kept'[Len(kept')]
  <2>1. At(pos)' = At(pos + 1)
    BY <1>2 DEF At
  <2> QED
    BY <1>2, <1>3, <1>8, <1>9, <2>1
<1>21. /\ chainCount' = Len(kept') + Len(chain') - (pos' - 1)
       /\ pos' \in 1..Len(chain') + 1
       /\ \A i \in 1..Len(kept') - 1 : next'[kept'[i]] = kept'[i + 1]
       /\ \A i, j \in 1..Len(kept') : kept'[i] = kept'[j] => i = j
  <2>1. /\ pos' - 1 = pos /\ Len(kept') - 1 = n /\ Len(kept') = n + 1
        /\ pos' = pos + 1 /\ Len(chain') = Len(chain)
    BY <1>2, <1>3, <1>16
  <2> QED
    BY <1>2, <1>10, <1>11, <1>16, <2>1
<1>22. /\ \A i \in 1..Len(kept') : \E j \in 1..pos' - 1 :
             kept'[i] = chain'[j] /\ chain'[j] \notin stale'
       /\ \A j \in 1..pos' - 1 : chain'[j] \notin stale' =>
             \E i \in 1..Len(kept') : kept'[i] = chain'[j]
  <2>1. /\ pos' - 1 = pos /\ Len(kept') = n + 1
        /\ chain' = chain /\ stale' = stale
    BY <1>2, <1>3, <1>16
  <2> QED
    BY <1>13, <1>14, <2>1
<1> QED
  BY <1>3, <1>17, <1>18, <1>19, <1>20, <1>21, <1>22 DEF LoopInv

LEMMA LoopNext == LoopInv /\ [SweepNext]_sweepVars => LoopInv'
<1> SUFFICES ASSUME LoopInv, [SweepNext]_sweepVars PROVE LoopInv'
  OBVIOUS
<1>1. CASE Unlink
  BY <1>1, UnlinkInv
<1>2. CASE Advance
  BY <1>2, AdvanceInv
<1>3. CASE UNCHANGED sweepVars
  BY <1>3 DEF sweepVars, LoopInv, At, Visited
<1> QED
  BY <1>1, <1>2, <1>3 DEF SweepNext

THEOREM LoopInvariant == SweepSpec => []LoopInv
BY LoopInit, LoopNext, PTL DEF SweepSpec

(***************************************************************************)
(* The sweep never touches an entry it has freed.                          *)
(***************************************************************************)
THEOREM SweepNeverUsesFreed == SweepSpec => []NoUseAfterFree
<1>1. LoopInv => NoUseAfterFree
  <2> SUFFICES ASSUME LoopInv PROVE NoUseAfterFree
    OBVIOUS
  <2>1. NIL \notin freed
    BY ChainAssumption DEF LoopInv
  <2>2. Link \notin freed
    <3>1. SUFFICES ASSUME Link \in freed PROVE FALSE
      OBVIOUS
    <3>2. /\ pos \in 1..Len(chain) /\ Link = chain[pos]
          /\ pos \in Nat /\ Len(chain) \in Nat
      BY <2>1, <3>1, LinkIsNext
    <3>3. PICK j \in 1..pos - 1 : Link = chain[j]
      BY <3>1 DEF LoopInv, Visited
    <3>4. j \in 1..Len(chain) /\ j # pos
      BY <3>2
    <3> QED
      BY <3>2, <3>3, <3>4 DEF LoopInv
  <2>3. pp \notin freed
    <3>1. CASE kept = <<>>
      BY <2>1, <3>1 DEF LoopInv
    <3>2. CASE kept # <<>>
      <4>1. Len(kept) \in 1..Len(kept) /\ pp = kept[Len(kept)]
        BY <3>2, LinkIsNext DEF LoopInv
      <4>2. PICK j \in 1..pos - 1 : kept[Len(kept)] = chain[j] /\ chain[j] \notin stale
        BY <4>1 DEF LoopInv
      <4> QED
        BY <4>1, <4>2 DEF LoopInv
    <3> QED
      BY <3>1, <3>2
  <2> QED
    BY <2>2, <2>3 DEF NoUseAfterFree
<1> QED
  BY <1>1, LoopInvariant, PTL

(***************************************************************************)
(* A chain of any length keeps its live entries, in order, and loses       *)
(* exactly its stale ones; the counter follows.                            *)
(***************************************************************************)
THEOREM SweepKeepsExactlyLive == SweepSpec => []KeepsExactlyLive
<1>1. LoopInv => KeepsExactlyLive
  <2> SUFFICES ASSUME LoopInv PROVE KeepsExactlyLive
    OBVIOUS
  <2>1. {kept[i] : i \in 1..Len(kept)} = Visited \ stale
    <3>1. \A i \in 1..Len(kept) : kept[i] \in Visited \ stale
      <4> SUFFICES ASSUME NEW i \in 1..Len(kept) PROVE kept[i] \in Visited \ stale
        OBVIOUS
      <4>1. PICK j \in 1..pos - 1 : kept[i] = chain[j] /\ chain[j] \notin stale
        BY DEF LoopInv
      <4> QED
        BY <4>1 DEF Visited
    <3>2. ASSUME NEW e \in Visited \ stale PROVE \E i \in 1..Len(kept) : kept[i] = e
      <4>1. PICK j \in 1..pos - 1 : e = chain[j]
        BY DEF Visited
      <4> QED
        BY <4>1 DEF LoopInv
    <3> QED
      BY <3>1, <3>2
  <2>2. Done => LinksAre(kept)
    <3> SUFFICES ASSUME Done PROVE LinksAre(kept)
      OBVIOUS
    <3>1. At(pos) = NIL
      BY LinkIsNext DEF Done
    <3>2. head = IF kept = <<>> THEN NIL ELSE kept[1]
      BY <3>1 DEF LoopInv
    <3>3. ASSUME NEW i \in 1..Len(kept)
          PROVE  next[kept[i]] = IF i < Len(kept) THEN kept[i + 1] ELSE NIL
      <4>1. CASE i < Len(kept)
        <5>1. i \in 1..Len(kept) - 1
          BY <4>1, LinkIsNext
        <5> QED
          BY <4>1, <5>1 DEF LoopInv
      <4>2. CASE ~(i < Len(kept))
        <5>1. i = Len(kept) /\ kept # <<>>
          BY <4>2, LinkIsNext
        <5> QED
          BY <3>1, <4>2, <5>1 DEF LoopInv
      <4> QED
        BY <4>1, <4>2
    <3> QED
      BY <3>2, <3>3 DEF LinksAre
  <2> QED
    BY <2>1, <2>2 DEF LoopInv, KeepsExactlyLive
<1> QED
  BY <1>1, LoopInvariant, PTL

=============================================================================
