----------------------------- MODULE ChainSweep -----------------------------
(***************************************************************************)
(* The loop that unlinks stale entries from one chain, as flow_table_expire *)
(* and dns_cache_expire both write it: pp points at the link under         *)
(* inspection (the bucket's head, or the hash_next of the last entry kept) *)
(* and an entry is unlinked by storing its successor through pp.           *)
(* FlowTable and DnsCache take the whole loop as "the chain without its    *)
(* stale entries"; this module is why they may.                            *)
(***************************************************************************)
EXTENDS Naturals, Sequences, FiniteSets

CONSTANTS
  Nodes,             \* the entries of the chain, by address
  NIL                \* NULL, and (as a value of pp) the bucket's head

ASSUME ChainAssumption == NIL \notin Nodes

VARIABLES
  chain,             \* the chain when the sweep starts, never changed
  stale,             \* which entries are stale, never changed
  head, next,        \* ft->buckets[i] and the hash_next fields
  pp,
  chainCount,        \* ft->count, as far as this chain contributes to it
  freed,             \* what was passed to free()
  pos, kept          \* history: entries visited + 1, and those left linked

sweepVars == <<chain, stale, head, next, pp, chainCount, freed, pos, kept>>

At(i) == IF i \in 1..Len(chain) THEN chain[i] ELSE NIL

Link == IF pp = NIL THEN head ELSE next[pp]

Done == Link = NIL

SweepInit ==
  /\ chain \in UNION {[1..n -> Nodes] : n \in 0..Cardinality(Nodes)}
  /\ \A i, j \in 1..Len(chain) : chain[i] = chain[j] => i = j
  /\ stale \in SUBSET Nodes
  /\ head = At(1)
  /\ next \in [Nodes -> Nodes \cup {NIL}]
  /\ \A i \in 1..Len(chain) : next[chain[i]] = At(i + 1)
  /\ pp = NIL
  /\ chainCount = Len(chain)
  /\ freed = {}
  /\ pos = 1
  /\ kept = <<>>

Unlink_Advances ==
  /\ Link \in stale
  /\ IF pp = NIL THEN head' = next[Link] /\ UNCHANGED next
                 ELSE next' = [next EXCEPT ![pp] = next[Link]] /\ UNCHANGED head
  /\ chainCount' = chainCount - 1
  /\ freed' = freed \cup {Link}
  /\ pp' = Link
  /\ pos' = pos + 1
  /\ UNCHANGED <<chain, stale, kept>>

\* *pp = e->hash_next; free(e): pp stays, its target is the next to inspect.
Unlink ==
  /\ Link \in stale
  /\ IF pp = NIL THEN head' = next[Link] /\ UNCHANGED next
                 ELSE next' = [next EXCEPT ![pp] = next[Link]] /\ UNCHANGED head
  /\ chainCount' = chainCount - 1
  /\ freed' = freed \cup {Link}
  /\ pos' = pos + 1
  /\ UNCHANGED <<chain, stale, pp, kept>>

Advance_Stays ==
  /\ Link \notin stale \cup {NIL}
  /\ UNCHANGED sweepVars
Advance_Skips ==
  /\ Link \notin stale \cup {NIL}
  /\ pp' = IF next[Link] = NIL THEN Link ELSE next[Link]
  /\ pos' = pos + 1
  /\ kept' = Append(kept, Link)
  /\ UNCHANGED <<chain, stale, head, next, chainCount, freed>>

\* pp = &e->hash_next.
Advance ==
  /\ Link \notin stale \cup {NIL}
  /\ pp' = Link
  /\ pos' = pos + 1
  /\ kept' = Append(kept, Link)
  /\ UNCHANGED <<chain, stale, head, next, chainCount, freed>>

SweepNext == Unlink \/ Advance

SweepSpec == SweepInit /\ [][SweepNext]_sweepVars

\* The loop runs to its end inside one timer callback.
SweepFairSpec == SweepSpec /\ WF_sweepVars(SweepNext)

-----------------------------------------------------------------------------
\* Walking from the head meets the entries of s, in order, and then NULL.
LinksAre(s) ==
  /\ head = IF s = <<>> THEN NIL ELSE s[1]
  /\ \A i \in 1..Len(s) : next[s[i]] = IF i < Len(s) THEN s[i + 1] ELSE NIL

Visited == {chain[j] : j \in 1..pos - 1}

\* The loop never reads or writes a link of an entry it has freed.
NoUseAfterFree == pp \notin freed /\ Link \notin freed

\* Every entry visited so far is either still linked or freed, as its age says;
\* the counter has followed; and when the loop ends the chain is what was kept.
KeepsExactlyLive ==
  /\ {kept[i] : i \in 1..Len(kept)} = Visited \ stale
  /\ freed = Visited \cap stale
  /\ chainCount = Len(kept) + Len(chain) - (pos - 1)
  /\ Done => LinksAre(kept)

\* The loop ends, with every entry visited.
SweepEnds == <>(Done /\ pos = Len(chain) + 1)

=============================================================================
