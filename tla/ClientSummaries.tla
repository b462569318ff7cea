-------------------------- MODULE ClientSummaries --------------------------
(***************************************************************************)
(* Flows summed up per client and application: the aggregation telemetry.c *)
(* and ubus_api.c each carry a copy of, in places that may run out.        *)
(*                                                                         *)
(* A flow is a record with mac, cls, app and bytes; a table of flows is    *)
(* the sequence in which flow_table_for_each visits them.                  *)
(***************************************************************************)
EXTENDS Naturals, Sequences, FiniteSets

CONSTANTS
  Classes,
  MAX_CLIENTS,       \* places for clients: MAX_STATIONS, in both copies
  MAX_APPS           \* places for a client's applications: TELEM_MAX_APPS,
                     \* MAX_APPS_PER_CLIENT

NoApp == "none"      \* app_name[0] == '\0'

ASSUME SummariesAssumption == {MAX_CLIENTS, MAX_APPS} \subseteq Nat

\* (Operators called <definition>_<what> are mutants.)
NewClient(mac) ==
  [mac |-> mac, total_bytes |-> 0, total_flows |-> 0,
   class_counts |-> [c \in Classes |-> 0], apps |-> <<>>]

AppSlot(c, app) == {i \in 1..Len(c.apps) : c.apps[i].name = app}

\* The client with the flow's application counted, if it has a place for it.
WithApp_SharesLast(c, f) ==
  LET opened == IF AppSlot(c, f.app) = {} /\ Len(c.apps) < MAX_APPS
                THEN [c EXCEPT !.apps = Append(@, [name |-> f.app, flows |-> 0, bytes |-> 0])]
                ELSE c
      i      == IF AppSlot(opened, f.app) = {} THEN Len(opened.apps)
                ELSE CHOOSE j \in AppSlot(opened, f.app) : TRUE
  IN  IF f.app = NoApp \/ i = 0 THEN c
      ELSE [opened EXCEPT !.apps[i].flows = @ + 1, !.apps[i].bytes = @ + f.bytes]

WithUse(a, f) == [a EXCEPT !.flows = @ + 1, !.bytes = @ + f.bytes]

WithApp(c, f) ==
  LET opened == IF AppSlot(c, f.app) = {} /\ Len(c.apps) < MAX_APPS
                THEN [c EXCEPT !.apps = Append(@, [name |-> f.app, flows |-> 0, bytes |-> 0])]
                ELSE c
      i      == CHOOSE j \in AppSlot(opened, f.app) : TRUE
  IN  IF f.app = NoApp \/ AppSlot(opened, f.app) = {} THEN c
      ELSE [opened EXCEPT !.apps[i] = WithUse(@, f)]

WithFlow(c, f) ==
  WithApp([c EXCEPT !.total_bytes = @ + f.bytes,
                    !.total_flows = @ + 1,
                    !.class_counts[f.cls] = @ + 1], f)

ClientSlot(clients, mac) == {i \in 1..Len(clients) : clients[i].mac = mac}

\* The clients with flow f counted, if there is a place for who sent it.
WithClient_SharesLast(clients, f) ==
  LET opened == IF ClientSlot(clients, f.mac) = {} /\ Len(clients) < MAX_CLIENTS
                THEN Append(clients, NewClient(f.mac)) ELSE clients
      i      == IF ClientSlot(opened, f.mac) = {} THEN Len(opened)
                ELSE CHOOSE j \in ClientSlot(opened, f.mac) : TRUE
  IN  [opened EXCEPT ![i] = WithFlow(@, f)]

WithClient(clients, f) ==
  LET opened == IF ClientSlot(clients, f.mac) = {} /\ Len(clients) < MAX_CLIENTS
                THEN Append(clients, NewClient(f.mac)) ELSE clients
      i      == CHOOSE j \in ClientSlot(opened, f.mac) : TRUE
  IN  IF ClientSlot(opened, f.mac) = {} THEN opened
      ELSE [opened EXCEPT ![i] = WithFlow(@, f)]

\* The clients of table t, after all of its flows.
Summaries(t) ==
  LET after[n \in 0..Len(t)] == IF n = 0 THEN <<>> ELSE WithClient(after[n - 1], t[n])
  IN  after[Len(t)]

-----------------------------------------------------------------------------
(* What a list of clients cs must say of the table t it was made from.     *)

Least(m, n) == IF m < n THEN m ELSE n

\* All bytes of the flows at S.
Bytes(t, S) ==
  LET sum[n \in 0..Len(t)] ==
        IF n = 0 THEN 0 ELSE sum[n - 1] + (IF n \in S THEN t[n].bytes ELSE 0)
  IN  sum[Len(t)]

Sent(t, mac) == {i \in 1..Len(t) : t[i].mac = mac}

\* Each client and application listed is there once, with all of its flows,
\* whatever else had no place; one is only missing when the list is full.
ListAddsUp(cs, t) ==
  LET macs == {t[i].mac : i \in 1..Len(t)}
  IN  /\ {cs[k].mac : k \in 1..Len(cs)} \subseteq macs
      /\ Len(cs) = Least(Cardinality(macs), MAX_CLIENTS)
      /\ \A k \in 1..Len(cs) :
           LET mine == Sent(t, cs[k].mac)
               apps == {t[i].app : i \in mine} \ {NoApp}
           IN  /\ ClientSlot(cs, cs[k].mac) = {k}
               /\ cs[k].total_bytes = Bytes(t, mine)
               /\ cs[k].total_flows = Cardinality(mine)
               /\ \A c \in Classes :
                    cs[k].class_counts[c] = Cardinality({i \in mine : t[i].cls = c})
               /\ Len(cs[k].apps) = Least(Cardinality(apps), MAX_APPS)
               /\ \A a \in 1..Len(cs[k].apps) :
                    LET uses == {i \in mine : t[i].app = cs[k].apps[a].name}
                    IN  /\ cs[k].apps[a].flows = Cardinality(uses)
                        /\ cs[k].apps[a].bytes = Bytes(t, uses)
                        /\ uses # {} /\ AppSlot(cs[k], cs[k].apps[a].name) = {a}

=============================================================================
