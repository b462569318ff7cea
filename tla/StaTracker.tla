----------------------------- MODULE StaTracker -----------------------------
(***************************************************************************)
(* sta_tracker.c: who is connected, and to which access point interface.   *)
(*                                                                         *)
(* A refresh empties the list and asks hostapd for one interface after the *)
(* other, in the daemon's only thread: nothing else of the daemon runs     *)
(* until it is over.  The stations do not wait: they come, leave and roam  *)
(* between two questions.  A question may fail or time out.                *)
(*                                                                         *)
(* stations is an array whose first count slots are the list.  Slots are   *)
(* never cleared, only overwritten field by field; a signal strength is    *)
(* represented by the station that sent it, which is all that tells a      *)
(* station's own signal from what its slot held before.                    *)
(***************************************************************************)
EXTENDS Integers, Sequences, FiniteSets, SequencesExt

CONSTANTS
  Stations,          \* the stations' MACs
  Ifaces,            \* iface_patterns: the interfaces, in the order asked
  ssid_of,           \* ssid_of[i]: the network interface i serves
  MAX_STATIONS

\* Where a station is that is on no interface, and what an untouched slot holds.
Away == "away"
Nothing == "nothing"
\* A name in hostapd's answer that parse_mac refuses.
Unreadable == "unreadable"

Places == Range(Ifaces) \cup {Away}

ASSUME StaAssumption ==
  /\ IsFiniteSet(Stations) /\ Ifaces \in Seq(Range(Ifaces))
  /\ Away \notin Range(Ifaces)
  /\ {Nothing, Unreadable} \cap Stations = {}
  /\ DOMAIN ssid_of = Range(Ifaces)
  /\ MAX_STATIONS \in Nat \ {0}

VARIABLES
  on,                \* on[m]: the interface station m is on (hostapd's view)
  asking,            \* how many interfaces are still to be asked in this refresh
  stations,          \* st->stations
  count,             \* st->count
  been,              \* history: where m was since the refresh began, until it ended
  heard,             \* history: the interfaces that answered in this refresh
  mute               \* history: the stations whose answer had no signal

staVars == <<on, asking, stations, count, been, heard, mute>>
listVars == <<stations, count>>

Refreshing == asking > 0

-----------------------------------------------------------------------------
(* clients_cb: one entry of an answer after the other.                     *)

\* An entry is [mac, signal]; a signal that is missing leaves the slot's.
Written(slot, e, i) ==
  [mac |-> e.mac, ssid |-> ssid_of[i], ifname |-> i,
   signal |-> IF e.signal = Nothing THEN slot.signal ELSE e.signal]

Taken_CountsUnreadable(st, e, i) ==
  IF st.count >= MAX_STATIONS THEN st
  ELSE IF e.mac = Unreadable THEN [st EXCEPT !.count = @ + 1]
  ELSE [stations |-> [st.stations EXCEPT ![st.count + 1] = Written(@, e, i)],
        count    |-> st.count + 1]

\* The list st after entry e of interface i: a full list takes no more, and a
\* name that cannot be read leaves its slot to the next one.  (Operators called
\* <definition>_<what> are mutants.)
Taken(st, e, i) ==
  IF st.count >= MAX_STATIONS \/ e.mac = Unreadable THEN st
  ELSE [stations |-> [st.stations EXCEPT ![st.count + 1] = Written(@, e, i)],
        count    |-> st.count + 1]

clients_cb_StopsAtUnreadable(answer, i) ==
  LET bad == {n \in DOMAIN answer : answer[n].mac = Unreadable}
      st  == FoldLeft(LAMBDA s, e : Taken(s, e, i), [stations |-> stations, count |-> count],
                      IF bad = {} THEN answer ELSE SubSeq(answer, 1, Min(bad) - 1))
  IN  stations' = st.stations /\ count' = st.count

clients_cb(answer, i) ==
  LET list[n \in 0..Len(answer)] ==
        IF n = 0 THEN [stations |-> stations, count |-> count]
        ELSE Taken(list[n - 1], answer[n], i)
      st == list[Len(answer)]
  IN  stations' = st.stations /\ count' = st.count

\* What hostapd may answer for i: the stations on it in any order, each with
\* its signal or without, and perhaps a name that is not a MAC.
Answers(i) ==
  LET here == {m \in Stations : on[m] = i}
      orders == {o \in [1..Cardinality(here) -> here] : Range(o) = here}
      lists == UNION {{[n \in DOMAIN o |-> [mac |-> o[n], signal |-> IF o[n] \in q THEN Nothing ELSE o[n]]]
                         : o \in orders} : q \in SUBSET here}
      junk == [mac |-> Unreadable, signal |-> Nothing]
  IN  lists \cup {<<junk>> \o l : l \in lists}

-----------------------------------------------------------------------------
(* sta_tracker_refresh, from its timer or from start-up.                   *)
RefreshBegins ==
  /\ ~Refreshing
  /\ count' = 0
  /\ asking' = Len(Ifaces)
  /\ been' = [m \in Stations |-> {on[m]}] /\ heard' = {} /\ mute' = {}
  /\ UNCHANGED <<on, stations>>

\* One round of the loop: get_status for the SSID, then get_clients.  hostapd
\* may not have the interface, may answer with no SSID or without a table of
\* clients, or either question may run into its timeout: all of them leave the
\* list alone.
AskIface ==
  LET i == Ifaces[Len(Ifaces) - asking + 1]
  IN  /\ Refreshing
      /\ asking' = asking - 1
      /\ \/ UNCHANGED <<listVars, heard, mute>>
         \/ \E answer \in Answers(i) :
              /\ clients_cb(answer, i)
              /\ heard' = heard \cup {i}
              /\ mute' = mute \cup {e.mac : e \in {x \in Range(answer) : x.signal = Nothing}}
      /\ UNCHANGED <<on, been>>

sta_tracker_refresh == RefreshBegins \/ AskIface

\* A station associates, leaves or roams; hostapd is another process.
Roam ==
  /\ \E m \in Stations, p \in Places :
       /\ p # on[m]
       /\ on' = [on EXCEPT ![m] = p]
       /\ been' = IF Refreshing THEN [been EXCEPT ![m] = @ \cup {p}] ELSE been
  /\ UNCHANGED <<asking, listVars, heard, mute>>

StaInit ==
  /\ on = [m \in Stations |-> Away]
  /\ asking = 0 /\ count = 0
  /\ stations = [n \in 1..MAX_STATIONS |->
                   [mac |-> Nothing, ssid |-> Nothing, ifname |-> Nothing, signal |-> Nothing]]
  /\ been = [m \in Stations |-> {}] /\ heard = {} /\ mute = {}

-----------------------------------------------------------------------------
\* The entry of the list a MAC is looked up to, as a set of at most one.
find_mac(mac) ==
  {stations[n] : n \in {k \in 1..count :
     stations[k].mac = mac /\ \A j \in 1..k - 1 : stations[j].mac # mac}}

\* A station that stayed on one interface through the whole refresh, and whose
\* interface answered, is found there with its own signal if it sent one, in
\* spite of others that roam, interfaces that do not answer, names that cannot
\* be read and what the slots held before.  (Unless the list is full: a station
\* that roams during the refresh may take two of its places.)
StayedIsFound ==
  ~Refreshing /\ count < MAX_STATIONS =>
    \A m \in Stations, i \in heard :
      been[m] = {i} =>
        \E e \in find_mac(m) : e.ifname = i /\ (m \notin mute => e.signal = m)

\* Whoever is found was on the interface shown, under the network shown, at
\* some time during the last refresh: no entry of an earlier refresh is served.
FoundWasThere ==
  \A m \in Stations : \A e \in find_mac(m) :
    e.ifname \in been[m] \cap heard /\ e.ssid = ssid_of[e.ifname]

=============================================================================
