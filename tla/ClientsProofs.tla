--------------------------- MODULE ClientsProofs ---------------------------
(***************************************************************************)
(* What of Clients holds for every set of stations and interfaces, every   *)
(* answer of hostapd and every rule table: a station is found where it was *)
(* during the refresh, and if it stayed there; device guesses follow the   *)
(* votes; and the replies of the ubus methods agree with each other.       *)
(***************************************************************************)
EXTENDS Clients, SummariesProofs, TLAPS

-----------------------------------------------------------------------------
(* The station list.                                                       *)

Slots == [mac: Stations \cup {Nothing}, ssid: Range(ssid_of) \cup {Nothing},
          ifname: Range(Ifaces) \cup {Nothing}, signal: Stations \cup {Nothing}]

StationLists == [stations: [1..MAX_STATIONS -> Slots], count: 0..MAX_STATIONS]

Entries == [mac: Stations \cup {Unreadable}, signal: Stations \cup {Nothing}]

\* List y is list x with more at its end.
Extends(x, y) ==
  x.count <= y.count /\ \A n \in 1..x.count : y.stations[n] = x.stations[n]

\* Slot s was written from entry e of interface i.
From(s, e, i) ==
  /\ s.mac = e.mac /\ s.mac \in Stations
  /\ s.ifname = i /\ s.ssid = ssid_of[i]
  /\ e.signal # Nothing => s.signal = e.signal

Shows(x, m) == x.count = MAX_STATIONS \/ \E n \in 1..x.count : x.stations[n].mac = m

LEMMA ListIs ==
  ASSUME NEW x
  PROVE  x \in StationLists <=> /\ x = [stations |-> x.stations, count |-> x.count]
                         /\ x.stations \in [1..MAX_STATIONS -> Slots]
                         /\ x.count \in 0..MAX_STATIONS
BY DEF StationLists

LEMMA WrittenIs ==
  ASSUME NEW s \in Slots, NEW e \in Entries, e.mac # Unreadable, NEW i \in Range(Ifaces)
  PROVE  Written(s, e, i) \in Slots /\ From(Written(s, e, i), e, i)
<1>1. ssid_of[i] \in Range(ssid_of)
  BY StaAssumption DEF Range
<1>2. e.mac \in Stations /\ e.signal \in Stations \cup {Nothing} /\ s.signal \in Stations \cup {Nothing}
  BY DEF Entries, Slots
<1>3. (IF e.signal = Nothing THEN s.signal ELSE e.signal) \in Stations \cup {Nothing}
  BY <1>2
<1> QED
  BY <1>1, <1>2, <1>3 DEF Written, Slots, From

\* One entry: nothing is taken, for one of the two reasons, or a slot is written.
LEMMA TakenIs ==
  ASSUME NEW x \in StationLists, NEW e \in Entries, NEW i \in Range(Ifaces)
  PROVE  LET y == Taken(x, e, i)
         IN  /\ y \in StationLists /\ Extends(x, y)
             /\ \A n \in x.count + 1..y.count : From(y.stations[n], e, i)
             /\ e.mac # Unreadable => Shows(y, e.mac)
<1> DEFINE y == Taken(x, e, i)
           k == x.count + 1
           z == [stations |-> [x.stations EXCEPT ![k] = Written(@, e, i)], count |-> k]
<1>1. x.stations \in [1..MAX_STATIONS -> Slots] /\ x.count \in 0..MAX_STATIONS /\ MAX_STATIONS \in Nat
  BY ListIs, StaAssumption
<1>2. CASE x.count >= MAX_STATIONS \/ e.mac = Unreadable
  <2>1. y = x
    BY <1>2 DEF Taken
  <2>2. x.count = MAX_STATIONS \/ e.mac = Unreadable
    BY <1>1, <1>2
  <2> QED
    BY <1>1, <2>1, <2>2 DEF Extends, Shows
<1>3. CASE x.count < MAX_STATIONS /\ e.mac # Unreadable
  <2>1. y = z
    BY <1>1, <1>3 DEF Taken
  <2>2. k \in 1..MAX_STATIONS /\ x.stations[k] \in Slots
    BY <1>1, <1>3
  <2> DEFINE w == Written(x.stations[k], e, i)
  <2>3. w \in Slots /\ From(w, e, i)
    BY <1>3, <2>2, WrittenIs
  <2> HIDE DEF w
  <2>4. z.count = k /\ z.stations = [x.stations EXCEPT ![k] = w]
    BY DEF w
  <2>5. /\ z.stations \in [1..MAX_STATIONS -> Slots] /\ z.stations[k] = w
        /\ \A n \in 1..x.count : z.stations[n] = x.stations[n]
    BY <1>1, <2>2, <2>3, <2>4
  <2>6. z = [stations |-> z.stations, count |-> z.count]
    OBVIOUS
  <2> HIDE DEF z
  <2>7. z \in StationLists
    <3>1. z.count \in 0..MAX_STATIONS /\ z.stations \in [1..MAX_STATIONS -> Slots]
      BY <2>2, <2>4, <2>5
    <3> QED
      BY <2>6, <3>1, Zenon DEF StationLists
  <2>8. Extends(x, z)
    BY <1>1, <2>4, <2>5 DEF Extends
  <2>9. \A n \in k..z.count : From(z.stations[n], e, i)
    BY <1>1, <2>3, <2>4, <2>5
  <2>10. Shows(z, e.mac)
    BY <2>2, <2>3, <2>4, <2>5 DEF Shows, From
  <2> QED
    BY <2>1, <2>7, <2>8, <2>9, <2>10
<1> QED
  BY <1>1, <1>2, <1>3

\* A list shows whom a list it extends shows.
LEMMA StillShows ==
  ASSUME NEW x \in StationLists, NEW y \in StationLists, Extends(x, y), NEW m, Shows(x, m)
  PROVE  Shows(y, m)
<1>1. x.count \in 0..MAX_STATIONS /\ y.count \in 0..MAX_STATIONS /\ MAX_STATIONS \in Nat
  BY ListIs, StaAssumption
<1> QED
  BY <1>1 DEF Shows, Extends

\* The list, as sta_tracker.c keeps it.
List == [stations |-> stations, count |-> count]

\* What the first k entries of an answer of interface i did to list x.
Listed(x, y, answer, k, i) ==
  /\ y \in StationLists /\ Extends(x, y)
  /\ \A n \in x.count + 1..y.count : \E j \in 1..k : From(y.stations[n], answer[j], i)
  /\ \A j \in 1..k : answer[j].mac # Unreadable => Shows(y, answer[j].mac)

LEMMA OneMoreListed ==
  ASSUME NEW x \in StationLists, NEW y, NEW answer \in Seq(Entries), NEW k \in 1..Len(answer),
         NEW i \in Range(Ifaces), Listed(x, y, answer, k - 1, i)
  PROVE  Listed(x, Taken(y, answer[k], i), answer, k, i)
<1> DEFINE z == Taken(y, answer[k], i)
<1>1. y \in StationLists /\ Extends(x, y) /\ answer[k] \in Entries
  BY DEF Listed
<1>2. /\ z \in StationLists /\ Extends(y, z)
      /\ \A n \in y.count + 1..z.count : From(z.stations[n], answer[k], i)
      /\ answer[k].mac # Unreadable => Shows(z, answer[k].mac)
  BY <1>1, TakenIs
<1> HIDE DEF z
<1>3. x.count \in Nat /\ y.count \in Nat /\ z.count \in Nat
  BY <1>1, <1>2, ListIs
<1>4. Extends(x, z)
  BY <1>1, <1>2, <1>3 DEF Extends
<1>5. ASSUME NEW n \in x.count + 1..z.count
      PROVE  \E j \in 1..k : From(z.stations[n], answer[j], i)
  <2>1. CASE n \in y.count + 1..z.count
    BY <1>2, <2>1
  <2>2. CASE n \in x.count + 1..y.count
    <3>1. z.stations[n] = y.stations[n]
      BY <1>2, <1>3, <2>2 DEF Extends
    <3>2. PICK j \in 1..k - 1 : From(y.stations[n], answer[j], i)
      BY <2>2 DEF Listed
    <3> QED
      BY <3>1, <3>2
  <2> QED
    BY <1>3, <2>1, <2>2
<1>6. ASSUME NEW j \in 1..k, answer[j].mac # Unreadable PROVE Shows(z, answer[j].mac)
  <2>1. CASE j = k
    BY <1>2, <1>6, <2>1
  <2>2. CASE j \in 1..k - 1
    <3>1. Shows(y, answer[j].mac)
      BY <1>6, <2>2 DEF Listed
    <3> QED
      BY <1>1, <1>2, <3>1, StillShows
  <2> QED
    BY <2>1, <2>2
<1>7. Listed(x, z, answer, k, i)
  BY <1>2, <1>4, <1>5, <1>6 DEF Listed
<1> QED
  BY <1>7 DEF z

LEMMA AnswerListed ==
  ASSUME List \in StationLists, NEW answer \in Seq(Entries), NEW i \in Range(Ifaces),
         clients_cb(answer, i)
  PROVE  Listed(List, List', answer, Len(answer), i)
<1> DEFINE n == Len(answer)
           x == List
           step == [k \in 1..n |-> [y \in StationLists |-> Taken(y, answer[k], i)]]
           Is(g) == g = [k \in 0..n |-> IF k = 0 THEN x ELSE Taken(g[k - 1], answer[k], i)]
           list == CHOOSE g : Is(g)
<1>1. n \in Nat
  OBVIOUS
<1>2. ASSUME NEW k \in 1..n, NEW y \in StationLists PROVE Taken(y, answer[k], i) \in StationLists
  BY TakenIs
<1>3. step \in [1..n -> [StationLists -> StationLists]]
  <2> HIDE DEF n
  <2> QED
    BY <1>2
<1>4. PICK f : Runs(f, n, StationLists, x, step)
  <2> HIDE DEF n, step, x
  <2>1. x \in StationLists
    BY DEF x
  <2> QED
    BY <1>1, <1>3, <2>1, RunExists
<1>5. Is(f)
  <2> HIDE DEF n, x
  <2>1. f = [k \in 0..n |-> f[k]] /\ f[0] = x
    BY <1>4 DEF Runs
  <2>2. ASSUME NEW k \in 1..n PROVE f[k] = Taken(f[k - 1], answer[k], i)
    <3>1. f[k - 1] \in StationLists /\ f[k] = step[k][f[k - 1]]
      BY <1>1, <1>4 DEF Runs
    <3> QED
      BY <3>1
  <2>3. ASSUME NEW k \in 0..n
        PROVE  f[k] = IF k = 0 THEN x ELSE Taken(f[k - 1], answer[k], i)
    BY <1>1, <2>1, <2>2
  <2> QED
    BY <2>1, <2>3
<1>6. Is(list)
  <2> HIDE DEF Is
  <2> QED
    BY <1>5
<1>7. stations' = list[n].stations /\ count' = list[n].count
  BY DEF clients_cb, List
<1>8. Listed(x, list[n], answer, n, i)
  <2> HIDE DEF list, n, x
  <2> DEFINE T == {k \in 0..n : Listed(x, list[k], answer, k, i)}
  <2>1. 0 \in T
    <3>1. list[0] = x /\ x \in StationLists /\ x.count \in Nat
      BY <1>1, <1>6, ListIs DEF x
    <3> QED
      BY <1>1, <3>1 DEF Listed, Extends
  <2>2. ASSUME NEW k \in 1..n, k - 1 \in T PROVE k \in T
    <3>1. list[k] = Taken(list[k - 1], answer[k], i) /\ x \in StationLists /\ k \in 1..Len(answer)
      BY <1>1, <1>6 DEF x, n
    <3>2. Listed(x, list[k - 1], answer, k - 1, i)
      BY <2>2
    <3> QED
      BY <1>1, <3>1, <3>2, OneMoreListed
  <2>3. n \in 0..n
    BY <1>1
  <2> HIDE DEF T
  <2>4. n \in T
    BY <1>1, <2>1, <2>2, <2>3, UpTo
  <2> QED
    BY <2>4 DEF T
<1>9. List' = list[n]
  <2>1. list[n] = [stations |-> list[n].stations, count |-> list[n].count]
    <3> HIDE DEF list, n
    <3> QED
      BY <1>8, ListIs DEF Listed
  <2> QED
    BY <1>7, <2>1 DEF List
<1> QED
  BY <1>8, <1>9

\* What hostapd may answer: each station that is on the interface, once, and only
\* those, one entry perhaps unreadable.
LEMMA AnswersAre ==
  ASSUME NEW i, NEW answer \in Answers(i)
  PROVE  /\ answer \in Seq(Entries)
         /\ \A j \in 1..Len(answer) : answer[j].mac # Unreadable =>
              on[answer[j].mac] = i /\ answer[j].signal \in {Nothing, answer[j].mac}
         /\ \A m \in Stations : on[m] = i => \E j \in 1..Len(answer) : answer[j].mac = m
<1> DEFINE here == {m \in Stations : on[m] = i}
           orders == {o \in [1..Cardinality(here) -> here] : Range(o) = here}
           line(o, q) == [n \in DOMAIN o |->
                            [mac |-> o[n], signal |-> IF o[n] \in q THEN Nothing ELSE o[n]]]
           lists == UNION {{line(o, q) : o \in orders} : q \in SUBSET here}
           junk == [mac |-> Unreadable, signal |-> Nothing]
           c == Cardinality(here)
<1>1. PICK l \in lists : answer = l \/ answer = <<junk>> \o l
  <2>1. Answers(i) = lists \cup {<<junk>> \o l : l \in lists}
    BY DEF Answers
  <2> HIDE DEF lists, junk
  <2> QED
    BY <2>1
<1>2. PICK q \in SUBSET here, o \in orders : l = line(o, q)
  <2> HIDE DEF here, orders, line
  <2> QED
    OBVIOUS
<1>3. c \in Nat
  <2>1. IsFiniteSet(here)
    BY StaAssumption, FS_Subset
  <2> QED
    BY <2>1, FS_CardinalityType
<1>4. o \in [1..c -> here] /\ \A m \in here : \E j \in 1..c : o[j] = m
  <2>1. o \in [1..c -> here] /\ Range(o) = here
    OBVIOUS
  <2> HIDE DEF c, here, orders
  <2> QED
    BY <2>1 DEF Range
<1>5. \A j \in 1..c :
        /\ l[j].mac = o[j] /\ l[j].signal \in {Nothing, o[j]}
        /\ l[j] \in Entries
  <2> HIDE DEF c
  <2> QED
    BY <1>2, <1>4 DEF Entries
<1>6. l = [j \in 1..c |-> l[j]]
  <2> HIDE DEF c
  <2> QED
    BY <1>2, <1>4
<1>7. l \in Seq(Entries) /\ Len(l) = c
  <2>1. l \in [1..c -> Entries]
    <3> HIDE DEF c
    <3> QED
      BY <1>5, <1>6
  <2> HIDE DEF c
  <2> QED
    BY <1>3, <2>1
<1>8. junk \in Entries
  BY DEF Entries
<1>9. CASE answer = l
  <2> HIDE DEF c
  <2>1. answer \in Seq(Entries) /\ Len(answer) = c
    BY <1>7, <1>9
  <2>2. ASSUME NEW m \in Stations, on[m] = i PROVE \E j \in 1..Len(answer) : answer[j].mac = m
    <3>1. PICK j \in 1..c : o[j] = m
      BY <1>4, <2>2
    <3>2. answer[j].mac = m
      BY <1>5, <1>9, <3>1
    <3> QED
      BY <2>1, <3>2
  <2>3. ASSUME NEW j \in 1..Len(answer)
        PROVE  on[answer[j].mac] = i /\ answer[j].signal \in {Nothing, answer[j].mac}
    <3>1. answer[j].mac = o[j] /\ answer[j].signal \in {Nothing, o[j]}
      BY <1>5, <1>9, <2>1
    <3>2. on[o[j]] = i
      BY <1>4, <2>1
    <3> QED
      BY <3>1, <3>2
  <2> QED
    BY <2>1, <2>2, <2>3
<1>10. CASE answer = <<junk>> \o l
  <2> HIDE DEF c
  <2>1. answer \in Seq(Entries) /\ Len(answer) = c + 1
    <3> HIDE DEF junk
    <3> QED
      BY <1>3, <1>7, <1>8, <1>10
  <2>2. answer[1] = junk /\ \A j \in 1..c : answer[j + 1] = l[j]
    <3> HIDE DEF junk
    <3> QED
      BY <1>3, <1>7, <1>8, <1>10
  <2>3. ASSUME NEW j \in 1..Len(answer), answer[j].mac # Unreadable
        PROVE  j - 1 \in 1..c /\ answer[j] = l[j - 1]
    <3>1. j # 1
      BY <2>2, <2>3
    <3>2. j - 1 \in 1..c /\ (j - 1) + 1 = j
      BY <1>3, <2>1, <3>1
    <3> QED
      BY <2>2, <3>2
  <2>4. ASSUME NEW m \in Stations, on[m] = i PROVE \E j \in 1..Len(answer) : answer[j].mac = m
    <3>1. PICK j \in 1..c : o[j] = m
      BY <1>4, <2>4
    <3>2. j + 1 \in 1..Len(answer)
      BY <1>3, <2>1
    <3>3. answer[j + 1].mac = m
      BY <1>5, <2>2, <3>1
    <3> QED
      BY <3>2, <3>3
  <2>5. ASSUME NEW j \in 1..Len(answer), answer[j].mac # Unreadable
        PROVE  on[answer[j].mac] = i /\ answer[j].signal \in {Nothing, answer[j].mac}
    <3>1. j - 1 \in 1..c /\ answer[j] = l[j - 1]
      BY <2>3, <2>5
    <3>2. answer[j].mac = o[j - 1] /\ answer[j].signal \in {Nothing, o[j - 1]}
      BY <1>5, <3>1
    <3>3. on[o[j - 1]] = i
      BY <1>4, <3>1
    <3> QED
      BY <3>2, <3>3
  <2> QED
    BY <2>1, <2>4, <2>5
<1> QED
  BY <1>1, <1>9, <1>10

-----------------------------------------------------------------------------
(* Who is found, and where.                                                *)

\* Slot s shows a station where it was, on an interface that answered.
SlotOK(s) ==
  /\ s.mac \in Stations
  /\ s.ifname \in been[s.mac] \cap heard
  /\ s.ssid = ssid_of[s.ifname]
  /\ s.signal = s.mac \/ s.mac \in mute

ListType ==
  /\ List \in StationLists
  /\ on \in [Stations -> Places] /\ been \in [Stations -> SUBSET Places]
  /\ asking \in 0..Len(Ifaces)

\* Who stayed on an interface that answered is listed; while a refresh is under
\* way each station's present place is one of those it was at.
StayedIsListed ==
  /\ Refreshing => \A m \in Stations : on[m] \in been[m]
  /\ \A m \in Stations, i \in heard : been[m] = {i} => Shows(List, m)

ListInv ==
  /\ ListType
  /\ \A n \in 1..count : SlotOK(stations[n])
  /\ StayedIsListed

\* A refresh keeps to the interfaces it asks.
LEMMA AskedIface ==
  ASSUME ListType, Refreshing
  PROVE  Ifaces[Len(Ifaces) - asking + 1] \in Range(Ifaces)
<1>1. Ifaces \in Seq(Range(Ifaces))
  BY StaAssumption
<1>2. Len(Ifaces) - asking + 1 \in 1..Len(Ifaces)
  BY <1>1 DEF ListType, Refreshing
<1> QED
  BY <1>1, <1>2

LEMMA ListInitially == StaInit => ListInv
<1> SUFFICES ASSUME StaInit PROVE ListInv
  OBVIOUS
<1>1. count = 0 /\ asking = 0 /\ heard = {}
  BY DEF StaInit
<1> DEFINE empty == [mac |-> Nothing, ssid |-> Nothing, ifname |-> Nothing, signal |-> Nothing]
<1>2. List \in StationLists
  <2>1. empty \in Slots
    BY DEF Slots
  <2>2. stations = [n \in 1..MAX_STATIONS |-> empty]
    BY DEF StaInit
  <2>3. stations \in [1..MAX_STATIONS -> Slots]
    <3> HIDE DEF empty
    <3> QED
      BY <2>1, <2>2
  <2>4. count \in 0..MAX_STATIONS
    BY <1>1, StaAssumption
  <2> QED
    BY <2>3, <2>4 DEF List, StationLists
<1>3. on \in [Stations -> Places] /\ been \in [Stations -> SUBSET Places]
  BY DEF StaInit, Places
<1>4. asking \in 0..Len(Ifaces)
  BY <1>1, StaAssumption
<1> QED
  BY <1>1, <1>2, <1>3, <1>4 DEF ListInv, ListType, StayedIsListed, Refreshing

LEMMA RefreshBeginsKeeps == ListInv /\ RefreshBegins => ListInv'
<1> SUFFICES ASSUME ListInv, RefreshBegins PROVE ListInv'
  OBVIOUS
<1>1. /\ count' = 0 /\ stations' = stations /\ on' = on /\ heard' = {}
      /\ asking' = Len(Ifaces) /\ been' = [m \in Stations |-> {on[m]}]
  BY DEF RefreshBegins
<1>2. stations \in [1..MAX_STATIONS -> Slots] /\ on \in [Stations -> Places]
  BY ListIs DEF ListInv, ListType, List
<1>3. List' \in StationLists
  <2>1. count' \in 0..MAX_STATIONS
    BY <1>1, StaAssumption
  <2> QED
    BY <1>1, <1>2, <2>1 DEF List, StationLists
<1>4. been' \in [Stations -> SUBSET Places] /\ \A m \in Stations : on'[m] \in been'[m]
  BY <1>1, <1>2
<1>5. asking' \in 0..Len(Ifaces)
  BY <1>1, StaAssumption
<1> QED
  BY <1>1, <1>2, <1>3, <1>4, <1>5 DEF ListInv, ListType, StayedIsListed

LEMMA AskIfaceKeeps == ListInv /\ AskIface => ListInv'
<1> SUFFICES ASSUME ListInv, AskIface PROVE ListInv'
  OBVIOUS
<1> DEFINE i == Ifaces[Len(Ifaces) - asking + 1]
<1>1. /\ Refreshing /\ asking' = asking - 1 /\ on' = on /\ been' = been
      /\ \/ UNCHANGED <<listVars, heard, mute>>
         \/ \E answer \in Answers(i) :
              /\ clients_cb(answer, i)
              /\ heard' = heard \cup {i}
              /\ mute' = mute \cup {e.mac : e \in {x \in Range(answer) : x.signal = Nothing}}
  BY DEF AskIface
<1>2. i \in Range(Ifaces)
  BY <1>1, AskedIface DEF ListInv
<1>3. asking' \in 0..Len(Ifaces)
  BY <1>1, StaAssumption DEF Refreshing, ListInv, ListType
<1>4. \A m \in Stations : on'[m] \in been'[m]
  BY <1>1 DEF ListInv, StayedIsListed
<1> HIDE DEF i
<1>5. CASE UNCHANGED <<listVars, heard, mute>>
  <2>1. List' = List /\ heard' = heard /\ mute' = mute /\ count' = count /\ stations' = stations
    BY <1>5 DEF listVars, List
  <2> QED
    BY <1>1, <1>3, <1>4, <2>1 DEF ListInv, ListType, StayedIsListed, SlotOK
<1>6. ASSUME NEW answer \in Answers(i), clients_cb(answer, i), heard' = heard \cup {i},
             mute' = mute \cup {e.mac : e \in {x \in Range(answer) : x.signal = Nothing}}
      PROVE  ListInv'
  <2>1. /\ answer \in Seq(Entries)
        /\ \A j \in 1..Len(answer) : answer[j].mac # Unreadable =>
             on[answer[j].mac] = i /\ answer[j].signal \in {Nothing, answer[j].mac}
        /\ \A m \in Stations : on[m] = i => \E j \in 1..Len(answer) : answer[j].mac = m
    BY <1>6, AnswersAre
  <2>2. List \in StationLists
    BY DEF ListInv, ListType
  <2>3. Listed(List, List', answer, Len(answer), i)
    BY <1>2, <1>6, <2>1, <2>2, AnswerListed
  <2>4. List' \in StationLists /\ Extends(List, List')
    BY <2>3 DEF Listed
  <2>5. count \in Nat /\ count' \in Nat /\ List.count = count /\ List'.count = count'
        /\ List.stations = stations /\ List'.stations = stations'
    BY <2>2, <2>4, ListIs DEF List
  <2>6. ASSUME NEW n \in 1..count PROVE SlotOK(stations[n])'
    <3>1. stations'[n] = stations[n]
      BY <2>4, <2>5 DEF Extends
    <3>2. SlotOK(stations[n])
      BY DEF ListInv
    <3> QED
      BY <1>1, <1>6, <3>1, <3>2 DEF SlotOK
  <2>7. ASSUME NEW n \in count + 1..count' PROVE SlotOK(stations[n])'
    <3>1. PICK j \in 1..Len(answer) : From(stations'[n], answer[j], i)
      BY <2>3, <2>5 DEF Listed
    <3> DEFINE e == answer[j]
               s == stations'[n]
    <3>2. s.mac = e.mac /\ s.mac \in Stations /\ s.ifname = i /\ s.ssid = ssid_of[i]
      BY <3>1 DEF From
    <3>3. on[e.mac] = i /\ e.signal \in {Nothing, e.mac}
      BY <2>1, <3>2, StaAssumption
    <3>4. i \in been'[s.mac] \cap heard'
      BY <1>1, <1>4, <1>6, <3>2, <3>3
    <3>5. s.signal = s.mac \/ s.mac \in mute'
      <4>1. CASE e.signal = Nothing
        <5>1. e \in Range(answer)
          <6>1. j \in DOMAIN answer
            BY <2>1
          <6> QED
            BY <6>1, Zenon DEF Range
        <5> HIDE DEF e, s
        <5>2. e.mac \in mute'
          BY <1>6, <4>1, <5>1
        <5> QED
          BY <3>2, <5>2
      <4>2. CASE e.signal = e.mac /\ e.signal # Nothing
        BY <3>1, <3>2, <4>2 DEF From
      <4> QED
        BY <3>3, <4>1, <4>2
    <3> QED
      BY <3>2, <3>4, <3>5 DEF SlotOK
  <2>8. \A n \in 1..count' : SlotOK(stations[n])'
    BY <2>5, <2>6, <2>7
  <2>9. ASSUME NEW m \in Stations, NEW h \in heard', been'[m] = {h} PROVE Shows(List', m)
    <3>1. CASE h \in heard
      <4>1. Shows(List, m)
        BY <1>1, <2>9, <3>1 DEF ListInv, StayedIsListed
      <4> QED
        BY <2>2, <2>4, <4>1, StillShows
    <3>2. CASE h = i
      <4>1. on[m] = i
        BY <1>1, <1>4, <2>9, <3>2
      <4>2. PICK j \in 1..Len(answer) : answer[j].mac = m
        BY <2>1, <4>1
      <4>3. m # Unreadable
        BY StaAssumption
      <4> QED
        BY <2>3, <4>2, <4>3 DEF Listed
    <3> QED
      BY <1>6, <2>9, <3>1, <3>2
  <2>10. ListType'
    BY <1>1, <1>3, <2>4 DEF ListInv, ListType
  <2>11. StayedIsListed'
    BY <1>4, <2>9 DEF StayedIsListed
  <2> QED
    BY <2>8, <2>10, <2>11 DEF ListInv
<1> QED
  BY <1>1, <1>5, <1>6

LEMMA RoamKeeps == ListInv /\ Roam => ListInv'
<1> SUFFICES ASSUME ListInv, Roam PROVE ListInv'
  OBVIOUS
<1>1. PICK m \in Stations, p \in Places :
        /\ p # on[m] /\ on' = [on EXCEPT ![m] = p]
        /\ been' = IF Refreshing THEN [been EXCEPT ![m] = @ \cup {p}] ELSE been
  BY DEF Roam
<1>2. /\ List' = List /\ heard' = heard /\ mute' = mute /\ count' = count
      /\ stations' = stations /\ asking' = asking
  BY DEF Roam, listVars, List
<1>3. on \in [Stations -> Places] /\ been \in [Stations -> SUBSET Places]
  BY DEF ListInv, ListType
<1>4. on' \in [Stations -> Places] /\ been' \in [Stations -> SUBSET Places]
  BY <1>1, <1>3
<1>5. \A x \in Stations : been[x] \subseteq been'[x]
  BY <1>1, <1>3
<1>6. Refreshing => \A x \in Stations : on'[x] \in been'[x]
  BY <1>1, <1>3 DEF ListInv, StayedIsListed
<1>7. ASSUME NEW x \in Stations, NEW h \in heard', been'[x] = {h} PROVE Shows(List', x)
  <2>1. been[x] = {h}
    <3>1. CASE Refreshing
      <4>1. on[x] \in been[x]
        BY <3>1 DEF ListInv, StayedIsListed
      <4> QED
        BY <1>5, <1>7, <4>1
    <3>2. CASE ~Refreshing
      BY <1>1, <1>7, <3>2
    <3> QED
      BY <3>1, <3>2
  <2> QED
    BY <1>2, <2>1 DEF ListInv, StayedIsListed
<1>8. ASSUME NEW n \in 1..count' PROVE SlotOK(stations[n])'
  <2>1. SlotOK(stations[n])
    BY <1>2 DEF ListInv
  <2> QED
    BY <1>2, <1>5, <2>1 DEF SlotOK
<1>9. ListType'
  BY <1>2, <1>4 DEF ListInv, ListType
<1>10. StayedIsListed'
  BY <1>2, <1>6, <1>7 DEF StayedIsListed, Refreshing
<1> QED
  BY <1>8, <1>9, <1>10 DEF ListInv

LEMMA ListStays == ListInv /\ UNCHANGED staVars => ListInv'
BY DEF ListInv, ListType, StayedIsListed, SlotOK, List, Refreshing, staVars

LEMMA ListIsKept == ListInv /\ [ClientsNext]_clientsVars => ListInv'
<1> SUFFICES ASSUME ListInv, [ClientsNext]_clientsVars PROVE ListInv'
  OBVIOUS
<1>1. CASE Packets \/ Expire \/ classify_timer_cb
  BY <1>1, ListStays DEF Packets, Expire, classify_timer_cb, Works
<1>2. CASE sta_timer_cb
  BY <1>2, RefreshBeginsKeeps, AskIfaceKeeps DEF sta_timer_cb
<1>3. CASE StationMoves
  BY <1>3, RoamKeeps DEF StationMoves
<1>4. CASE UNCHANGED clientsVars
  BY <1>4, ListStays DEF clientsVars
<1> QED
  BY <1>1, <1>2, <1>3, <1>4 DEF ClientsNext

LEMMA FoundIs ==
  ASSUME ListInv, NEW m \in Stations, NEW e \in find_mac(m)
  PROVE  SlotOK(e) /\ e.mac = m
BY DEF find_mac, ListInv

\* A listed station is found.
LEMMA ListedIsFound ==
  ASSUME ListType, NEW m, NEW k \in 1..count, stations[k].mac = m
  PROVE  find_mac(m) # {}
<1> DEFINE T == {n \in 1..count : stations[n].mac = m}
<1>1. T \subseteq Nat /\ T # {}
  OBVIOUS
<1>2. PICK n \in T : \A j \in T : n <= j
  <2> HIDE DEF T
  <2> QED
    BY <1>1, LeastElement
<1>3. count \in Nat
  BY ListIs DEF ListType, List
<1>4. \A j \in 1..n - 1 : stations[j].mac # m
  BY <1>2, <1>3
<1> QED
  BY <1>2, <1>4 DEF find_mac

\* Of the list that a refresh wrote (sta_tracker.c, clients_cb), while stations
\* roam between the questions: a station is only shown on an interface that
\* answered and that it was on meanwhile, and with that interface's network.
THEOREM ShownWhereItWas == ClientsSpec => []FoundWasThere
<1>1. ClientsInit => ListInv
  BY ListInitially DEF ClientsInit
<1>2. ListInv => FoundWasThere
  BY FoundIs DEF FoundWasThere, SlotOK
<1> QED
  BY <1>1, <1>2, ListIsKept, PTL DEF ClientsSpec

\* And it is shown, with its own signal if it sent one, if it stayed where it was
\* and its interface answered: unless the list is full.
THEOREM WhoStaysIsShown == ClientsSpec => []StayedIsFound
<1>1. ClientsInit => ListInv
  BY ListInitially DEF ClientsInit
<1>2. ListInv => StayedIsFound
  <2> SUFFICES ASSUME ListInv, count < MAX_STATIONS, NEW m \in Stations, NEW i \in heard,
                      been[m] = {i}
               PROVE  \E e \in find_mac(m) : e.ifname = i /\ (m \notin mute => e.signal = m)
    BY DEF StayedIsFound
  <2>1. List.count = count /\ List.stations = stations /\ count \in Nat
    BY ListIs DEF ListInv, ListType, List
  <2>2. Shows(List, m)
    BY DEF ListInv, StayedIsListed
  <2>3. PICK k \in 1..count : stations[k].mac = m
    BY <2>1, <2>2, StaAssumption DEF Shows
  <2>4. PICK e \in find_mac(m) : TRUE
    BY <2>3, ListedIsFound DEF ListInv
  <2>5. SlotOK(e) /\ e.mac = m
    BY FoundIs
  <2> QED
    BY <2>5 DEF SlotOK
<1> QED
  BY <1>1, <1>2, ListIsKept, PTL DEF ClientsSpec

-----------------------------------------------------------------------------
(* The device records.                                                     *)

Tallies == [Types -> Nat]

\* The smallest of the types with the most votes.
Best(v) == Min({t \in Types : v[t] = Max(Range(v))})

Confidences == {0} \cup {(100 * Max(Range(v))) \div SumFunction(v) : v \in Tallies}

\* A record while a flow is counted.
Open == [mac: Macs, votes: Tallies, best_guess: Types, confidence: Confidences,
         oui_applied: BOOLEAN]

\* A record between two flows.
Records == {r \in Open : r.oui_applied = TRUE /\ r.best_guess = Best(r.votes)}

Rules == [type: Types \ {DEV_UNKNOWN}, weight: Nat \ {0}]

Grown(v, w) == \A t \in Types : v[t] <= w[t]

\* What the vendor of mac says of type t.
VendorVote(mac, t) ==
  IF mac \in DOMAIN oui_rules /\ oui_rules[mac].type = t THEN oui_rules[mac].weight ELSE 0

\* The rules of apply_dns_rules and apply_iot_hint have nothing to say of flow f.
Silent(f, dst_domain) ==
  /\ f.dns_hint \notin DOMAIN dns_rules
  /\ dst_domain \notin DOMAIN dns_rules
  /\ ~IotPattern(f)

LEMMA OpenIs ==
  ASSUME NEW r \in Open
  PROVE  /\ r = [mac |-> r.mac, votes |-> r.votes, best_guess |-> r.best_guess,
                 confidence |-> r.confidence, oui_applied |-> r.oui_applied]
         /\ r.mac \in Macs /\ r.votes \in Tallies /\ r.best_guess \in Types
         /\ r.confidence \in Confidences /\ r.oui_applied \in BOOLEAN
BY DEF Open

LEMMA MostVotes ==
  ASSUME NEW v \in Tallies
  PROVE  /\ Best(v) \in Types /\ v[Best(v)] = Max(Range(v))
         /\ \A t \in Types : v[t] <= v[Best(v)]
         /\ \A t \in Types : v[t] = v[Best(v)] => Best(v) <= t
<1> DEFINE R == Range(v)
<1>1. \A t \in Types : v[t] \in Nat /\ v[t] \in R
  BY DEF Tallies, Range
<1>2. R \subseteq Nat /\ \A n \in R : \E t \in Types : v[t] = n
  BY DEF Tallies, Range
<1>3. R # {}
  <2>1. 0 \in Types
    BY DEF Types
  <2> QED
    BY <1>1, <2>1
<1>4. PICK b \in Nat : \A n \in R : n <= b
  <2> DEFINE b == v[0] + v[1] + v[2] + v[3] + v[4] + v[5] + v[6] + v[7] + v[8] + v[9]
  <2>1. b \in Nat /\ \A t \in Types : v[t] <= b
    <3> HIDE DEF R
    <3> QED
      BY <1>1 DEF Types
  <2> HIDE DEF b, R
  <2> QED
    BY <1>2, <2>1
<1>5. PICK m \in R : \A n \in R : n <= m
  <2> HIDE DEF R
  <2> QED
    BY <1>2, <1>3, <1>4, GreatestElement
<1>6. Max(R) \in R /\ \A n \in R : n <= Max(R)
  <2> HIDE DEF R
  <2>1. \A n \in R : m >= n
    BY <1>2, <1>5
  <2>2. Max(R) \in R /\ \A n \in R : Max(R) >= n
    BY <2>1 DEF Max
  <2> QED
    BY <1>2, <2>2
<1> DEFINE T == {t \in Types : v[t] = Max(R)}
<1>7. T \subseteq Nat /\ T # {} /\ Best(v) = Min(T)
  BY <1>2, <1>6 DEF Types, Best
<1>8. PICK l \in T : \A t \in T : l <= t
  <2> HIDE DEF T
  <2> QED
    BY <1>7, LeastElement
<1>9. Min(T) \in T /\ \A t \in T : Min(T) <= t
  <2> HIDE DEF T
  <2> QED
    BY <1>8 DEF Min
<1> QED
  BY <1>1, <1>6, <1>7, <1>9

LEMMA VoteIs ==
  ASSUME NEW r \in Open, NEW u \in Rules
  PROVE  LET s == Vote(r, u)
         IN  /\ s \in Open /\ s.mac = r.mac /\ s.oui_applied = r.oui_applied
             /\ Grown(r.votes, s.votes)
             /\ \A t \in Types : s.votes[t] = r.votes[t] + IF t = u.type THEN u.weight ELSE 0
<1> DEFINE w == [r.votes EXCEPT ![u.type] = @ + u.weight]
<1>1. Vote(r, u) = [r EXCEPT !.votes = w]
  BY OpenIs DEF Vote
<1>2. r.votes \in Tallies /\ u.type \in Types /\ u.weight \in Nat
  BY OpenIs DEF Rules
<1>3. w \in Tallies /\ \A t \in Types : w[t] = r.votes[t] + IF t = u.type THEN u.weight ELSE 0
  BY <1>2 DEF Tallies
<1>4. Grown(r.votes, w)
  BY <1>2, <1>3 DEF Tallies, Grown
<1> HIDE DEF w
<1>5. [r EXCEPT !.votes = w] =
        [mac |-> r.mac, votes |-> w, best_guess |-> r.best_guess,
         confidence |-> r.confidence, oui_applied |-> r.oui_applied]
  BY OpenIs
<1>6. Vote(r, u) \in Open
  BY <1>1, <1>3, <1>5, OpenIs DEF Open
<1> QED
  BY <1>1, <1>3, <1>4, <1>5, <1>6

LEMMA RulesAre ==
  /\ \A name \in DOMAIN dns_rules : dns_rules[name] \in Rules
  /\ \A mac \in DOMAIN oui_rules : oui_rules[mac] \in Rules
  /\ [type |-> DEV_IOT, weight |-> 1] \in Rules
<1>1. \A name \in DOMAIN dns_rules : dns_rules[name] \in Rules
  BY FpAssumption DEF Range, Rules
<1>2. \A mac \in DOMAIN oui_rules : oui_rules[mac] \in Rules
  BY FpAssumption DEF Range, Rules
<1>3. DEV_IOT \in Types \ {DEV_UNKNOWN}
  BY DEF DEV_IOT, DEV_UNKNOWN, Types
<1>4. [type |-> DEV_IOT, weight |-> 1] \in Rules
  BY <1>3 DEF Rules
<1> QED
  BY <1>1, <1>2, <1>4

\* Record s is r with, perhaps, more votes.
Later(r, s) ==
  s \in Open /\ s.mac = r.mac /\ Grown(r.votes, s.votes)

LEMMA GrownIsOrder ==
  /\ \A v \in Tallies : Grown(v, v)
  /\ \A u, v, w \in Tallies : Grown(u, v) /\ Grown(v, w) => Grown(u, w)
<1>1. \A v \in Tallies : \A t \in Types : v[t] \in Nat
  BY DEF Tallies
<1> QED
  BY <1>1 DEF Grown

LEMMA LaterIsOrder ==
  ASSUME NEW r \in Open
  PROVE  /\ Later(r, r)
         /\ \A s, x \in Open : Later(r, s) /\ Later(s, x) => Later(r, x)
BY OpenIs, GrownIsOrder DEF Later

LEMMA DnsRulesAre ==
  ASSUME NEW r \in Open, NEW name
  PROVE  LET s == apply_dns_rules(r, name)
         IN  /\ Later(r, s) /\ s.oui_applied = r.oui_applied
             /\ name \notin DOMAIN dns_rules => s = r
<1>1. CASE name \in DOMAIN dns_rules
  BY <1>1, RulesAre, VoteIs DEF apply_dns_rules, Later
<1>2. CASE name \notin DOMAIN dns_rules
  BY <1>2, LaterIsOrder DEF apply_dns_rules
<1> QED
  BY <1>1, <1>2

LEMMA IotHintIs ==
  ASSUME NEW r \in Open, NEW f
  PROVE  LET s == apply_iot_hint(r, f)
         IN  /\ Later(r, s) /\ s.oui_applied = r.oui_applied
             /\ ~IotPattern(f) => s = r
<1>1. CASE IotPattern(f)
  BY <1>1, RulesAre, VoteIs DEF apply_iot_hint, Later
<1>2. CASE ~IotPattern(f)
  BY <1>2, LaterIsOrder DEF apply_iot_hint
<1> QED
  BY <1>1, <1>2

\* The vendor votes once: when the record is new.
LEMMA OuiRulesAre ==
  ASSUME NEW r \in Open
  PROVE  LET s == apply_oui_rules(r)
         IN  /\ Later(r, s) /\ s.oui_applied = TRUE
             /\ \A t \in Types :
                  s.votes[t] = r.votes[t] + IF r.oui_applied THEN 0 ELSE VendorVote(r.mac, t)
<1> DEFINE d == [r EXCEPT !.oui_applied = TRUE]
<1>1. d = [mac |-> r.mac, votes |-> r.votes, best_guess |-> r.best_guess,
           confidence |-> r.confidence, oui_applied |-> TRUE]
  <2>1. r = [mac |-> r.mac, votes |-> r.votes, best_guess |-> r.best_guess,
             confidence |-> r.confidence, oui_applied |-> r.oui_applied]
    BY OpenIs
  <2> DEFINE m == r.mac
             v == r.votes
             g == r.best_guess
             c == r.confidence
             o == r.oui_applied
             yes == TRUE
  <2>2. r = [mac |-> m, votes |-> v, best_guess |-> g, confidence |-> c, oui_applied |-> o]
    BY <2>1
  <2>3. d = [r EXCEPT !.oui_applied = yes]
    OBVIOUS
  <2> HIDE DEF d, m, v, g, c, o, yes
  <2>4. d = [mac |-> m, votes |-> v, best_guess |-> g, confidence |-> c, oui_applied |-> yes]
    BY <2>2, <2>3
  <2> QED
    BY <2>4 DEF m, v, g, c, yes
<1>2. d \in Open /\ d.mac = r.mac /\ d.votes = r.votes /\ d.oui_applied = TRUE
  BY <1>1, OpenIs DEF Open
<1>3. r.votes \in Tallies /\ \A t \in Types : r.votes[t] \in Nat
  BY OpenIs DEF Tallies
<1> HIDE DEF d
<1>4. CASE r.oui_applied \/ r.mac \notin DOMAIN oui_rules
  <2>1. apply_oui_rules(r) = d
    BY <1>4 DEF apply_oui_rules, d
  <2>2. \A t \in Types : (IF r.oui_applied THEN 0 ELSE VendorVote(r.mac, t)) = 0
    BY <1>4 DEF VendorVote
  <2> QED
    BY <1>2, <1>3, <2>1, <2>2, GrownIsOrder DEF Later
<1>5. CASE ~r.oui_applied /\ r.mac \in DOMAIN oui_rules
  <2> DEFINE u == oui_rules[r.mac]
             s == Vote(d, u)
  <2>1. apply_oui_rules(r) = s
    BY <1>5 DEF apply_oui_rules, d
  <2>2. u \in Rules
    BY <1>5, RulesAre
  <2>3. /\ s \in Open /\ s.mac = d.mac /\ s.oui_applied = d.oui_applied
        /\ Grown(d.votes, s.votes)
        /\ \A t \in Types : s.votes[t] = d.votes[t] + IF t = u.type THEN u.weight ELSE 0
    BY <1>2, <2>2, VoteIs
  <2>4. \A t \in Types : VendorVote(r.mac, t) = IF t = u.type THEN u.weight ELSE 0
    BY <1>5 DEF VendorVote
  <2> HIDE DEF s, u
  <2> QED
    BY <1>2, <1>5, <2>1, <2>3, <2>4 DEF Later
<1> QED
  BY <1>4, <1>5

LEMMA ResolvedIs ==
  ASSUME NEW r \in Open
  PROVE  LET s == resolve_device(r)
         IN  /\ s \in Open /\ s.mac = r.mac /\ s.votes = r.votes
             /\ s.oui_applied = r.oui_applied /\ s.best_guess = Best(r.votes)
<1> DEFINE b == Best(r.votes)
           n == SumFunction(r.votes)
           c == IF n = 0 THEN 0 ELSE (100 * Max(Range(r.votes))) \div n
           s == [mac |-> r.mac, votes |-> r.votes, best_guess |-> b,
                 confidence |-> c, oui_applied |-> r.oui_applied]
<1>1. r.votes \in Tallies /\ b \in Types
  BY OpenIs, MostVotes
<1>2. c \in Confidences
  BY <1>1 DEF Confidences
<1>3. resolve_device(r) = s
  <2>1. resolve_device(r) = [r EXCEPT !.best_guess = b, !.confidence = c]
    BY DEF resolve_device, Best
  <2> HIDE DEF b, c
  <2> QED
    BY <2>1, OpenIs
<1>4. s \in Open
  <2> HIDE DEF b, c
  <2> QED
    BY <1>1, <1>2, OpenIs DEF Open
<1> QED
  BY <1>3, <1>4

LEMMA JudgedIs ==
  ASSUME NEW r \in Open, NEW f, NEW dst_domain
  PROVE  LET s == Judged(r, f, dst_domain)
         IN  /\ s \in Records /\ Later(r, s)
             /\ Silent(f, dst_domain) =>
                  \A t \in Types :
                    s.votes[t] = r.votes[t] + IF r.oui_applied THEN 0 ELSE VendorVote(r.mac, t)
<1> DEFINE a == apply_dns_rules(r, f.dns_hint)
           b == apply_dns_rules(a, dst_domain)
           c == apply_oui_rules(b)
           d == apply_iot_hint(c, f)
           s == resolve_device(d)
<1>1. /\ Later(r, a) /\ a.oui_applied = r.oui_applied
      /\ f.dns_hint \notin DOMAIN dns_rules => a = r
  BY DnsRulesAre
<1>2. /\ Later(a, b) /\ b.oui_applied = a.oui_applied
      /\ dst_domain \notin DOMAIN dns_rules => b = a
  BY <1>1, DnsRulesAre DEF Later
<1>3. /\ Later(b, c) /\ c.oui_applied = TRUE
      /\ \A t \in Types :
           c.votes[t] = b.votes[t] + IF b.oui_applied THEN 0 ELSE VendorVote(b.mac, t)
  BY <1>2, OuiRulesAre DEF Later
<1>4. Later(c, d) /\ d.oui_applied = c.oui_applied /\ (~IotPattern(f) => d = c)
  BY <1>3, IotHintIs DEF Later
<1>5. /\ s \in Open /\ s.mac = d.mac /\ s.votes = d.votes
      /\ s.oui_applied = d.oui_applied /\ s.best_guess = Best(d.votes)
  BY <1>4, ResolvedIs DEF Later
<1>6. Judged(r, f, dst_domain) = s
  BY DEF Judged
<1> HIDE DEF a, b, c, d, s
<1>7. s \in Records
  BY <1>3, <1>4, <1>5 DEF Records
<1>8. Later(r, s)
  <2>1. Later(d, s)
    BY <1>4, <1>5, LaterIsOrder, OpenIs, GrownIsOrder DEF Later
  <2>2. a \in Open /\ b \in Open /\ c \in Open /\ d \in Open
    BY <1>1, <1>2, <1>3, <1>4 DEF Later
  <2>3. Later(r, b)
    BY <1>1, <1>2, <2>2, LaterIsOrder
  <2>4. Later(r, c)
    BY <1>3, <2>2, <2>3, LaterIsOrder
  <2>5. Later(r, d)
    BY <1>4, <2>2, <2>4, LaterIsOrder
  <2> QED
    BY <1>5, <2>1, <2>2, <2>5, LaterIsOrder
<1>9. ASSUME Silent(f, dst_domain), NEW t \in Types
      PROVE  s.votes[t] = r.votes[t] + IF r.oui_applied THEN 0 ELSE VendorVote(r.mac, t)
  <2>1. a = r /\ b = a /\ d = c
    BY <1>1, <1>2, <1>4, <1>9 DEF Silent
  <2> QED
    BY <1>3, <1>5, <2>1
<1> QED
  BY <1>6, <1>7, <1>8, <1>9

\* The devices known between two flows: each MAC once.
Devs == {x \in Seq(Records) : \A i, j \in 1..Len(x) : x[i].mac = x[j].mac => i = j}

\* Every device of x is in y, at its place, with its votes and perhaps more.
Older(x, y) ==
  /\ Len(x) <= Len(y)
  /\ \A i \in 1..Len(x) : y[i].mac = x[i].mac /\ Grown(x[i].votes, y[i].votes)

\* Of a device that is not in H, no one but its vendor has voted.
VendorsOnly(x, H) ==
  \A i \in 1..Len(x) : x[i].mac \notin H =>
    \A t \in Types : x[i].votes[t] = VendorVote(x[i].mac, t)

LEMMA DevsAre ==
  ASSUME NEW x \in Devs
  PROVE  /\ Len(x) \in Nat /\ DOMAIN x = 1..Len(x)
         /\ \A i \in 1..Len(x) : x[i] \in Records /\ x[i] \in Open
         /\ \A i, j \in 1..Len(x) : x[i].mac = x[j].mac => i = j
BY DEF Devs, Records

LEMMA NewIs ==
  ASSUME NEW mac \in Macs
  PROVE  LET r == NewDevice(mac)
         IN  /\ r \in Open /\ r.mac = mac /\ r.oui_applied = FALSE
             /\ \A t \in Types : r.votes[t] = 0
<1> DEFINE v == [t \in Types |-> 0]
<1>1. v \in Tallies /\ \A t \in Types : v[t] = 0
  BY DEF Tallies
<1>2. DEV_UNKNOWN \in Types /\ 0 \in Confidences
  BY DEF DEV_UNKNOWN, Types, Confidences
<1>3. NewDevice(mac) = [mac |-> mac, votes |-> v, best_guess |-> DEV_UNKNOWN,
                        confidence |-> 0, oui_applied |-> FALSE]
  BY DEF NewDevice
<1> HIDE DEF v
<1> QED
  BY <1>1, <1>2, <1>3 DEF Open

LEMMA KnownIs ==
  ASSUME NEW x \in Devs, NEW mac \in Macs
  PROVE  LET y == find_or_create(x, mac)
         IN  /\ y \in Seq(Open) /\ Len(x) <= Len(y)
             /\ \A i, j \in 1..Len(y) : y[i].mac = y[j].mac => i = j
             /\ \A i \in 1..Len(x) : y[i] = x[i]
             /\ \A i \in Len(x) + 1..Len(y) : y[i] = NewDevice(mac)
<1> DEFINE y == find_or_create(x, mac)
           r == NewDevice(mac)
<1>1. x \in Seq(Open) /\ Len(x) \in Nat
  BY DEF Devs, Records
<1>2. CASE y = x
  BY <1>1, <1>2, DevsAre
<1>3. CASE Evidence(x, mac) = {} /\ y = Append(x, r)
  <2>1. r \in Open /\ r.mac = mac
    BY NewIs
  <2> HIDE DEF y, r
  <2>2. y \in Seq(Open) /\ Len(y) = Len(x) + 1 /\ y[Len(x) + 1] = r
    BY <1>1, <1>3, <2>1
  <2>3. \A i \in 1..Len(x) : y[i] = x[i]
    BY <1>1, <1>3, <2>1
  <2>4. \A i \in 1..Len(x) : x[i].mac # mac
    BY <1>3, DevsAre DEF Evidence
  <2>5. \A i \in 1..Len(y) : i \in 1..Len(x) \/ i = Len(x) + 1
    BY <1>1, <2>2
  <2>6. ASSUME NEW i \in 1..Len(y), NEW j \in 1..Len(y), y[i].mac = y[j].mac PROVE i = j
    <3>1. CASE i \in 1..Len(x) /\ j \in 1..Len(x)
      BY <2>3, <2>6, <3>1, DevsAre
    <3>2. CASE ~(i \in 1..Len(x) /\ j \in 1..Len(x))
      BY <2>1, <2>2, <2>3, <2>4, <2>5, <2>6, <3>2
    <3> QED
      BY <3>1, <3>2
  <2>7. \A i \in Len(x) + 1..Len(y) : y[i] = r
    BY <1>1, <2>2
  <2> QED
    BY <1>1, <2>2, <2>3, <2>6, <2>7 DEF y, r
<1>4. CASE Evidence(x, mac) # {} \/ Len(x) >= FP_MAX_DEVICES
  BY <1>2, <1>4 DEF find_or_create
<1>5. CASE Evidence(x, mac) = {} /\ ~(Len(x) >= FP_MAX_DEVICES)
  BY <1>3, <1>5 DEF find_or_create
<1> QED
  BY <1>4, <1>5

LEMMA OneFlow ==
  ASSUME NEW x \in Devs, NEW f, f.src_mac \in Macs, NEW dst_domain
  PROVE  LET z == device_fp_analyze_flow(x, f, dst_domain)
         IN  /\ z \in Devs /\ Older(x, z)
             /\ \A H : /\ VendorsOnly(x, H)
                       /\ f.src_mac \in H \/ Silent(f, dst_domain)
                       => VendorsOnly(z, H)
<1> DEFINE y == find_or_create(x, f.src_mac)
           z == [i \in DOMAIN y |->
                   IF y[i].mac = f.src_mac THEN Judged(y[i], f, dst_domain) ELSE y[i]]
<1>1. /\ y \in Seq(Open) /\ Len(x) <= Len(y)
      /\ \A i, j \in 1..Len(y) : y[i].mac = y[j].mac => i = j
      /\ \A i \in 1..Len(x) : y[i] = x[i]
      /\ \A i \in Len(x) + 1..Len(y) : y[i] = NewDevice(f.src_mac)
  BY KnownIs
<1>2. device_fp_analyze_flow(x, f, dst_domain) = z
  BY DEF device_fp_analyze_flow
<1>3. /\ Len(x) \in Nat /\ \A i \in 1..Len(x) : x[i] \in Records /\ x[i] \in Open
  BY DevsAre
<1> HIDE DEF y
<1>4. Len(y) \in Nat /\ DOMAIN y = 1..Len(y) /\ \A i \in 1..Len(y) : y[i] \in Open
  BY <1>1
<1>5. ASSUME NEW i \in 1..Len(y)
      PROVE  /\ z[i] \in Records /\ Later(y[i], z[i])
             /\ y[i].mac # f.src_mac => z[i] = y[i]
             /\ y[i].mac = f.src_mac => z[i] = Judged(y[i], f, dst_domain)
  <2>1. CASE y[i].mac = f.src_mac
    <3>1. z[i] = Judged(y[i], f, dst_domain)
      BY <1>4, <2>1
    <3> QED
      BY <1>4, <2>1, <3>1, JudgedIs
  <2>2. CASE y[i].mac # f.src_mac
    <3>1. z[i] = y[i]
      BY <1>4, <2>2
    <3>2. i \in 1..Len(x)
      <4>1. i \in Len(x) + 1..Len(y) => y[i].mac = f.src_mac
        BY <1>1, NewIs
      <4> QED
        BY <1>3, <1>4, <2>2, <4>1
    <3> QED
      BY <1>1, <1>3, <1>4, <2>2, <3>1, <3>2, LaterIsOrder
  <2> QED
    BY <2>1, <2>2
<1>6. z \in Seq(Records) /\ Len(z) = Len(y)
  <2>1. DOMAIN z = 1..Len(y) /\ z = [i \in 1..Len(y) |-> z[i]]
    BY <1>4
  <2> HIDE DEF z
  <2>2. z \in [1..Len(y) -> Records]
    BY <1>5, <2>1
  <2> QED
    BY <1>4, <2>2
<1> HIDE DEF z
<1>7. \A i \in 1..Len(y) : z[i].mac = y[i].mac /\ Grown(y[i].votes, z[i].votes)
  BY <1>5 DEF Later
<1>8. z \in Devs
  BY <1>1, <1>6, <1>7 DEF Devs
<1>9. Older(x, z)
  <2>1. \A i \in 1..Len(x) : i \in 1..Len(y) /\ y[i] = x[i]
    BY <1>1, <1>3, <1>4
  <2> QED
    BY <1>1, <1>6, <1>7, <2>1 DEF Older
<1>10. ASSUME NEW H, VendorsOnly(x, H), f.src_mac \in H \/ Silent(f, dst_domain)
       PROVE  VendorsOnly(z, H)
  <2> SUFFICES ASSUME NEW i \in 1..Len(z), z[i].mac \notin H, NEW t \in Types
               PROVE  z[i].votes[t] = VendorVote(z[i].mac, t)
    BY DEF VendorsOnly
  <2>1. i \in 1..Len(y) /\ z[i].mac = y[i].mac
    BY <1>6, <1>7
  <2>2. i \in 1..Len(x) => y[i].votes[t] = VendorVote(y[i].mac, t) /\ y[i].oui_applied = TRUE
    BY <1>1, <1>3, <1>10, <2>1 DEF VendorsOnly, Records
  <2>3. i \notin 1..Len(x) =>
          /\ y[i].votes[t] = 0 /\ y[i].oui_applied = FALSE /\ y[i].mac = f.src_mac
    <3>1. i \notin 1..Len(x) => i \in Len(x) + 1..Len(y)
      BY <1>3, <1>4, <2>1
    <3>2. i \notin 1..Len(x) => y[i] = NewDevice(f.src_mac)
      BY <1>1, <3>1
    <3> DEFINE r == NewDevice(f.src_mac)
    <3>3. r.votes[t] = 0 /\ r.oui_applied = FALSE /\ r.mac = f.src_mac
      BY NewIs
    <3> HIDE DEF r
    <3>4. i \notin 1..Len(x) => y[i] = r
      BY <3>2 DEF r
    <3> QED
      BY <3>3, <3>4, Zenon
  <2>4. CASE y[i].mac # f.src_mac
    BY <1>5, <2>1, <2>2, <2>3, <2>4
  <2>5. CASE y[i].mac = f.src_mac
    <3>1. Silent(f, dst_domain)
      BY <1>10, <2>1, <2>5
    <3>2. z[i] = Judged(y[i], f, dst_domain) /\ y[i] \in Open
      BY <1>4, <1>5, <2>1, <2>5
    <3>3. z[i].votes[t] =
            y[i].votes[t] + IF y[i].oui_applied THEN 0 ELSE VendorVote(y[i].mac, t)
      BY <3>1, <3>2, JudgedIs
    <3>4. z[i].votes[t] \in Nat
      BY <1>5, <2>1, OpenIs DEF Records, Tallies
    <3>5. VendorVote(y[i].mac, t) \in Nat
      BY RulesAre DEF VendorVote, Rules
    <3>6. CASE i \in 1..Len(x)
      BY <2>1, <2>2, <3>3, <3>5, <3>6
    <3>7. CASE i \notin 1..Len(x)
      BY <2>1, <2>3, <3>3, <3>5, <3>7
    <3> QED
      BY <3>6, <3>7
  <2> QED
    BY <2>4, <2>5
<1> QED
  BY <1>2, <1>8, <1>9, <1>10

LEMMA OlderIsOrder ==
  /\ \A x \in Devs : Older(x, x)
  /\ \A x, y, z \in Devs : Older(x, y) /\ Older(y, z) => Older(x, z)
<1>1. ASSUME NEW x \in Devs, NEW i \in 1..Len(x) PROVE x[i].votes \in Tallies
  BY DevsAre, OpenIs
<1>2. ASSUME NEW x \in Devs PROVE Older(x, x)
  BY <1>1, DevsAre, GrownIsOrder DEF Older
<1>3. ASSUME NEW x \in Devs, NEW y \in Devs, NEW z \in Devs, Older(x, y), Older(y, z)
      PROVE  Older(x, z)
  <2>1. Len(x) \in Nat /\ Len(y) \in Nat /\ Len(z) \in Nat /\ Len(x) <= Len(y) /\ Len(y) <= Len(z)
    BY <1>3, DevsAre DEF Older
  <2>2. ASSUME NEW i \in 1..Len(x)
        PROVE  z[i].mac = x[i].mac /\ Grown(x[i].votes, z[i].votes)
    <3>1. i \in 1..Len(y) /\ i \in 1..Len(z)
      BY <2>1
    <3>2. y[i].mac = x[i].mac /\ Grown(x[i].votes, y[i].votes)
      BY <1>3 DEF Older
    <3>3. z[i].mac = y[i].mac /\ Grown(y[i].votes, z[i].votes)
      BY <1>3, <3>1 DEF Older
    <3> QED
      BY <1>1, <3>1, <3>2, <3>3, GrownIsOrder
  <2> QED
    BY <2>1, <2>2 DEF Older
<1> QED
  BY <1>2, <1>3

\* The flows, and who sent them.
FlowOK(f) ==
  /\ f = [src_mac |-> f.src_mac, kind |-> f.kind, cls |-> f.cls, app |-> f.app]
  /\ f.src_mac \in Macs /\ f.kind \in Kinds /\ f.cls \in Classes

FlowsOK ==
  /\ DOMAIN flow \subseteq Range(Keys)
  /\ \A k \in DOMAIN flow : FlowOK(flow[k])

\* What a pass over any of the flows makes of the devices.
Passed(x, known) ==
  /\ x \in Devs /\ Older(devices, x)
  /\ \A H : /\ VendorsOnly(devices, H)
            /\ \A k \in DOMAIN flow : flow[k].src_mac \in H \/ ~Votes(Seen(k, known))
            => VendorsOnly(x, H)

\* One flow of the pass.
OfKey(x, k, known) ==
  IF k \notin DOMAIN flow THEN x
  ELSE device_fp_analyze_flow(x, Seen(k, known), Seen(k, known).dst_domain)

LEMMA OneKeyPassed ==
  ASSUME FlowsOK, devices \in Devs, NEW known, NEW x \in Devs, NEW k
  PROVE  OfKey(x, k, known) \in Devs /\ (Passed(x, known) => Passed(OfKey(x, k, known), known))
<1> DEFINE f == Seen(k, known)
           z == device_fp_analyze_flow(x, f, f.dst_domain)
<1>1. CASE k \notin DOMAIN flow
  BY <1>1 DEF OfKey
<1>2. CASE k \in DOMAIN flow
  <2>1. OfKey(x, k, known) = z
    BY <1>2 DEF OfKey
  <2>2. f.src_mac = flow[k].src_mac /\ f.src_mac \in Macs
    BY <1>2 DEF Seen, Signals, FlowsOK, FlowOK
  <2>3. ~Votes(f) => Silent(f, f.dst_domain)
    BY DEF Votes, Silent
  <2> HIDE DEF f
  <2>4. /\ z \in Devs /\ Older(x, z)
        /\ \A H : /\ VendorsOnly(x, H)
                  /\ f.src_mac \in H \/ Silent(f, f.dst_domain)
                  => VendorsOnly(z, H)
    BY <2>2, OneFlow
  <2> HIDE DEF z
  <2>5. ASSUME Passed(x, known) PROVE Passed(z, known)
    <3>1. Older(devices, z)
      BY <2>4, <2>5, OlderIsOrder DEF Passed
    <3>2. ASSUME NEW H, VendorsOnly(devices, H),
                 \A j \in DOMAIN flow : flow[j].src_mac \in H \/ ~Votes(Seen(j, known))
          PROVE  VendorsOnly(z, H)
      <4>1. VendorsOnly(x, H)
        BY <2>5, <3>2 DEF Passed
      <4>2. f.src_mac \in H \/ Silent(f, f.dst_domain)
        BY <1>2, <2>2, <2>3, <3>2 DEF f
      <4> QED
        BY <2>4, <4>1, <4>2
    <3> QED
      BY <2>4, <3>1, <3>2 DEF Passed
  <2> QED
    BY <2>1, <2>4, <2>5
<1> QED
  BY <1>1, <1>2

LEMMA AnalyzedIs ==
  ASSUME FlowsOK, devices \in Devs, NEW known
  PROVE  Passed(Analyzed(known), known)
<1> DEFINE n == Len(Keys)
           step == [i \in 1..n |-> [x \in Devs |-> OfKey(x, Keys[i], known)]]
           Is(g) == g = [i \in 0..n |->
                           IF i = 0 THEN devices
                           ELSE IF Keys[i] \notin DOMAIN flow THEN g[i - 1]
                           ELSE LET s == Seen(Keys[i], known)
                                IN  device_fp_analyze_flow(g[i - 1], s, s.dst_domain)]
           after == CHOOSE g : Is(g)
<1>1. n \in Nat
  BY ClientsAssumption
<1>2. step \in [1..n -> [Devs -> Devs]]
  <2> HIDE DEF n
  <2> QED
    BY OneKeyPassed
<1>3. PICK g : Runs(g, n, Devs, devices, step)
  <2> HIDE DEF n, step
  <2> QED
    BY <1>1, <1>2, RunExists
<1>4. \A h : Is(h) <=> h = [i \in 0..n |-> IF i = 0 THEN devices ELSE OfKey(h[i - 1], Keys[i], known)]
  BY DEF OfKey
<1>5. Is(g)
  <2> HIDE DEF n
  <2>1. g = [i \in 0..n |-> g[i]] /\ g[0] = devices
    BY <1>3 DEF Runs
  <2>2. ASSUME NEW i \in 1..n PROVE g[i] = OfKey(g[i - 1], Keys[i], known)
    <3>1. g[i - 1] \in Devs /\ g[i] = step[i][g[i - 1]]
      BY <1>1, <1>3 DEF Runs
    <3> QED
      BY <3>1
  <2>3. ASSUME NEW i \in 0..n
        PROVE  g[i] = IF i = 0 THEN devices ELSE OfKey(g[i - 1], Keys[i], known)
    <3>1. CASE i = 0
      BY <2>1, <3>1
    <3>2. CASE i \in 1..n
      <4>1. i # 0
        BY <3>2
      <4> QED
        BY <2>2, <3>2, <4>1, Zenon
    <3> QED
      BY <1>1, <3>1, <3>2
  <2> HIDE DEF Is
  <2> QED
    BY <1>4, <2>1, <2>3
<1>6. Is(after)
  <2> HIDE DEF Is
  <2> QED
    BY <1>5
<1>7. Analyzed(known) = after[n]
  BY DEF Analyzed
<1>8. after = [i \in 0..n |-> IF i = 0 THEN devices ELSE OfKey(after[i - 1], Keys[i], known)]
  <2> HIDE DEF Is, after
  <2> QED
    BY <1>4, <1>6
<1> HIDE DEF after, n
<1> DEFINE T == {i \in 0..n : Passed(after[i], known)}
<1>9. 0 \in T
  <2>1. after[0] = devices
    BY <1>1, <1>8
  <2> QED
    BY <1>1, <2>1, OlderIsOrder DEF Passed
<1>10. ASSUME NEW i \in 1..n, i - 1 \in T PROVE i \in T
  <2>1. Passed(after[i - 1], known) /\ after[i - 1] \in Devs
    BY <1>10 DEF Passed
  <2>2. after[i] = OfKey(after[i - 1], Keys[i], known)
    BY <1>1, <1>8
  <2>3. Passed(after[i], known)
    BY <2>1, <2>2, OneKeyPassed
  <2> QED
    BY <2>3
<1>11. n \in T
  <2> HIDE DEF T
  <2>1. 0..n \subseteq T
    BY <1>1, <1>9, <1>10, UpTo
  <2> QED
    BY <1>1, <2>1
<1> QED
  BY <1>7, <1>11

DeviceInv == devices \in Devs /\ VendorsOnly(devices, hinted) /\ FlowsOK

LEMMA PassKeepsDevices ==
  ASSUME DeviceInv, classify_timer_cb
  PROVE  DeviceInv' /\ Older(devices, devices')
<1>1. PICK known \in SUBSET DOMAIN flow :
        /\ devices' = Analyzed(known)
        /\ hinted' = hinted \cup
             {flow[k].src_mac : k \in {j \in DOMAIN flow : Votes(Seen(j, known))}}
  BY DEF classify_timer_cb
<1>2. flow' = [k \in DOMAIN flow |-> Verdict(flow[k])]
  BY DEF classify_timer_cb
<1>3. Passed(devices', known)
  BY <1>1, AnalyzedIs DEF DeviceInv
<1>4. VendorsOnly(devices', hinted')
  <2>1. VendorsOnly(devices, hinted')
    BY <1>1 DEF DeviceInv, VendorsOnly
  <2>2. \A k \in DOMAIN flow : flow[k].src_mac \in hinted' \/ ~Votes(Seen(k, known))
    BY <1>1
  <2> QED
    BY <1>3, <2>1, <2>2 DEF Passed
<1>5. FlowsOK'
  <2> SUFFICES ASSUME NEW k \in DOMAIN flow' PROVE k \in Range(Keys) /\ FlowOK(flow'[k])
    BY DEF FlowsOK
  <2> DEFINE f == flow[k]
  <2>1. k \in DOMAIN flow /\ flow'[k] = Verdict(f)
    BY <1>2
  <2>2. FlowOK(f) /\ k \in Range(Keys)
    BY <2>1 DEF DeviceInv, FlowsOK
  <2>3. f.kind.cls \in Classes
    BY <2>2, ClientsAssumption DEF FlowOK
  <2> HIDE DEF f
  <2> QED
    BY <2>1, <2>2, <2>3 DEF Verdict, FlowOK
<1> QED
  BY <1>3, <1>4, <1>5 DEF DeviceInv, Passed

LEMMA PacketsKeepDevices ==
  ASSUME DeviceInv, Packets
  PROVE  DeviceInv' /\ devices' = devices
<1>1. PICK k \in Range(Keys), kind \in Kinds : \E mac \in senders[k] :
        LET r == IF k \in DOMAIN flow THEN [flow[k] EXCEPT !.kind = kind]
                 ELSE [src_mac |-> mac, kind |-> kind, cls |-> Unclassified, app |-> NoApp]
        IN  flow' = [j \in DOMAIN flow \cup {k} |-> IF j = k THEN r ELSE flow[j]]
  BY DEF Packets
<1>2. PICK mac \in senders[k] :
        LET r == IF k \in DOMAIN flow THEN [flow[k] EXCEPT !.kind = kind]
                 ELSE [src_mac |-> mac, kind |-> kind, cls |-> Unclassified, app |-> NoApp]
        IN  flow' = [j \in DOMAIN flow \cup {k} |-> IF j = k THEN r ELSE flow[j]]
  BY <1>1
<1> DEFINE r == IF k \in DOMAIN flow THEN [flow[k] EXCEPT !.kind = kind]
                ELSE [src_mac |-> mac, kind |-> kind, cls |-> Unclassified, app |-> NoApp]
<1>3. mac \in Macs
  BY ClientsAssumption DEF Macs, Range
<1>4. FlowOK(r)
  <2>1. CASE k \in DOMAIN flow
    <3> DEFINE f == flow[k]
    <3>1. FlowOK(f)
      BY <2>1 DEF DeviceInv, FlowsOK
    <3>2. r = [f EXCEPT !.kind = kind]
      BY <2>1
    <3> HIDE DEF f, r
    <3>3. r = [src_mac |-> f.src_mac, kind |-> kind, cls |-> f.cls, app |-> f.app]
      BY <3>1, <3>2 DEF FlowOK
    <3> QED
      BY <3>1, <3>3 DEF FlowOK
  <2>2. CASE k \notin DOMAIN flow
    <3>1. r = [src_mac |-> mac, kind |-> kind, cls |-> Unclassified, app |-> NoApp]
      BY <2>2
    <3> HIDE DEF r
    <3> QED
      BY <1>3, <3>1, ClientsAssumption DEF FlowOK
  <2> QED
    BY <2>1, <2>2
<1>5. \A j \in DOMAIN flow : FlowOK(flow[j])
  BY DEF DeviceInv, FlowsOK
<1>6. flow' = [j \in DOMAIN flow \cup {k} |-> IF j = k THEN r ELSE flow[j]]
  BY <1>2
<1>7. \A j \in DOMAIN flow' : FlowOK(flow'[j])
  <2> HIDE DEF r
  <2> QED
    BY <1>4, <1>5, <1>6
<1>8. FlowsOK'
  BY <1>6, <1>7 DEF FlowsOK, DeviceInv
<1> QED
  BY <1>8 DEF Packets, DeviceInv

LEMMA DevicesStay ==
  ASSUME DeviceInv, UNCHANGED <<devices, hinted>>,
         \A k \in DOMAIN flow' : k \in DOMAIN flow /\ flow'[k] = flow[k]
  PROVE  DeviceInv' /\ devices' = devices
BY DEF DeviceInv, FlowsOK

LEMMA DevicesOnlyGrow ==
  ASSUME DeviceInv, [ClientsNext]_clientsVars
  PROVE  DeviceInv' /\ Older(devices, devices')
<1>1. Older(devices, devices)
  BY OlderIsOrder DEF DeviceInv
<1>2. CASE Packets
  BY <1>1, <1>2, PacketsKeepDevices
<1>3. CASE classify_timer_cb
  BY <1>3, PassKeepsDevices
<1>4. CASE Expire \/ sta_timer_cb \/ StationMoves \/ UNCHANGED clientsVars
  <2>1. UNCHANGED <<devices, hinted>>
    BY <1>4 DEF Expire, sta_timer_cb, StationMoves, clientsVars
  <2>2. \A k \in DOMAIN flow' : k \in DOMAIN flow /\ flow'[k] = flow[k]
    BY <1>4 DEF Expire, sta_timer_cb, StationMoves, clientsVars
  <2> QED
    BY <1>1, <2>1, <2>2, DevicesStay
<1> QED
  BY <1>2, <1>3, <1>4 DEF ClientsNext

LEMMA DevicesInitially == ClientsInit => DeviceInv
BY DEF ClientsInit, DeviceInv, Devs, VendorsOnly, FlowsOK

\* What a record says of its MAC: there is one, at most.
LEMMA RecordIs ==
  ASSUME NEW x \in Devs
  PROVE  /\ \A mac : Evidence(x, mac) = {} \/ \E i \in 1..Len(x) : x[i].mac = mac
         /\ \A i \in 1..Len(x) :
              /\ device_fp_get_type(x, x[i].mac) = x[i].best_guess
              /\ \A t \in Types : VotesFor(x, x[i].mac, t) = x[i].votes[t]
<1>1. DOMAIN x = 1..Len(x) /\ \A i, j \in 1..Len(x) : x[i].mac = x[j].mac => i = j
  BY DevsAre
<1>2. ASSUME NEW i \in 1..Len(x) PROVE Evidence(x, x[i].mac) = {i}
  BY <1>1 DEF Evidence
<1>3. \A i : (CHOOSE j \in {i} : TRUE) = i
  OBVIOUS
<1> QED
  BY <1>1, <1>2, <1>3 DEF Evidence, device_fp_get_type, VotesFor

\* A device is taken for something else (device_fingerprint.c, resolve_device) only
\* when something was voted for that; with more votes for what it was taken for
\* already, it is not.
LEMMA OtherGuess ==
  ASSUME NEW v \in Tallies, NEW w \in Tallies, Grown(v, w), Best(w) # Best(v)
  PROVE  v[Best(w)] < w[Best(w)]
<1> DEFINE b == Best(v)
           c == Best(w)
<1>1. /\ b \in Types /\ \A t \in Types : v[t] <= v[b]
      /\ \A t \in Types : v[t] = v[b] => b <= t
  BY MostVotes
<1>2. /\ c \in Types /\ \A t \in Types : w[t] <= w[c]
      /\ \A t \in Types : w[t] = w[c] => c <= t
  BY MostVotes
<1>3. {v[b], v[c], w[b], w[c]} \subseteq Nat /\ {b, c} \subseteq Int
  BY <1>1, <1>2 DEF Tallies, Types
<1>4. v[b] <= w[b] /\ v[c] <= w[c] /\ v[c] <= v[b] /\ w[b] <= w[c]
  BY <1>1, <1>2 DEF Grown
<1>5. SUFFICES ASSUME ~(v[c] < w[c]) PROVE FALSE
  OBVIOUS
<1>6. v[c] = v[b] /\ w[b] = w[c]
  BY <1>3, <1>4, <1>5
<1>7. b <= c /\ c <= b /\ b # c
  BY <1>1, <1>2, <1>6
<1> HIDE DEF b, c
<1> QED
  BY <1>3, <1>7

LEMMA NewGuess ==
  ASSUME NEW w \in Tallies, Best(w) # DEV_UNKNOWN
  PROVE  0 < w[Best(w)]
<1>1. /\ Best(w) \in Types /\ \A t \in Types : w[t] <= w[Best(w)]
      /\ \A t \in Types : w[t] = w[Best(w)] => Best(w) <= t
  BY MostVotes
<1>2. 0 \in Types /\ \A t \in Types : w[t] \in Nat /\ t \in Nat
  BY DEF Types, Tallies
<1> QED
  BY <1>1, <1>2 DEF DEV_UNKNOWN

\* The votes of a device never get fewer, also when the table is full, and a guess
\* changes only in favour of a type that has just been voted for
\* (device_fingerprint.c, device_fp_analyze_flow), although every pass over the
\* flows counts all their votes again.
THEOREM GuessesFollowVotes == ClientsSpec => GuessFollowsVotes
<1> DEFINE Keeps(mac) ==
             \A t \in Types : VotesFor(devices, mac, t) <= VotesFor(devices', mac, t)
           Earns(mac) ==
             LET guess == device_fp_get_type(devices', mac)
             IN  guess # device_fp_get_type(devices, mac) =>
                   VotesFor(devices, mac, guess) < VotesFor(devices', mac, guess)
           Follows ==
             \A mac \in Macs :
               LET guess == device_fp_get_type(devices', mac)
               IN  /\ \A t \in Types : VotesFor(devices, mac, t) <= VotesFor(devices', mac, t)
                   /\ guess # device_fp_get_type(devices, mac) =>
                        VotesFor(devices, mac, guess) < VotesFor(devices', mac, guess)
<1>1. ASSUME DeviceInv, [ClientsNext]_clientsVars PROVE Follows
  <2> SUFFICES ASSUME NEW mac PROVE Keeps(mac) /\ Earns(mac)
    OBVIOUS
  <2>1. devices \in Devs /\ devices' \in Devs /\ Older(devices, devices')
    BY <1>1, DevicesOnlyGrow DEF DeviceInv
  <2>2. CASE Evidence(devices, mac) # {}
    <3>1. PICK i \in 1..Len(devices) : devices[i].mac = mac
      BY <2>1, <2>2, RecordIs
    <3> DEFINE r == devices[i]
               s == devices'[i]
    <3>2. i \in 1..Len(devices') /\ s.mac = mac /\ Grown(r.votes, s.votes)
      BY <2>1, <3>1, DevsAre DEF Older
    <3>3. r \in Records /\ s \in Records
      BY <2>1, <3>1, <3>2, DevsAre
    <3>4. /\ device_fp_get_type(devices, mac) = r.best_guess
          /\ device_fp_get_type(devices', mac) = s.best_guess
          /\ \A t \in Types : VotesFor(devices, mac, t) = r.votes[t]
          /\ \A t \in Types : VotesFor(devices', mac, t) = s.votes[t]
      BY <2>1, <3>1, <3>2, RecordIs
    <3> HIDE DEF r, s
    <3>5. /\ r.votes \in Tallies /\ s.votes \in Tallies
          /\ r.best_guess = Best(r.votes) /\ s.best_guess = Best(s.votes)
      BY <3>3, OpenIs DEF Records
    <3>6. Best(s.votes) \in Types
      BY <3>5, MostVotes
    <3>7. r.best_guess # s.best_guess => r.votes[Best(s.votes)] < s.votes[Best(s.votes)]
      BY <3>2, <3>4, <3>5, OtherGuess
    <3>8. Keeps(mac)
      BY <3>2, <3>4 DEF Grown
    <3>9. Earns(mac)
      BY <3>4, <3>5, <3>6, <3>7
    <3> QED
      BY <3>8, <3>9
  <2>3. CASE Evidence(devices, mac) = {}
    <3>1. device_fp_get_type(devices, mac) = DEV_UNKNOWN
      BY <2>3 DEF device_fp_get_type
    <3>2. \A t : VotesFor(devices, mac, t) = 0
      BY <2>3 DEF VotesFor
    <3>3. CASE Evidence(devices', mac) = {}
      <4>1. /\ device_fp_get_type(devices', mac) = DEV_UNKNOWN
            /\ \A t : VotesFor(devices', mac, t) = 0
        BY <3>3 DEF device_fp_get_type, VotesFor
      <4> QED
        BY <3>1, <3>2, <4>1
    <3>4. CASE Evidence(devices', mac) # {}
      <4>1. PICK i \in 1..Len(devices') : devices'[i].mac = mac
        BY <2>1, <3>4, RecordIs
      <4> DEFINE s == devices'[i]
      <4>2. /\ s \in Records /\ device_fp_get_type(devices', mac) = s.best_guess
            /\ \A t \in Types : VotesFor(devices', mac, t) = s.votes[t]
        BY <2>1, <4>1, RecordIs, DevsAre
      <4> HIDE DEF s
      <4>3. s.votes \in Tallies /\ s.best_guess = Best(s.votes)
        BY <4>2, OpenIs DEF Records
      <4>4. Best(s.votes) \in Types
        BY <4>3, MostVotes
      <4>5. s.best_guess # DEV_UNKNOWN => 0 < s.votes[Best(s.votes)]
        BY <4>3, NewGuess
      <4>6. Keeps(mac)
        BY <3>2, <4>2, <4>3 DEF Tallies
      <4>7. Earns(mac)
        BY <3>1, <3>2, <4>2, <4>3, <4>4, <4>5
      <4> QED
        BY <4>6, <4>7
    <3> QED
      BY <3>3, <3>4
  <2> QED
    BY <2>2, <2>3
<1>2. DeviceInv /\ [ClientsNext]_clientsVars => DeviceInv'
  BY DevicesOnlyGrow
<1> HIDE DEF Follows
<1>3. DeviceInv /\ [ClientsNext]_clientsVars => Follows
  BY <1>1
<1>4. ClientsSpec => [][Follows]_clientsVars
  BY <1>2, <1>3, DevicesInitially, PTL DEF ClientsSpec
<1> QED
  BY <1>4 DEF Follows, GuessFollowsVotes

\* A device of which no flow ever told a name or showed the pattern of a sensor has
\* the vote of its MAC's vendor, once, however many passes saw its flows
\* (device_fingerprint.c, apply_oui_rules with oui_applied).
THEOREM VendorsVoteOnce == ClientsSpec => []VendorVotesOnce
<1>1. DeviceInv /\ [ClientsNext]_clientsVars => DeviceInv'
  BY DevicesOnlyGrow
<1>2. DeviceInv => VendorVotesOnce
  BY DevsAre DEF DeviceInv, VendorsOnly, VendorVotesOnce, VendorVote
<1> QED
  BY <1>1, <1>2, DevicesInitially, PTL DEF ClientsSpec

-----------------------------------------------------------------------------
(* The replies.                                                            *)

\* seen[n] has the flows a visit to the buckets has found after n of Keys.
IsSeen(seen) ==
  /\ seen \in [0..Len(Keys) -> Seq(Range(Keys))]
  /\ seen[0] = <<>>
  /\ \A i \in 1..Len(Keys) :
       seen[i] = IF Keys[i] \in DOMAIN flow THEN Append(seen[i - 1], Keys[i]) ELSE seen[i - 1]

LEMMA TrackedIs == \E seen : IsSeen(seen) /\ Tracked = seen[Len(Keys)]
<1> DEFINE n == Len(Keys)
           K == Range(Keys)
           next(x, i) == IF Keys[i] \in DOMAIN flow THEN Append(x, Keys[i]) ELSE x
           step == [i \in 1..n |-> [x \in Seq(K) |-> next(x, i)]]
           Is(g) == g = [i \in 0..n |->
                           IF i = 0 THEN <<>>
                           ELSE IF Keys[i] \in DOMAIN flow THEN Append(g[i - 1], Keys[i])
                                ELSE g[i - 1]]
           seen == CHOOSE g : Is(g)
<1>1. n \in Nat /\ \A i \in 1..n : Keys[i] \in K
  BY ClientsAssumption
<1>2. \A i \in 1..n : \A x \in Seq(K) : next(x, i) \in Seq(K)
  <2> HIDE DEF n, K
  <2> QED
    BY <1>1
<1>3. step \in [1..n -> [Seq(K) -> Seq(K)]]
  <2> HIDE DEF n, K, next
  <2> QED
    BY <1>2
<1>4. PICK g : Runs(g, n, Seq(K), <<>>, step)
  <2>1. <<>> \in Seq(K)
    OBVIOUS
  <2> HIDE DEF n, K, step
  <2> QED
    BY <1>1, <1>3, <2>1, RunExists
<1>5. /\ g \in [0..n -> Seq(K)] /\ g[0] = <<>>
      /\ \A i \in 1..n : g[i] = next(g[i - 1], i)
  <2> HIDE DEF n, K, next
  <2>1. g \in [0..n -> Seq(K)] /\ g[0] = <<>> /\ \A i \in 1..n : g[i] = step[i][g[i - 1]]
    BY <1>4 DEF Runs
  <2>2. ASSUME NEW i \in 1..n PROVE g[i] = next(g[i - 1], i)
    <3> HIDE DEF step
    <3>1. g[i - 1] \in Seq(K) /\ g[i] = step[i][g[i - 1]]
      BY <1>1, <2>1
    <3> DEFINE x == g[i - 1]
    <3> HIDE DEF x
    <3>2. step[i][x] = next(x, i)
      BY <3>1 DEF step, x
    <3> QED
      BY <3>1, <3>2 DEF x
  <2> QED
    BY <2>1, <2>2
<1>6. Is(g)
  <2> HIDE DEF n, K
  <2>1. ASSUME NEW i \in 0..n PROVE g[i] = IF i = 0 THEN <<>> ELSE next(g[i - 1], i)
    <3> HIDE DEF next
    <3>1. CASE i = 0
      BY <1>5, <3>1
    <3>2. CASE i \in 1..n
      <4>1. i # 0
        BY <3>2
      <4> QED
        BY <1>5, <3>2, <4>1, Zenon
    <3> QED
      BY <1>1, <3>1, <3>2
  <2> QED
    BY <1>5, <2>1
<1>7. Is(seen)
  <2> HIDE DEF Is
  <2> QED
    BY <1>6
<1>8. Tracked = seen[n]
  BY DEF Tracked
<1> HIDE DEF seen
<1>9. seen[0] = <<>> /\ \A i \in 1..n : seen[i] = next(seen[i - 1], i)
  <2> HIDE DEF n
  <2>1. seen = [i \in 0..n |-> IF i = 0 THEN <<>> ELSE next(seen[i - 1], i)]
    BY <1>7, Zenon
  <2> HIDE DEF next
  <2> QED
    BY <1>1, <2>1
<1> DEFINE T == {i \in 0..n : seen[i] \in Seq(K)}
<1>10. 0 \in T
  <2>1. <<>> \in Seq(K) /\ 0 \in 0..n
    BY <1>1
  <2> HIDE DEF n, K, next
  <2> QED
    BY <1>9, <2>1
<1>11. ASSUME NEW i \in 1..n, i - 1 \in T PROVE i \in T
  <2> HIDE DEF n, K, next
  <2> QED
    BY <1>1, <1>2, <1>9, <1>11
<1>12. 0..n \subseteq T
  <2> HIDE DEF T, n
  <2> QED
    BY <1>1, <1>10, <1>11, UpTo
<1>13. seen \in [0..n -> Seq(K)]
  <2>1. seen = [i \in 0..n |-> seen[i]]
    <3> HIDE DEF n
    <3> QED
      BY <1>1, <1>7
  <2> QED
    BY <1>12, <2>1
<1> QED
  BY <1>8, <1>9, <1>13 DEF IsSeen

\* The first visits find the first of the flows.
Prefix(x, y) == Len(x) <= Len(y) /\ \A j \in 1..Len(x) : x[j] = y[j]

LEMMA PrefixIsOrder ==
  ASSUME NEW S, NEW x \in Seq(S), NEW y \in Seq(S), NEW z \in Seq(S)
  PROVE  /\ Prefix(x, x)
         /\ Prefix(x, y) /\ Prefix(y, z) => Prefix(x, z)
         /\ \A a \in S : Prefix(x, Append(x, a))
BY DEF Prefix

\* s is a list of the flows among the first n of Keys.
ListsFlows(s, n) ==
  /\ \A j \in 1..Len(s) : s[j] \in DOMAIN flow /\ \E i \in 1..n : Keys[i] = s[j]
  /\ \A i \in 1..n : Keys[i] \in DOMAIN flow => \E j \in 1..Len(s) : s[j] = Keys[i]
  /\ \A j, k \in 1..Len(s) : s[j] = s[k] => j = k

LEMMA OneMoreSeen ==
  ASSUME NEW seen, IsSeen(seen), NEW i \in 1..Len(Keys), ListsFlows(seen[i - 1], i - 1)
  PROVE  ListsFlows(seen[i], i) /\ Prefix(seen[i - 1], seen[i])
<1> DEFINE s == seen[i - 1]
           z == seen[i]
           K == Range(Keys)
<1>1. /\ s \in Seq(K) /\ Keys[i] \in K /\ i \in Nat \ {0}
      /\ z = IF Keys[i] \in DOMAIN flow THEN Append(s, Keys[i]) ELSE s
      /\ \A j \in 1..i : j \in 1..i - 1 \/ j = i
  <2>1. i - 1 \in 0..Len(Keys) /\ i \in 1..Len(Keys) /\ Keys[i] \in K
    BY ClientsAssumption
  <2>2. seen \in [0..Len(Keys) -> Seq(K)] /\ z = IF Keys[i] \in DOMAIN flow THEN Append(s, Keys[i]) ELSE s
    BY DEF IsSeen
  <2> HIDE DEF s, z, K
  <2> QED
    BY <2>1, <2>2 DEF s
<1>2. /\ \A j \in 1..Len(s) : s[j] \in DOMAIN flow /\ \E k \in 1..i - 1 : Keys[k] = s[j]
      /\ \A k \in 1..i - 1 : Keys[k] \in DOMAIN flow => \E j \in 1..Len(s) : s[j] = Keys[k]
      /\ \A j, k \in 1..Len(s) : s[j] = s[k] => j = k
  BY DEF ListsFlows
<1> HIDE DEF s, z, K
<1>3. CASE Keys[i] \notin DOMAIN flow
  <2>1. ListsFlows(z, i)
    BY <1>1, <1>2, <1>3 DEF ListsFlows
  <2> QED
    BY <1>1, <1>3, <2>1, PrefixIsOrder DEF s, z
<1>4. CASE Keys[i] \in DOMAIN flow
  <2> DEFINE m == Len(s)
  <2>1. /\ z \in Seq(K) /\ m \in Nat /\ Len(z) = m + 1 /\ z[m + 1] = Keys[i]
        /\ \A j \in 1..m : z[j] = s[j]
    BY <1>1, <1>4, AppendProperties
  <2>2. \A j \in 1..m : s[j] # Keys[i]
    <3> SUFFICES ASSUME NEW j \in 1..m PROVE s[j] # Keys[i]
      OBVIOUS
    <3>1. PICK k \in 1..i - 1 : Keys[k] = s[j]
      BY <1>2
    <3>2. k \in DOMAIN Keys /\ i \in DOMAIN Keys /\ k # i
      BY <1>1, ClientsAssumption
    <3> QED
      BY <3>1, <3>2, ClientsAssumption
  <2> HIDE DEF m
  <2>3. \A j \in 1..m + 1 : z[j] \in DOMAIN flow /\ \E k \in 1..i : Keys[k] = z[j]
    <3> SUFFICES ASSUME NEW j \in 1..m + 1
                 PROVE  z[j] \in DOMAIN flow /\ \E k \in 1..i : Keys[k] = z[j]
      OBVIOUS
    <3>1. CASE j = m + 1
      BY <1>1, <1>4, <2>1, <3>1
    <3>2. CASE j \in 1..m
      <4>1. z[j] = s[j] /\ s[j] \in DOMAIN flow /\ \E k \in 1..i - 1 : Keys[k] = s[j]
        BY <1>2, <2>1, <3>2 DEF m
      <4>2. PICK k \in 1..i - 1 : Keys[k] = s[j]
        BY <4>1
      <4>3. k \in 1..i
        BY <1>1
      <4> QED
        BY <4>1, <4>2, <4>3
    <3> QED
      BY <2>1, <3>1, <3>2
  <2>4. \A k \in 1..i : Keys[k] \in DOMAIN flow => \E j \in 1..m + 1 : z[j] = Keys[k]
    <3> SUFFICES ASSUME NEW k \in 1..i, Keys[k] \in DOMAIN flow
                 PROVE  \E j \in 1..m + 1 : z[j] = Keys[k]
      OBVIOUS
    <3>1. CASE k = i
      <4>1. m + 1 \in 1..m + 1
        BY <2>1
      <4> QED
        BY <2>1, <3>1, <4>1
    <3>2. CASE k \in 1..i - 1
      <4>1. PICK j \in 1..m : s[j] = Keys[k]
        BY <1>2, <3>2 DEF m
      <4>2. j \in 1..m + 1 /\ z[j] = Keys[k]
        BY <2>1, <4>1
      <4> QED
        BY <4>2
    <3> QED
      BY <1>1, <3>1, <3>2
  <2>5. \A j, k \in 1..m + 1 : z[j] = z[k] => j = k
    <3>1. \A j \in 1..m + 1 : j \in 1..m \/ j = m + 1
      BY <2>1
    <3>2. \A j, k \in 1..m : s[j] = s[k] => j = k
      BY <1>2 DEF m
    <3> QED
      BY <2>1, <2>2, <3>1, <3>2
  <2>6. ListsFlows(z, i)
    BY <2>1, <2>3, <2>4, <2>5 DEF ListsFlows
  <2>7. Prefix(s, z)
    BY <2>1 DEF Prefix, m
  <2> QED
    BY <2>6, <2>7 DEF s, z
<1> QED
  BY <1>3, <1>4

LEMMA SeenList ==
  ASSUME NEW seen, IsSeen(seen)
  PROVE  /\ ListsFlows(seen[Len(Keys)], Len(Keys))
         /\ \A i \in 0..Len(Keys) : Prefix(seen[i], seen[Len(Keys)])
<1> DEFINE n == Len(Keys)
           K == Range(Keys)
           T == {i \in 0..n : /\ ListsFlows(seen[i], i)
                              /\ \A p \in 0..i : Prefix(seen[p], seen[i])}
<1>1. n \in Nat /\ seen \in [0..n -> Seq(K)] /\ seen[0] = <<>>
  BY ClientsAssumption DEF IsSeen
<1>2. 0 \in T
  <2>1. ListsFlows(<<>>, 0)
    BY DEF ListsFlows
  <2>2. Prefix(seen[0], seen[0]) /\ \A p \in 0..0 : p = 0
    BY <1>1, PrefixIsOrder
  <2> QED
    BY <1>1, <2>1, <2>2
<1>3. ASSUME NEW i \in 1..n, i - 1 \in T PROVE i \in T
  <2>1. /\ i - 1 \in 0..n /\ i \in 0..n
        /\ \A p \in 0..i : p \in 0..i - 1 \/ p = i
        /\ \A p \in 0..i : p \in 0..n
    BY <1>1
  <2>2. ListsFlows(seen[i], i) /\ Prefix(seen[i - 1], seen[i])
    BY <1>3, OneMoreSeen
  <2>3. \A p \in 0..i - 1 : Prefix(seen[p], seen[i - 1])
    BY <1>3
  <2>4. \A p \in 0..n : seen[p] \in Seq(K)
    BY <1>1
  <2> HIDE DEF n, K
  <2>5. \A p \in 0..i - 1 : Prefix(seen[p], seen[i])
    <3> SUFFICES ASSUME NEW p \in 0..i - 1 PROVE Prefix(seen[p], seen[i])
      OBVIOUS
    <3>1. p \in 0..n
      BY <1>1
    <3> QED
      BY <2>1, <2>2, <2>3, <2>4, <3>1, PrefixIsOrder
  <2>6. Prefix(seen[i], seen[i])
    BY <2>1, <2>4, PrefixIsOrder
  <2> QED
    BY <2>1, <2>2, <2>5, <2>6
<1>4. n \in T
  <2> HIDE DEF T, n
  <2>1. 0..n \subseteq T
    BY <1>1, <1>2, <1>3, UpTo
  <2> QED
    BY <1>1, <2>1
<1> QED
  BY <1>4

\* What a flow adds to the total of get_stats.
FlowBytes(i) == IF Keys[i] \in DOMAIN flow THEN flow[Keys[i]].kind.bytes ELSE 0

IsTotal(sum) ==
  /\ sum \in [0..Len(Keys) -> Nat]
  /\ sum[0] = 0
  /\ \A i \in 1..Len(Keys) : sum[i] = sum[i - 1] + FlowBytes(i)

LEMMA TotalIs == ASSUME FlowsOK PROVE \E sum : IsTotal(sum) /\ TotalBytes = sum[Len(Keys)]
<1> DEFINE n == Len(Keys)
           step == [i \in 1..n |-> [x \in Nat |-> x + FlowBytes(i)]]
           Is(g) == g = [i \in 0..n |->
                           IF i = 0 THEN 0
                           ELSE g[i - 1] + (IF Keys[i] \in DOMAIN flow
                                            THEN flow[Keys[i]].kind.bytes ELSE 0)]
           sum == CHOOSE g : Is(g)
<1>1. n \in Nat /\ \A i \in 1..n : FlowBytes(i) \in Nat
  BY ClientsAssumption DEF FlowsOK, FlowOK, FlowBytes
<1>2. step \in [1..n -> [Nat -> Nat]]
  <2> HIDE DEF n
  <2> QED
    BY <1>1
<1>3. PICK g : Runs(g, n, Nat, 0, step)
  <2> HIDE DEF n, step
  <2> QED
    BY <1>1, <1>2, RunExists
<1>4. \A h : Is(h) <=> h = [i \in 0..n |-> IF i = 0 THEN 0 ELSE h[i - 1] + FlowBytes(i)]
  BY DEF FlowBytes
<1>5. Is(g)
  <2> HIDE DEF n
  <2>1. g = [i \in 0..n |-> g[i]] /\ g[0] = 0
    BY <1>3 DEF Runs
  <2>2. ASSUME NEW i \in 1..n PROVE g[i] = g[i - 1] + FlowBytes(i)
    <3>1. i - 1 \in 0..n
      BY <1>1
    <3>2. g[i - 1] \in Nat
      BY <1>3, <3>1 DEF Runs
    <3>3. g[i] = step[i][g[i - 1]]
      <4> HIDE DEF step
      <4> QED
        BY <1>3 DEF Runs
    <3> QED
      BY <3>2, <3>3
  <2>3. ASSUME NEW i \in 0..n PROVE g[i] = IF i = 0 THEN 0 ELSE g[i - 1] + FlowBytes(i)
    <3>1. CASE i = 0
      BY <2>1, <3>1
    <3>2. CASE i \in 1..n
      <4>1. i # 0
        BY <3>2
      <4> QED
        BY <2>2, <3>2, <4>1, Zenon
    <3> QED
      BY <1>1, <3>1, <3>2
  <2> HIDE DEF Is
  <2> QED
    BY <1>4, <2>1, <2>3
<1>6. Is(sum)
  <2> HIDE DEF Is
  <2> QED
    BY <1>5
<1>7. TotalBytes = sum[n]
  BY DEF TotalBytes
<1>8. sum = [i \in 0..n |-> IF i = 0 THEN 0 ELSE sum[i - 1] + FlowBytes(i)]
  <2> HIDE DEF Is, sum
  <2> QED
    BY <1>4, <1>6
<1> HIDE DEF sum, n
<1> DEFINE T == {i \in 0..n : sum[i] \in Nat}
<1>9. 0 \in T
  <2>1. sum[0] = 0
    BY <1>1, <1>8
  <2> QED
    BY <1>1, <2>1
<1>10. \A i \in 1..n : sum[i] = sum[i - 1] + FlowBytes(i)
  BY <1>1, <1>8
<1>11. ASSUME NEW i \in 1..n, i - 1 \in T PROVE i \in T
  BY <1>1, <1>10, <1>11
<1>12. 0..n \subseteq T
  <2> HIDE DEF T
  <2> QED
    BY <1>1, <1>9, <1>11, UpTo
<1>13. IsTotal(sum)
  <2>1. sum[0] = 0 /\ DOMAIN sum = 0..n /\ sum = [i \in 0..n |-> sum[i]]
    BY <1>1, <1>8
  <2>2. sum \in [0..n -> Nat]
    BY <1>12, <2>1
  <2> QED
    BY <1>10, <2>1, <2>2 DEF IsTotal, n
<1> QED
  BY <1>7, <1>13 DEF n

Rows == get_flows.flows

RowOf(f) == [mac |-> f.src_mac, cls |-> f.cls, app |-> f.app, bytes |-> f.kind.bytes]

LEMMA RowIs ==
  ASSUME NEW f
  PROVE  /\ RowOf(f).mac = f.src_mac /\ RowOf(f).cls = f.cls /\ RowOf(f).app = f.app
         /\ RowOf(f).bytes = f.kind.bytes
BY DEF RowOf

\* The rows of get_flows, and the table get_clients sums up.
LEMMA RowsAre ==
  ASSUME FlowsOK
  PROVE  /\ Tracked \in Seq(Range(Keys)) /\ ListsFlows(Tracked, Len(Keys))
         /\ IsTable(Table) /\ Len(Table) = Len(Tracked)
         /\ SameFlows(Table, Rows)
         /\ DOMAIN Rows = 1..Len(Tracked) /\ Len(Rows) = Len(Tracked)
         /\ \A i \in 1..Len(Tracked) : Rows[i] = dump_flow_cb(flow[Tracked[i]])
         /\ \A i \in 1..Len(Tracked) : Table[i].bytes = flow[Tracked[i]].kind.bytes
<1> DEFINE n == Len(Tracked)
<1>1. Tracked \in Seq(Range(Keys)) /\ ListsFlows(Tracked, Len(Keys))
  <2>1. PICK seen : IsSeen(seen) /\ Tracked = seen[Len(Keys)]
    BY TrackedIs
  <2>2. seen[Len(Keys)] \in Seq(Range(Keys))
    <3>1. Len(Keys) \in 0..Len(Keys)
      BY ClientsAssumption
    <3> QED
      BY <2>1, <3>1 DEF IsSeen
  <2> QED
    BY <2>1, <2>2, SeenList
<1>2. n \in Nat /\ DOMAIN Tracked = 1..n
  BY <1>1, LenProperties
<1>3. \A i \in 1..n : FlowOK(flow[Tracked[i]])
  BY <1>1 DEF ListsFlows, FlowsOK
<1>4. Rows = [i \in 1..n |-> dump_flow_cb(flow[Tracked[i]])]
  BY <1>2 DEF get_flows, Rows
<1>5. Table = [i \in 1..n |-> RowOf(flow[Tracked[i]])]
  BY <1>2 DEF Table, RowOf
<1> HIDE DEF n
<1>6. Len(Rows) = n /\ Len(Table) = n
  BY <1>2, <1>4, <1>5
<1>7. /\ \A i \in 1..n : Table[i] = RowOf(flow[Tracked[i]])
      /\ \A i \in 1..n : Rows[i] = dump_flow_cb(flow[Tracked[i]])
      /\ DOMAIN Rows = 1..n
  BY <1>4, <1>5
<1>8. SameFlows(Table, Rows)
  BY <1>6, <1>7 DEF SameFlows, dump_flow_cb, RowOf
<1>9. IsTable(Table)
  <2>1. \A k \in Kinds : k.bytes \in Nat
    BY ClientsAssumption
  <2>2. ASSUME NEW i \in 1..n PROVE Table[i].cls \in Classes /\ Table[i].bytes \in Nat
    <3> DEFINE f == flow[Tracked[i]]
    <3>1. Table[i].cls = f.cls /\ Table[i].bytes = f.kind.bytes
      BY <1>7, RowIs
    <3>2. f.cls \in Classes /\ f.kind.bytes \in Nat
      BY <1>3, <2>1 DEF FlowOK
    <3> HIDE DEF f
    <3> QED
      BY <3>1, <3>2
  <2> QED
    BY <1>2, <1>6, <2>2 DEF IsTable
<1>10. \A i \in 1..n : Table[i].bytes = flow[Tracked[i]].kind.bytes
  BY <1>7, RowIs
<1> QED
  BY <1>1, <1>6, <1>7, <1>8, <1>9, <1>10 DEF n

LEMMA TotalAddsUp == ASSUME FlowsOK PROVE TotalBytes = Bytes(Table, 1..Len(Table))
<1> DEFINE n == Len(Keys)
           m == Len(Tracked)
<1>1. PICK seen : IsSeen(seen) /\ Tracked = seen[n]
  BY TrackedIs
<1>2. PICK sum : IsTotal(sum) /\ TotalBytes = sum[n]
  BY TotalIs
<1>3. IsTable(Table) /\ Len(Table) = m
      /\ \A i \in 1..m : Table[i].bytes = flow[Tracked[i]].kind.bytes
  BY RowsAre
<1>4. PICK f : IsSum(f, Table, 1..m) /\ Bytes(Table, 1..m) = f[m]
  BY <1>3, BytesIs
<1>5. /\ f \in [0..m -> Nat] /\ f[0] = 0
      /\ \A i \in 1..m : f[i] = f[i - 1] + flow[Tracked[i]].kind.bytes
  BY <1>3, <1>4 DEF IsSum, Part
<1>6. /\ n \in Nat /\ m \in Nat /\ seen \in [0..n -> Seq(Range(Keys))] /\ seen[0] = <<>>
      /\ \A i \in 1..n :
           seen[i] = IF Keys[i] \in DOMAIN flow THEN Append(seen[i - 1], Keys[i]) ELSE seen[i - 1]
      /\ \A i \in 0..n : Len(seen[i]) <= m /\ \A j \in 1..Len(seen[i]) : seen[i][j] = Tracked[j]
  <2>1. n \in Nat /\ m \in Nat
    BY <1>3, ClientsAssumption DEF IsTable
  <2>2. \A i \in 0..n : Prefix(seen[i], Tracked)
    BY <1>1, SeenList
  <2> HIDE DEF n, m
  <2> QED
    BY <1>1, <2>1, <2>2 DEF IsSeen, Prefix, n, m
<1>7. /\ sum \in [0..n -> Nat] /\ sum[0] = 0
      /\ \A i \in 1..n : sum[i] = sum[i - 1] + FlowBytes(i)
  BY <1>2 DEF IsTotal
<1> DEFINE T == {i \in 0..n : sum[i] = f[Len(seen[i])]}
<1> HIDE DEF n, m
<1>8. 0 \in T
  BY <1>5, <1>6, <1>7
<1>9. ASSUME NEW i \in 1..n, i - 1 \in T PROVE i \in T
  <2> DEFINE s == seen[i - 1]
             k == Len(s)
  <2>1. i - 1 \in 0..n /\ i \in 0..n /\ Keys[i] \in Range(Keys)
    BY <1>6, ClientsAssumption DEF n
  <2>2. s \in Seq(Range(Keys)) /\ k \in Nat /\ sum[i - 1] = f[k] /\ sum[i - 1] \in Nat
    BY <1>6, <1>7, <1>9, <2>1
  <2> HIDE DEF s, k
  <2>3. CASE Keys[i] \notin DOMAIN flow
    <3>1. seen[i] = s /\ FlowBytes(i) = 0
      BY <1>6, <2>3 DEF s, FlowBytes
    <3> QED
      BY <1>7, <2>1, <2>2, <3>1 DEF k
  <2>4. CASE Keys[i] \in DOMAIN flow
    <3>1. seen[i] = Append(s, Keys[i]) /\ FlowBytes(i) = flow[Keys[i]].kind.bytes
      BY <1>6, <2>4 DEF s, FlowBytes
    <3>2. Len(seen[i]) = k + 1 /\ seen[i][k + 1] = Keys[i]
      BY <2>1, <2>2, <3>1, AppendProperties DEF k
    <3>3. k + 1 <= m /\ Tracked[k + 1] = Keys[i]
      BY <1>6, <2>1, <2>2, <3>2
    <3>4. k + 1 \in 1..m /\ (k + 1) - 1 = k
      BY <1>6, <2>2, <3>3
    <3>5. f[k + 1] = f[k] + flow[Keys[i]].kind.bytes
      BY <1>5, <3>3, <3>4
    <3> QED
      BY <1>7, <2>1, <2>2, <3>1, <3>2, <3>5
  <2> QED
    BY <2>3, <2>4
<1>10. n \in T
  <2> HIDE DEF T
  <2>1. 0..n \subseteq T
    BY <1>6, <1>8, <1>9, UpTo
  <2> QED
    BY <1>6, <2>1
<1>11. sum[n] = f[m]
  BY <1>1, <1>10 DEF m
<1> QED
  BY <1>2, <1>3, <1>4, <1>11 DEF n

\* Each flow has one row, so that counting rows counts flows.
LEMMA RowsCountFlows ==
  ASSUME FlowsOK
  PROVE  /\ Cardinality(DOMAIN flow) = Len(Rows)
         /\ \A c \in Classes : Cardinality({k \in DOMAIN flow : flow[k].cls = c})
                                 = Cardinality({i \in DOMAIN Rows : Rows[i].cls = c})
<1> DEFINE m == Len(Tracked)
           at == [i \in 1..m |-> Tracked[i]]
<1>1. /\ m \in Nat /\ DOMAIN Rows = 1..m /\ Len(Rows) = m
      /\ \A i \in 1..m : Rows[i] = dump_flow_cb(flow[Tracked[i]])
      /\ ListsFlows(Tracked, Len(Keys))
  BY RowsAre
<1>2. \A k \in DOMAIN flow : \E i \in 1..m : Tracked[i] = k
  <2> SUFFICES ASSUME NEW k \in DOMAIN flow PROVE \E i \in 1..m : Tracked[i] = k
    OBVIOUS
  <2>1. PICK j \in 1..Len(Keys) : Keys[j] = k
    BY ClientsAssumption DEF FlowsOK, Range
  <2> QED
    BY <1>1, <2>1 DEF ListsFlows
<1>3. /\ \A i \in 1..m : Tracked[i] \in DOMAIN flow
      /\ \A i, j \in 1..m : Tracked[i] = Tracked[j] => i = j
  BY <1>1 DEF ListsFlows
<1> HIDE DEF m
<1>4. IsFiniteSet(1..m) /\ Cardinality(1..m) = m
  BY <1>1, FS_Interval
<1>5. ASSUME NEW I, I \subseteq 1..m, NEW F, F \subseteq DOMAIN flow,
             \A i \in 1..m : i \in I <=> Tracked[i] \in F
      PROVE  Cardinality(F) = Cardinality(I)
  <2> DEFINE g == [i \in I |-> Tracked[i]]
  <2>1. g \in [I -> F]
    BY <1>5
  <2>2. \A i, j \in I : g[i] = g[j] => i = j
    BY <1>3, <1>5
  <2>3. \A k \in F : \E i \in I : g[i] = k
    <3> SUFFICES ASSUME NEW k \in F PROVE \E i \in I : g[i] = k
      OBVIOUS
    <3>1. PICK i \in 1..m : Tracked[i] = k
      BY <1>2, <1>5
    <3> QED
      BY <1>5, <3>1
  <2> HIDE DEF g
  <2>4. g \in Bijection(I, F)
    BY <2>1, <2>2, <2>3 DEF Bijection, Injection, Surjection, IsInjective
  <2>5. IsFiniteSet(I)
    BY <1>4, <1>5, FS_Subset
  <2> QED
    BY <2>4, <2>5, FS_Bijection DEF ExistsBijection
<1>6. Cardinality(DOMAIN flow) = m
  <2>1. Cardinality(DOMAIN flow) = Cardinality(1..m)
    BY <1>3, <1>5
  <2> QED
    BY <1>4, <2>1
<1>7. ASSUME NEW c \in Classes
      PROVE  Cardinality({k \in DOMAIN flow : flow[k].cls = c})
               = Cardinality({i \in DOMAIN Rows : Rows[i].cls = c})
  <2> DEFINE I == {i \in DOMAIN Rows : Rows[i].cls = c}
             F == {k \in DOMAIN flow : flow[k].cls = c}
  <2>1. \A i \in 1..m : Rows[i].cls = flow[Tracked[i]].cls
    BY <1>1 DEF dump_flow_cb
  <2>2. I \subseteq 1..m /\ F \subseteq DOMAIN flow /\ \A i \in 1..m : i \in I <=> Tracked[i] \in F
    BY <1>1, <1>3, <2>1
  <2> HIDE DEF I, F
  <2>3. Cardinality(F) = Cardinality(I)
    BY <1>5, <2>2
  <2> QED
    BY <2>3 DEF I, F
<1> QED
  BY <1>1, <1>6, <1>7

\* What get_clients lists is what Summaries makes of the table.
LEMMA ClientsAre ==
  ASSUME FlowsOK
  PROVE  LET cs == get_clients
             summaries == [i \in DOMAIN cs |-> cs[i].summary]
         IN  /\ SameClients(summaries, Summaries(Table))
             /\ \A i \in DOMAIN cs :
                  /\ cs[i].ssid = Ssid(cs[i].summary.mac)
                  /\ cs[i].device_type = device_fp_get_type(devices, cs[i].summary.mac)
<1> DEFINE agg == Summaries(Table)
           n == Len(agg)
           cs == get_clients
           summaries == [i \in DOMAIN cs |-> cs[i].summary]
<1>1. n \in Nat /\ DOMAIN agg = 1..n
  <2>1. AddsUpTo(agg, Table, Len(Table))
    BY RowsAre, SummariesAddUp
  <2> HIDE DEF agg
  <2> QED
    BY <2>1, LenProperties DEF AddsUpTo
<1>2. cs = [i \in 1..n |->
              [summary |-> agg[i], ssid |-> Ssid(agg[i].mac),
               device_type |-> device_fp_get_type(devices, agg[i].mac),
               device_confidence |-> device_fp_get_confidence(devices, agg[i].mac)]]
  BY <1>1 DEF get_clients
<1> HIDE DEF agg, n, cs
<1>3. /\ DOMAIN cs = 1..n
      /\ \A i \in 1..n : /\ cs[i].summary = agg[i] /\ cs[i].ssid = Ssid(agg[i].mac)
                         /\ cs[i].device_type = device_fp_get_type(devices, agg[i].mac)
  BY <1>2
<1>4. summaries = [i \in 1..n |-> agg[i]]
  BY <1>3
<1> HIDE DEF summaries
<1>5. Len(summaries) = n /\ \A i \in 1..n : summaries[i] = agg[i]
  BY <1>1, <1>4
<1>6. SameClients(summaries, agg)
  BY <1>5 DEF SameClients, n
<1>7. \A i \in DOMAIN cs :
        /\ cs[i].ssid = Ssid(cs[i].summary.mac)
        /\ cs[i].device_type = device_fp_get_type(devices, cs[i].summary.mac)
  BY <1>3
<1> QED
  BY <1>6, <1>7 DEF summaries, cs, agg

LEMMA FlowsGiveReplies == FlowsOK => RepliesAgree
<1> SUFFICES ASSUME FlowsOK PROVE RepliesAgree
  OBVIOUS
<1> DEFINE cs == get_clients
           summaries == [i \in DOMAIN cs |-> cs[i].summary]
<1>1. ListAddsUp(summaries, Rows)
  <2>1. IsTable(Table) /\ SameFlows(Table, Rows) /\ SameClients(summaries, Summaries(Table))
    BY RowsAre, ClientsAre
  <2> HIDE DEF summaries
  <2>2. ListAddsUp(summaries, Table)
    BY <2>1, SummariesAreRight
  <2> QED
    BY <2>1, <2>2, SameListAddsUp
<1>2. ASSUME NEW i \in DOMAIN cs, NEW r \in Range(Rows), r.mac = cs[i].summary.mac
      PROVE  r.ssid = cs[i].ssid /\ r.device_type = cs[i].device_type
  <2>1. /\ cs[i].ssid = Ssid(cs[i].summary.mac)
        /\ cs[i].device_type = device_fp_get_type(devices, cs[i].summary.mac)
    BY ClientsAre
  <2>2. PICK j \in 1..Len(Tracked) : r = dump_flow_cb(flow[Tracked[j]])
    BY RowsAre DEF Range
  <2>3. r.ssid = Ssid(r.mac) /\ r.device_type = device_fp_get_type(devices, r.mac)
    BY <2>2 DEF dump_flow_cb
  <2> HIDE DEF cs
  <2> QED
    BY <1>2, <2>1, <2>3
<1>3. /\ Cardinality(DOMAIN flow) = Len(Rows)
      /\ \A c \in Classes : Cardinality({k \in DOMAIN flow : flow[k].cls = c})
                              = Cardinality({i \in DOMAIN Rows : Rows[i].cls = c})
  BY RowsCountFlows
<1>4. TotalBytes = Bytes(Rows, DOMAIN Rows)
  <2>1. /\ IsTable(Table) /\ SameFlows(Table, Rows)
        /\ DOMAIN Rows = 1..Len(Table) /\ TotalBytes = Bytes(Table, 1..Len(Table))
    BY RowsAre, TotalAddsUp
  <2> QED
    BY <2>1, SameBytes
<1>5. /\ get_flows.total_flows = Cardinality(DOMAIN flow)
      /\ get_stats.active_flows = Cardinality(DOMAIN flow)
      /\ get_stats.total_bytes = TotalBytes
      /\ get_stats.classification =
           [c \in Classes |-> Cardinality({k \in DOMAIN flow : flow[k].cls = c})]
  BY DEF get_flows, get_stats
<1>6. \A c \in Classes :
        get_stats.classification[c] = Cardinality({i \in DOMAIN Rows : Rows[i].cls = c})
  BY <1>3, <1>5
<1> HIDE DEF cs
<1>7. /\ get_flows.total_flows = Len(Rows) /\ get_stats.active_flows = Len(Rows)
      /\ get_stats.total_bytes = Bytes(Rows, DOMAIN Rows)
  BY <1>3, <1>4, <1>5
<1> QED
  BY <1>1, <1>2, <1>6, <1>7 DEF RepliesAgree, Rows, cs

\* The replies of the ubus methods (get_flows, get_clients, get_stats) agree with
\* each other in every state, for every order of the buckets, every traffic and
\* however few places get_clients has.
THEOREM RepliesTellTheSame == ClientsSpec => []RepliesAgree
<1>1. DeviceInv /\ [ClientsNext]_clientsVars => DeviceInv'
  BY DevicesOnlyGrow
<1>2. DeviceInv => RepliesAgree
  BY FlowsGiveReplies DEF DeviceInv
<1> QED
  BY <1>1, <1>2, DevicesInitially, PTL DEF ClientsSpec

=============================================================================
