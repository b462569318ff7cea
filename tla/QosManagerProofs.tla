------------------------- MODULE QosManagerProofs -------------------------
(***************************************************************************)
(* What of QosManager holds for every set of flows, every period, timeout  *)
(* and lateness: a clean stop leaves nothing behind, the time a flow waits *)
(* for its mark and the time a mark outlives its flow are bounded, and the *)
(* sets' precedence survives the copies of the rules that crashes leave.   *)
(***************************************************************************)
EXTENDS QosManager, RecursionLemmas, SequenceTheorems

LEMMA MarkedIs ==
  /\ Marked = {"video", "gaming", "voip", "social", "download"}
  /\ Len(SetOrder) = 5
  /\ SetOrder[1] = "video" /\ SetOrder[2] = "gaming" /\ SetOrder[3] = "voip"
  /\ SetOrder[4] = "social" /\ SetOrder[5] = "download"
BY DEF Marked, Range, SetOrder

LEMMA ObjectsAre ==
  /\ Len(Objects) = 7 /\ DOMAIN Objects = 1..7 /\ SetupLength = 12
  /\ Objects[1] = "table" /\ Objects[2] = "chain" /\ Objects[3] = "video"
  /\ Objects[4] = "gaming" /\ Objects[5] = "voip" /\ Objects[6] = "social"
  /\ Objects[7] = "download"
<1> DEFINE first == <<"table", "chain">>
           S     == Marked \cup {"table", "chain"}
<1>1. /\ first \in Seq(S) /\ Len(first) = 2
      /\ first[1] = "table" /\ first[2] = "chain"
  OBVIOUS
<1>2. SetOrder \in Seq(S)
  BY MarkedIs DEF SetOrder
<1>3. Objects = first \o SetOrder
  BY DEF Objects
<1> HIDE DEF first, S
<1>4. /\ Objects \in Seq(S) /\ Len(Objects) = 7
      /\ \A i \in 1..2 : Objects[i] = first[i]
      /\ \A i \in 3..7 : Objects[i] = SetOrder[i - 2]
  <2>1. /\ Objects \in Seq(S) /\ Len(Objects) = Len(first) + Len(SetOrder)
        /\ \A i \in 1..Len(first) + Len(SetOrder) :
             Objects[i] = IF i <= Len(first) THEN first[i] ELSE SetOrder[i - Len(first)]
    BY <1>1, <1>2, <1>3, ConcatProperties, Zenon
  <2>2. Len(first) = 2 /\ Len(SetOrder) = 5
    BY <1>1, MarkedIs
  <2> QED
    BY <2>1, <2>2
<1>5. DOMAIN Objects = 1..7
  BY <1>4
<1>6. SetupLength = 12
  BY <1>4, MarkedIs DEF SetupLength
<1> QED
  BY <1>1, <1>4, <1>5, <1>6, MarkedIs

LEMMA InitIsCovered == QosInit => \A e \in Elements : bare[e] = Covered
BY DEF QosInit

-----------------------------------------------------------------------------
(* The daemon's life.                                                      *)

\* The flag of the code follows the life of the process, so that Stop flushes
\* whenever there may be something to flush; only a running daemon has an update
\* under way, and only for flows that want an element.
LifeOK ==
  /\ status \in {"stopped", "starting", "running", "crashed"}
  /\ setup \in 0..SetupLength
  /\ status = "running" => setup = SetupLength
  /\ table_created = (status = "running" \/ (status = "starting" /\ setup = SetupLength))
  /\ cls \in [Keys -> Given \cup {NoFlow}]
  /\ left \subseteq Served(cls)
  /\ left # {} => status = "running"
  /\ now \in Nat /\ due \in Nat

LEMMA LifeInit == QosInit => LifeOK
<1> SUFFICES ASSUME QosInit PROVE LifeOK
  OBVIOUS
<1>1. /\ status = "stopped" /\ setup = 0 /\ table_created = FALSE /\ left = {}
      /\ now = 0 /\ due = 0
  BY DEF QosInit, ClockInit
<1>2. cls \in [Keys -> Given \cup {NoFlow}]
  BY DEF QosInit
<1>3. table_created = (status = "running" \/ (status = "starting" /\ setup = SetupLength))
  BY <1>1
<1> QED
  BY <1>1, <1>2, <1>3, ObjectsAre DEF LifeOK

LEMMA LifeStep == LifeOK /\ [QosNext]_qosVars => LifeOK'
<1> SUFFICES ASSUME LifeOK, [QosNext]_qosVars PROVE LifeOK'
  OBVIOUS
<1> USE QosAssumption, ObjectsAre DEF LifeOK
<1>1. CASE Start
  BY <1>1 DEF Start, Served
<1>2. CASE qos_manager_init
  BY <1>2 DEF qos_manager_init, setup_nft_table, Served
<1>3. CASE EnterLoop
  BY <1>3 DEF EnterLoop, Served
<1>4. CASE Change
  <2>1. PICK k \in Keys, c \in Given \cup {NoFlow} : cls' = [cls EXCEPT ![k] = c]
    BY <1>4 DEF Change
  <2>2. left' = {}
    BY <1>4 DEF Change, InLoop
  <2> QED
    BY <1>4, <2>1, <2>2 DEF Change
<1>5. CASE qos_timer_cb
  <2>1. UNCHANGED <<cls, status, setup, table_created, now>> /\ status = "running"
    BY <1>5 DEF qos_timer_cb, InLoop
  <2>2. left' = Served(cls) /\ due' \in {due, now + QOS_PERIOD}
    BY <1>5 DEF qos_timer_cb, Rearm
  <2>3. Served(cls)' = Served(cls) /\ due' \in Nat
    BY <2>1, <2>2 DEF Served
  <2> QED
    BY <2>1, <2>2, <2>3
<1>6. CASE qos_flow_cb
  BY <1>6 DEF qos_flow_cb, Rearm, Served
<1>7. CASE Stop
  BY <1>7 DEF Stop, InLoop, qos_manager_flush
<1>8. CASE Crash
  BY <1>8 DEF Crash
<1>9. CASE Pass
  BY <1>9 DEF Pass, Tick, Served
<1>10. CASE UNCHANGED qosVars
  BY <1>10 DEF qosVars, Served
<1> QED
  BY <1>1, <1>2, <1>3, <1>4, <1>5, <1>6, <1>7, <1>8, <1>9, <1>10 DEF QosNext

LEMMA LifeHolds == QosSpec => []LifeOK
BY LifeInit, LifeStep, PTL DEF QosSpec

-----------------------------------------------------------------------------
(* A clean stop.                                                           *)

\* What the kernel drops of an empty set of elements.
LEMMA NothingToDrop ==
  ASSUME NEW f, DOMAIN f = {}, NEW t
  PROVE  [e \in {d \in DOMAIN f : f[d] > t} |-> f[e]] = <<>>
OBVIOUS

LEMMA CleanInit == QosInit => CleanStopLeavesNothing
BY DEF QosInit, CleanStopLeavesNothing

LEMMA CleanStep ==
  LifeOK /\ CleanStopLeavesNothing /\ [QosNext]_qosVars => CleanStopLeavesNothing'
<1> SUFFICES ASSUME LifeOK, CleanStopLeavesNothing, [QosNext]_qosVars
             PROVE  CleanStopLeavesNothing'
  OBVIOUS
<1> USE DEF CleanStopLeavesNothing
<1>1. CASE Stop
  <2>1. table_created
    BY <1>1 DEF Stop, InLoop, LifeOK
  <2>2. qos_manager_flush
    BY <1>1, <2>1 DEF Stop
  <2> QED
    BY <1>1, <2>2 DEF Stop, qos_manager_flush
<1>2. CASE Pass
  <2>1. UNCHANGED <<status, made, rules, faults>>
    BY <1>2 DEF Pass
  <2>2. elems = <<>> => elems' = <<>>
    BY <1>2, NothingToDrop DEF Pass
  <2> QED
    BY <2>1, <2>2
<1>3. CASE UNCHANGED qosVars
  BY <1>3 DEF qosVars, kernelVars
<1>4. CASE Start \/ qos_manager_init \/ EnterLoop \/ Change \/ qos_timer_cb \/ qos_flow_cb \/ Crash
  <2>1. status' # "stopped"
    BY <1>4 DEF Start, qos_manager_init, EnterLoop, Change, qos_timer_cb, qos_flow_cb, Crash,
                InLoop, LifeOK
  <2> QED
    BY <2>1
<1> QED
  BY <1>1, <1>2, <1>3, <1>4 DEF QosNext

\* A daemon that was stopped leaves nothing in the kernel, nor what crashed
\* predecessors had left there (qos_manager_destroy, qos_manager_flush), for any
\* number of lives, also those that died in the middle of their setup.
THEOREM StopCleansUp == QosSpec => []CleanStopLeavesNothing
BY LifeHolds, CleanInit, CleanStep, PTL DEF QosSpec

-----------------------------------------------------------------------------
(* What a setup has made.                                                  *)

\* While its own commands have worked, what a setup has got to is there.
MadeSoFar ==
  "setup" \notin faults /\ status # "stopped" =>
    \A i \in DOMAIN Objects : i <= setup => Objects[i] \in made

LEMMA MadeInit == QosInit => MadeSoFar
BY DEF QosInit, MadeSoFar

LEMMA MadeStep == LifeOK /\ MadeSoFar /\ [QosNext]_qosVars => MadeSoFar'
<1> SUFFICES ASSUME LifeOK, MadeSoFar, [QosNext]_qosVars PROVE MadeSoFar'
  OBVIOUS
<1> USE DEF MadeSoFar
<1>1. CASE qos_manager_init
  <2> SUFFICES ASSUME "setup" \notin faults',
                      NEW i \in 1..7, i <= setup'
               PROVE  Objects[i] \in made'
    BY ObjectsAre
  <2>1. setup' = setup + 1 /\ setup \in 0..12 /\ setup' \in 1..12
    BY <1>1, ObjectsAre DEF qos_manager_init, setup_nft_table, LifeOK
  <2>2. \A j \in 1..7 : j <= setup => Objects[j] \in made
    BY <1>1, ObjectsAre DEF qos_manager_init, setup_nft_table
  <2>3. CASE setup' \in 1..7
    <3>1. made' = WithObject(Objects[setup'])
      BY <1>1, <2>3, ObjectsAre DEF qos_manager_init, setup_nft_table
    <3>2. Objects[setup'] = "table" \/ "table" \in made
      BY <2>1, <2>2, <2>3, ObjectsAre
    <3>3. made' = made \cup {Objects[setup']}
      BY <3>1, <3>2 DEF WithObject
    <3> QED
      BY <2>1, <2>2, <3>3
  <2>4. CASE setup' \notin 1..7
    <3>1. made' = made
      BY <1>1, <2>4, ObjectsAre DEF qos_manager_init, setup_nft_table
    <3> QED
      BY <2>1, <2>2, <2>4, <3>1
  <2> QED
    BY <2>3, <2>4
<1>2. CASE Start
  BY <1>2, ObjectsAre DEF Start
<1>3. CASE Stop
  BY <1>3 DEF Stop
<1>4. CASE EnterLoop \/ Change \/ qos_timer_cb \/ qos_flow_cb \/ Crash \/ Pass
  <2>1. UNCHANGED <<made, setup, faults>> /\ (status = "stopped" => status' = "stopped")
    BY <1>4 DEF EnterLoop, Change, qos_timer_cb, qos_flow_cb, Crash, Pass, InLoop, kernelVars
  <2> QED
    BY <2>1
<1>5. CASE UNCHANGED qosVars
  BY <1>5 DEF qosVars, kernelVars
<1> QED
  BY <1>1, <1>2, <1>3, <1>4, <1>5 DEF QosNext

LEMMA MadeHolds == QosSpec => []MadeSoFar
BY LifeHolds, MadeInit, MadeStep, PTL DEF QosSpec

\* A running daemon has the sets it may need.
LEMMA SetsThere ==
  ASSUME LifeOK, MadeSoFar, status = "running", "setup" \notin faults
  PROVE  Marked \subseteq made
<1>1. setup = 12
  BY ObjectsAre DEF LifeOK
<1>2. \A i \in 1..7 : Objects[i] \in made
  BY <1>1, ObjectsAre DEF MadeSoFar
<1>3. /\ Objects[3] \in made /\ Objects[4] \in made /\ Objects[5] \in made
      /\ Objects[6] \in made /\ Objects[7] \in made
  BY <1>2
<1> QED
  BY <1>3, ObjectsAre, MarkedIs

-----------------------------------------------------------------------------
(* How long a flow is without its mark.                                    *)

\* The timer is armed for no more than a period ahead, late by no more than
\* MAX_LATE, and has fired when an update is under way.
TimerOK ==
  status = "running" =>
    /\ now <= due + MAX_LATE
    /\ due <= now + QOS_PERIOD
    /\ left # {} => due <= now

\* An element the update under way has still to add.
ToCome(e) == \E k \in left : Element(k) = e

\* Of an element that is missing: some flow wants it, and the timer is armed for no
\* later than a period and one lateness after it went missing; while an update is
\* under way, it has still to come or went missing in this very update.
NextServes ==
  /\ bare \in [Elements -> Nat \cup {Covered}]
  /\ "setup" \notin faults => \A e \in Elements :
       bare[e] # Covered =>
         /\ Uncovered(e)
         /\ due <= bare[e] + QOS_PERIOD + MAX_LATE
         /\ left # {} => ToCome(e) \/ due <= bare[e]

GapInv == TimerOK /\ NextServes

LEMMA GapInit == QosInit => GapInv
BY InitIsCovered DEF QosInit, ClockInit, GapInv, TimerOK, NextServes

LEMMA TimerStep == LifeOK /\ TimerOK /\ QosNext => TimerOK'
<1> SUFFICES ASSUME LifeOK, TimerOK, QosNext PROVE TimerOK'
  OBVIOUS
<1> USE QosAssumption DEF TimerOK, LifeOK
<1>1. CASE Start
  BY <1>1 DEF Start
<1>2. CASE qos_manager_init
  BY <1>2 DEF qos_manager_init
<1>3. CASE EnterLoop
  BY <1>3 DEF EnterLoop
<1>4. CASE Change
  BY <1>4 DEF Change
<1>5. CASE qos_timer_cb
  BY <1>5 DEF qos_timer_cb, InLoop, Rearm
<1>6. CASE qos_flow_cb
  BY <1>6 DEF qos_flow_cb, Rearm
<1>7. CASE Stop
  BY <1>7 DEF Stop
<1>8. CASE Crash
  BY <1>8 DEF Crash
<1>9. CASE Pass
  BY <1>9 DEF Pass, Tick
<1> QED
  BY <1>1, <1>2, <1>3, <1>4, <1>5, <1>6, <1>7, <1>8, <1>9 DEF QosNext

\* What a step does to an element that was missing and stays so.
LEMMA StillBare ==
  ASSUME Observed({}) \/ \E r : Observed(r), NEW e \in Elements, bare'[e] # Covered
  PROVE  Uncovered(e)' /\ bare'[e] \in {bare[e], now'} /\ (bare[e] = Covered => bare'[e] = now')
BY DEF Observed

LEMMA ServesStep == LifeOK /\ LifeOK' /\ MadeSoFar /\ GapInv /\ QosNext => NextServes'
<1> SUFFICES ASSUME LifeOK, LifeOK', MadeSoFar, GapInv, QosNext PROVE NextServes'
  OBVIOUS
<1>1. TimerOK'
  BY TimerStep DEF GapInv
<1>2. \E r : Observed(r)
  BY DEF QosNext, Start, qos_manager_init, EnterLoop, Change, qos_timer_cb, qos_flow_cb,
         Stop, Crash, Pass
<1>3. bare' \in [Elements -> Nat \cup {Covered}]
  BY <1>2 DEF Observed, GapInv, NextServes, LifeOK
<1>4. ASSUME "setup" \notin faults', NEW e \in Elements, bare'[e] # Covered
      PROVE  /\ Uncovered(e)'
             /\ due' <= bare'[e] + QOS_PERIOD + MAX_LATE
             /\ left' # {} => ToCome(e)' \/ due' <= bare'[e]
  <2>1. Uncovered(e)' /\ bare'[e] \in {bare[e], now'} /\ (bare[e] = Covered => bare'[e] = now')
    BY <1>2, <1>4, StillBare
  <2>2. status' = "running"
    BY <2>1 DEF Uncovered
  <2>3. /\ now' \in Nat /\ due' \in Nat /\ now \in Nat /\ due \in Nat
        /\ due' <= now' + QOS_PERIOD
        /\ left' # {} => due' <= now'
    BY <1>1, <2>2 DEF TimerOK, LifeOK
  <2>4. CASE bare'[e] = now'
    BY <2>1, <2>3, <2>4, QosAssumption
  <2>5. CASE bare'[e] # now'
    <3>1. bare'[e] = bare[e] /\ bare[e] # Covered /\ bare[e] \in Nat
      BY <2>1, <2>5 DEF GapInv, NextServes
    <3>2. ~Start /\ ~qos_manager_init /\ ~Stop /\ ~Crash
      BY <2>2 DEF Start, qos_manager_init, Stop, Crash
    <3>3. "setup" \notin faults
      BY <3>2, <1>4 DEF QosNext, EnterLoop, Change, qos_timer_cb, qos_flow_cb, Pass
    <3>4. /\ Uncovered(e)
          /\ due <= bare[e] + QOS_PERIOD + MAX_LATE
          /\ left # {} => ToCome(e) \/ due <= bare[e]
      BY <3>1, <3>3 DEF GapInv, NextServes
    <3>5. CASE EnterLoop
      BY <3>4, <3>5 DEF EnterLoop, Uncovered
    <3>6. CASE Change
      BY <2>1, <2>3, <3>1, <3>4, <3>6 DEF Change, InLoop
    <3>7. CASE qos_timer_cb
      <4>1. e \in Wanted(cls)
        BY <3>4 DEF Uncovered
      <4>2. PICK k \in Served(cls) : Element(k) = e
        BY <4>1 DEF Wanted, Element
      <4>3. left' = Served(cls) /\ cls' = cls /\ due' = due
        BY <3>7, <4>2 DEF qos_timer_cb, Rearm
      <4>4. ToCome(e)'
        BY <4>2, <4>3 DEF ToCome, Element
      <4> QED
        BY <2>1, <2>3, <3>1, <3>4, <4>3, <4>4
    <3>8. CASE qos_flow_cb
      <4>1. PICK k \in left :
              /\ left' = left \ {k}
              /\ \/ elems' \in WithElement(Element(k)) /\ Observed({})
                 \/ NftMayFail /\ UNCHANGED elems /\ Observed({Element(k)})
        BY <3>8 DEF qos_flow_cb
      <4>2. UNCHANGED <<cls, now>> /\ Rearm(left')
        BY <3>8 DEF qos_flow_cb
      <4>3. Element(k) # e
        <5>1. SUFFICES ASSUME Element(k) = e PROVE FALSE
          OBVIOUS
        <5>2. CASE elems' \in WithElement(Element(k))
          <6>1. e[1] \in made
            BY SetsThere, <3>3, <3>4 DEF Elements, Uncovered
          <6>2. e \in DOMAIN elems'
            BY <5>1, <5>2, <6>1 DEF WithElement
          <6> QED
            BY <2>1, <6>2 DEF Uncovered
        <5>3. CASE Observed({Element(k)})
          BY <2>1, <2>5, <5>1, <5>3, <1>4 DEF Observed
        <5> QED
          BY <4>1, <5>2, <5>3
      <4>4. ToCome(e) => ToCome(e)'
        BY <4>1, <4>2, <4>3 DEF ToCome, Element
      <4>5. left # {} /\ now <= due + MAX_LATE
        BY <4>1, <3>4 DEF GapInv, TimerOK, Uncovered
      <4>6. CASE left' # {}
        <5>1. due' = due
          BY <4>2, <4>6 DEF Rearm
        <5> QED
          BY <2>1, <2>3, <3>1, <3>4, <4>4, <4>5, <5>1
      <4>7. CASE left' = {}
        <5>1. due' = now + QOS_PERIOD
          BY <4>2, <4>7 DEF Rearm
        <5>2. ~ToCome(e)'
          BY <4>7 DEF ToCome
        <5>3. due <= bare[e]
          BY <3>4, <4>4, <4>5, <5>2
        <5> QED
          BY <2>1, <2>3, <3>1, <4>5, <4>7, <5>1, <5>3, QosAssumption
      <4> QED
        BY <4>6, <4>7
    <3>9. CASE Pass
      <4>1. UNCHANGED <<cls, left, due>>
        BY <3>9 DEF Pass
      <4>2. ToCome(e)' <=> ToCome(e)
        BY <4>1 DEF ToCome, Element
      <4> QED
        BY <2>1, <2>3, <3>1, <3>4, <4>1, <4>2
    <3> QED
      BY <3>2, <3>5, <3>6, <3>7, <3>8, <3>9 DEF QosNext
  <2> QED
    BY <2>1, <2>4, <2>5
<1> QED
  BY <1>3, <1>4 DEF NextServes

LEMMA GapStep == LifeOK /\ LifeOK' /\ MadeSoFar /\ GapInv /\ [QosNext]_qosVars => GapInv'
<1> SUFFICES ASSUME LifeOK, LifeOK', MadeSoFar, GapInv, [QosNext]_qosVars PROVE GapInv'
  OBVIOUS
<1>1. CASE QosNext
  BY <1>1, TimerStep, ServesStep DEF GapInv
<1>2. CASE UNCHANGED qosVars
  BY <1>2
  DEF qosVars, kernelVars, GapInv, TimerOK, NextServes, Uncovered, Wanted, Served, ToCome, Element
<1> QED
  BY <1>1, <1>2

LEMMA GapIsBounded == LifeOK /\ GapInv => GapIsShort
<1> SUFFICES ASSUME LifeOK, GapInv, "setup" \notin faults, NEW e \in Elements, bare[e] # Covered
             PROVE  now - bare[e] <= QOS_PERIOD + 2 * MAX_LATE
  BY DEF GapIsShort
<1>1. Uncovered(e) /\ due <= bare[e] + QOS_PERIOD + MAX_LATE /\ bare[e] \in Nat
  BY DEF GapInv, NextServes
<1>2. now <= due + MAX_LATE /\ now \in Nat /\ due \in Nat
  BY <1>1 DEF GapInv, TimerOK, Uncovered, LifeOK
<1> QED
  BY <1>1, <1>2, QosAssumption

\* While the daemon lives, its setup worked and the verdict stands, a flow of a
\* class with a set waits at most one period and what two updates are late for its
\* mark, counted from the last command for it that failed (qos_timer_cb,
\* qos_flow_cb), for every number of flows, period, timeout and lateness.
THEOREM MarksComeInTime == QosSpec => []GapIsShort
BY LifeHolds, MadeHolds, GapInit, GapStep, GapIsBounded, PTL DEF QosSpec

-----------------------------------------------------------------------------
(* Which rule marks a packet.                                              *)

\* Of the rules whose set has the address there is a last one, and it counts.
LEMMA LastHitMarks ==
  ASSUME NEW ip, Len(rules) \in Nat, Hits(ip) # {}
  PROVE  \E h \in Hits(ip) : Mark(ip) = rules[h] /\ \A i \in Hits(ip) : i <= h
<1>1. Hits(ip) \subseteq Nat /\ \A i \in Hits(ip) : i <= Len(rules)
  BY DEF Hits
<1>2. \E h \in Hits(ip) : \A i \in Hits(ip) : i <= h
  BY <1>1, GreatestElement
<1> DEFINE h == CHOOSE i \in Hits(ip) : \A j \in Hits(ip) : j <= i
<1>3. h \in Hits(ip) /\ \A i \in Hits(ip) : i <= h
  BY <1>2
<1>4. Mark(ip) = rules[h]
  BY DEF Mark
<1> HIDE DEF h
<1> QED
  BY <1>3, <1>4

\* Every command of a setup leaves rules for some of the sets.
LEMMA SetupKeepsType ==
  ASSUME LifeOK, rules \in Seq(Marked), setup_nft_table
  PROVE  rules' \in Seq(Marked)
<1>1. CASE setup' \in DOMAIN Objects
  BY <1>1 DEF setup_nft_table
<1>2. CASE setup' \notin DOMAIN Objects
  <2>1. setup' - Len(Objects) \in 1..5
    BY <1>2, ObjectsAre DEF setup_nft_table, LifeOK
  <2>2. SetOrder[setup' - Len(Objects)] \in Marked
    BY <2>1, MarkedIs
  <2> QED
    BY <2>2 DEF setup_nft_table, WithRule
<1> QED
  BY <1>1, <1>2

-----------------------------------------------------------------------------
(* How long a mark outlives its flow.                                      *)

\* What is in the kernel's sets was wanted by a flow less than the timeout ago, and
\* what a flow wants now was seen now.
ExpiryInv ==
  /\ now \in Nat
  /\ cls \in [Keys -> Given \cup {NoFlow}]
  /\ rules \in Seq(Marked)
  /\ seen \in [Elements -> Int] /\ \A e \in Elements : seen[e] <= now
  /\ DOMAIN elems \subseteq Elements
  /\ \A e \in DOMAIN elems : elems[e] \in Int /\ now < elems[e] /\ elems[e] <= seen[e] + SET_TIMEOUT
  /\ \A e \in Wanted(cls) : seen[e] = now

LEMMA WantedAreElements ==
  ASSUME NEW v \in [Keys -> Given \cup {NoFlow}]
  PROVE  Wanted(v) \subseteq Elements
BY QosAssumption, MarkedIs DEF Wanted, Served, Elements, Ips, Range, NoFlow

LEMMA NobodyWants == Wanted([k \in Keys |-> NoFlow]) = {}
BY MarkedIs DEF Wanted, Served, NoFlow

\* seen only ever grows, and what is wanted at t was seen at t.
LEMMA SeenGrows ==
  ASSUME seen \in [Elements -> Int], NEW v \in [Keys -> Given \cup {NoFlow}], NEW t \in Nat,
         \A e \in Elements : seen[e] <= t
  PROVE  /\ Seen(v, t) \in [Elements -> Int]
         /\ \A e \in Elements : seen[e] <= Seen(v, t)[e]
         /\ \A e \in Wanted(v) : Seen(v, t)[e] = t
BY WantedAreElements DEF Seen

LEMMA ExpiryInit == QosInit => ExpiryInv
<1> SUFFICES ASSUME QosInit PROVE ExpiryInv
  OBVIOUS
<1>1. /\ now = 0 /\ rules = <<>> /\ elems = <<>>
      /\ seen = [e \in Elements |-> -SET_TIMEOUT]
      /\ cls = [k \in Keys |-> NoFlow]
  BY DEF QosInit, ClockInit
<1>2. seen \in [Elements -> Int] /\ \A e \in Elements : seen[e] <= now
  BY <1>1, QosAssumption
<1>3. Wanted(cls) = {}
  BY <1>1, NobodyWants
<1> QED
  BY <1>1, <1>2, <1>3 DEF ExpiryInv

\* Steps that touch neither the sets' elements nor what is seen.
LEMMA ExpiryKept ==
  ASSUME ExpiryInv, UNCHANGED <<elems, seen, now>>, rules' \in Seq(Marked),
         cls' = cls \/ cls' = [k \in Keys |-> NoFlow]
  PROVE  ExpiryInv'
<1>1. cls' \in [Keys -> Given \cup {NoFlow}]
  BY DEF ExpiryInv
<1>2. \A e \in Wanted(cls') : seen[e] = now
  BY NobodyWants DEF ExpiryInv
<1>3. Wanted(cls)' = Wanted(cls')
  BY DEF Wanted, Served
<1> QED
  BY <1>1, <1>2, <1>3 DEF ExpiryInv

\* One flow of an update: its element is wanted now, and whatever deadline it gets
\* is within the timeout from now.
LEMMA UpdateKeepsExpiry ==
  ASSUME ExpiryInv, NEW e \in Wanted(cls), elems' \in WithElement(e),
         UNCHANGED <<cls, rules, seen, now>>
  PROVE  ExpiryInv'
<1>1. e \in Elements /\ seen[e] = now
  BY WantedAreElements DEF ExpiryInv
<1>2. /\ DOMAIN elems' \subseteq DOMAIN elems \cup {e}
      /\ \A d \in DOMAIN elems' :
           \/ d = e /\ elems'[d] = now + SET_TIMEOUT
           \/ d \in DOMAIN elems /\ elems'[d] = elems[d]
  BY DEF WithElement
<1>3. DOMAIN elems' \subseteq Elements
  BY <1>1, <1>2 DEF ExpiryInv
<1>4. ASSUME NEW d \in DOMAIN elems'
      PROVE  elems'[d] \in Int /\ now < elems'[d] /\ elems'[d] <= seen[d] + SET_TIMEOUT
  <2>1. CASE d = e /\ elems'[d] = now + SET_TIMEOUT
    BY <1>1, <2>1, QosAssumption DEF ExpiryInv
  <2>2. CASE d \in DOMAIN elems /\ elems'[d] = elems[d]
    BY <2>2 DEF ExpiryInv
  <2> QED
    BY <1>2, <2>1, <2>2
<1>5. Wanted(cls)' = Wanted(cls)
  BY DEF Wanted, Served
<1> QED
  BY <1>3, <1>4, <1>5 DEF ExpiryInv

LEMMA ExpiryStep == LifeOK /\ ExpiryInv /\ [QosNext]_qosVars => ExpiryInv'
<1> SUFFICES ASSUME LifeOK, ExpiryInv, [QosNext]_qosVars PROVE ExpiryInv'
  OBVIOUS
<1>1. CASE Start
  BY <1>1, ExpiryKept DEF Start, kernelVars, ExpiryInv
<1>2. CASE qos_manager_init
  <2>1. rules' \in Seq(Marked)
    BY <1>2, SetupKeepsType DEF qos_manager_init, ExpiryInv
  <2> QED
    BY <1>2, <2>1, ExpiryKept DEF qos_manager_init, setup_nft_table
<1>3. CASE EnterLoop
  BY <1>3, ExpiryKept DEF EnterLoop, kernelVars, ExpiryInv
<1>4. CASE Change
  <2>1. PICK k \in Keys, c \in Given \cup {NoFlow} : cls' = [cls EXCEPT ![k] = c]
    BY <1>4 DEF Change
  <2>2. cls' \in [Keys -> Given \cup {NoFlow}]
    BY <2>1 DEF ExpiryInv
  <2>3. seen' = Seen(cls', now) /\ UNCHANGED <<rules, elems, now>>
    BY <1>4 DEF Change, kernelVars
  <2>4. /\ seen' \in [Elements -> Int]
        /\ \A e \in Elements : seen[e] <= seen'[e]
        /\ \A e \in Wanted(cls') : seen'[e] = now
    BY <2>2, <2>3, SeenGrows DEF ExpiryInv
  <2>5. \A e \in Elements : seen'[e] <= now
    BY <2>3, <2>4 DEF Seen, ExpiryInv
  <2>6. Wanted(cls)' = Wanted(cls')
    BY DEF Wanted, Served
  <2> QED
    BY <2>2, <2>3, <2>4, <2>5, <2>6, QosAssumption DEF ExpiryInv
<1>5. CASE qos_timer_cb
  BY <1>5, ExpiryKept DEF qos_timer_cb, kernelVars, ExpiryInv
<1>6. CASE qos_flow_cb
  <2>1. UNCHANGED <<cls, rules, seen, now>>
    BY <1>6 DEF qos_flow_cb
  <2>2. PICK k \in left : elems' \in WithElement(Element(k)) \/ elems' = elems
    BY <1>6 DEF qos_flow_cb
  <2>3. Element(k) \in Wanted(cls)
    BY <2>2 DEF LifeOK, Element, Wanted
  <2>4. CASE elems' \in WithElement(Element(k))
    BY <2>1, <2>3, <2>4, UpdateKeepsExpiry
  <2>5. CASE elems' = elems
    BY <2>1, <2>5, ExpiryKept DEF ExpiryInv
  <2> QED
    BY <2>2, <2>4, <2>5
<1>7. CASE Stop
  <2>1. /\ (UNCHANGED <<rules, elems>>) \/ (rules' = <<>> /\ elems' = <<>>)
        /\ cls' = [k \in Keys |-> NoFlow] /\ UNCHANGED <<seen, now>>
    BY <1>7 DEF Stop, qos_manager_flush, kernelVars
  <2>2. CASE UNCHANGED <<rules, elems>>
    BY <2>1, <2>2, ExpiryKept DEF ExpiryInv
  <2>3. CASE rules' = <<>> /\ elems' = <<>>
    <3>1. Wanted(cls)' = {}
      BY <2>1, NobodyWants DEF Wanted, Served
    <3> QED
      BY <2>1, <2>3, <3>1 DEF ExpiryInv
  <2> QED
    BY <2>1, <2>2, <2>3
<1>8. CASE Crash
  BY <1>8, ExpiryKept DEF Crash, kernelVars, ExpiryInv
<1>9. CASE Pass
  <2>1. /\ now' = now + 1 /\ seen' = Seen(cls, now') /\ UNCHANGED <<cls, rules>>
        /\ elems' = [e \in {d \in DOMAIN elems : elems[d] > now'} |-> elems[e]]
    BY <1>9 DEF Pass, Tick
  <2>2. now' \in Nat /\ \A e \in Elements : seen[e] <= now'
    BY <2>1 DEF ExpiryInv
  <2>3. /\ seen' \in [Elements -> Int]
        /\ \A e \in Elements : seen[e] <= seen'[e]
        /\ \A e \in Wanted(cls) : seen'[e] = now'
    BY <2>1, <2>2, SeenGrows DEF ExpiryInv
  <2>4. \A e \in Elements : seen'[e] <= now'
    BY <2>1, <2>2 DEF Seen, ExpiryInv
  <2>5. Wanted(cls)' = Wanted(cls)
    BY <2>1 DEF Wanted, Served
  <2>6. \A e \in DOMAIN elems' : e \in DOMAIN elems /\ elems'[e] = elems[e] /\ elems'[e] > now'
    BY <2>1
  <2> QED
    BY <2>1, <2>2, <2>3, <2>4, <2>5, <2>6, QosAssumption DEF ExpiryInv
<1>10. CASE UNCHANGED qosVars
  BY <1>10, ExpiryKept DEF qosVars, kernelVars, ExpiryInv
<1> QED
  BY <1>1, <1>2, <1>3, <1>4, <1>5, <1>6, <1>7, <1>8, <1>9, <1>10 DEF QosNext

LEMMA MarksAreRecent == ExpiryInv => MarkExpires
<1> SUFFICES ASSUME ExpiryInv, NEW ip \in Ips, Mark(ip) # NoFlow
             PROVE  now - seen[<<Mark(ip), ip>>] < SET_TIMEOUT
  BY DEF MarkExpires
<1>1. Hits(ip) # {}
  BY DEF Mark
<1>2. Len(rules) \in Nat
  BY DEF ExpiryInv
<1>3. PICK h \in Hits(ip) : Mark(ip) = rules[h]
  BY <1>1, <1>2, LastHitMarks
<1>4. <<Mark(ip), ip>> \in DOMAIN elems
  BY <1>3 DEF Hits
<1> QED
  BY <1>4, QosAssumption DEF ExpiryInv

\* A mark outlives the last flow that earned it by less than the element timeout
\* (the sets of setup_nft_table, filled by qos_flow_cb), for every number of flows,
\* lives, crashes and failed commands.
THEOREM MarksOutliveBriefly == QosSpec => []MarkExpires
BY LifeHolds, ExpiryInit, ExpiryStep, MarksAreRecent, PTL DEF QosSpec

-----------------------------------------------------------------------------
(* Which set wins.                                                         *)

\* While the setup's own commands have worked, its rules are the last of the chain,
\* in its order, whatever is before them.
LastCopy ==
  \A r \in 1..5 : r + 7 <= setup =>
    /\ setup - 7 <= Len(rules)
    /\ rules[Len(rules) - (setup - 7) + r] = SetOrder[r]

RulesInv ==
  /\ rules \in Seq(Marked)
  /\ "setup" \notin faults =>
       LastCopy \/ (status = "stopped" /\ DOMAIN elems = {})

LEMMA RulesInit == QosInit => RulesInv
BY DEF QosInit, RulesInv

\* A command that works and adds a rule, adds the next of the order behind the others.
LEMMA RuleAdded ==
  ASSUME LifeOK, MadeSoFar, RulesInv, qos_manager_init, "setup" \notin faults'
  PROVE  LastCopy'
<1>1. /\ setup \in 0..12 /\ setup' = setup + 1 /\ setup' \in 1..12
      /\ status = "starting" /\ status' = "starting"
  BY ObjectsAre DEF qos_manager_init, setup_nft_table, LifeOK
<1>2. "setup" \notin faults
  BY DEF qos_manager_init, setup_nft_table
<1>3. LastCopy /\ Len(rules) \in Nat
  BY <1>1, <1>2 DEF RulesInv
<1>4. CASE setup' <= 7
  BY <1>1, <1>4 DEF LastCopy
<1>5. CASE setup' > 7
  <2> DEFINE c == SetOrder[setup' - 7]
  <2>1. rules' = WithRule(c)
    BY <1>1, <1>5, ObjectsAre DEF qos_manager_init, setup_nft_table
  <2>2. \A i \in 1..7 : Objects[i] \in made
    BY <1>1, <1>2, <1>5, ObjectsAre DEF MadeSoFar
  <2>3. /\ Objects[2] \in made /\ Objects[3] \in made /\ Objects[4] \in made
        /\ Objects[5] \in made /\ Objects[6] \in made /\ Objects[7] \in made
    BY <2>2
  <2>4. setup' - 7 \in 1..5
    BY <1>1, <1>5
  <2>5. c \in Marked /\ c \in made /\ "chain" \in made
    BY <2>3, <2>4, MarkedIs, ObjectsAre
  <2>6. rules' = Append(rules, c)
    BY <2>1, <2>5 DEF WithRule
  <2> HIDE DEF c
  <2>7. /\ Len(rules') = Len(rules) + 1
        /\ rules'[Len(rules) + 1] = c
        /\ \A i \in 1..Len(rules) : rules'[i] = rules[i]
    BY <2>5, <2>6 DEF RulesInv
  <2> SUFFICES ASSUME NEW r \in 1..5, r + 7 <= setup'
               PROVE  /\ setup' - 7 <= Len(rules')
                      /\ rules'[Len(rules') - (setup' - 7) + r] = SetOrder[r]
    BY DEF LastCopy
  <2>8. setup' - 7 <= Len(rules')
    <3>1. CASE setup <= 7
      BY <1>1, <1>3, <2>7, <3>1
    <3>2. CASE setup > 7
      <4>1. setup - 7 \in 1..5 /\ (setup - 7) + 7 <= setup
        BY <1>1, <3>2
      <4>2. setup - 7 <= Len(rules)
        BY <1>3, <4>1 DEF LastCopy
      <4> QED
        BY <1>1, <1>3, <2>7, <4>2
    <3> QED
      BY <1>1, <3>1, <3>2
  <2>9. CASE r = setup' - 7
    <3>1. Len(rules') - (setup' - 7) + r = Len(rules) + 1
      BY <1>1, <1>3, <2>7, <2>9
    <3> QED
      BY <2>7, <2>8, <2>9, <3>1 DEF c
  <2>10. CASE r # setup' - 7
    <3>1. r + 7 <= setup
      BY <1>1, <2>10
    <3>2. setup - 7 <= Len(rules) /\ rules[Len(rules) - (setup - 7) + r] = SetOrder[r]
      BY <1>3, <3>1 DEF LastCopy
    <3>3. /\ Len(rules') - (setup' - 7) + r = Len(rules) - (setup - 7) + r
          /\ Len(rules) - (setup - 7) + r \in 1..Len(rules)
      BY <1>1, <1>3, <2>7, <3>1, <3>2
    <3> QED
      BY <2>7, <2>8, <3>2, <3>3
  <2> QED
    BY <2>9, <2>10
<1> QED
  BY <1>1, <1>4, <1>5

LEMMA RulesStep == LifeOK /\ MadeSoFar /\ RulesInv /\ [QosNext]_qosVars => RulesInv'
<1> SUFFICES ASSUME LifeOK, MadeSoFar, RulesInv, [QosNext]_qosVars PROVE RulesInv'
  OBVIOUS
<1>1. CASE Start
  <2>1. setup' = 0 /\ rules' = rules
    BY <1>1 DEF Start, kernelVars
  <2>2. LastCopy'
    BY <2>1 DEF LastCopy
  <2> QED
    BY <2>1, <2>2 DEF RulesInv
<1>2. CASE qos_manager_init
  <2>1. rules' \in Seq(Marked)
    BY <1>2, SetupKeepsType DEF qos_manager_init, RulesInv
  <2> QED
    BY <1>2, <2>1, RuleAdded DEF RulesInv
<1>3. CASE Stop
  <2>1. CASE rules' = <<>> /\ elems' = <<>>
    <3>1. status' = "stopped" /\ DOMAIN elems' = {}
      BY <1>3, <2>1 DEF Stop
    <3> QED
      BY <2>1, <3>1 DEF RulesInv
  <2>2. CASE UNCHANGED <<rules, elems>>
    <3>1. setup' = setup /\ status = "running" /\ ("setup" \in faults => "setup" \in faults')
      BY <1>3 DEF Stop, InLoop, qos_manager_flush
    <3> QED
      BY <2>2, <3>1 DEF RulesInv, LastCopy
  <2> QED
    BY <1>3, <2>1, <2>2 DEF Stop, qos_manager_flush, kernelVars
<1>4. CASE Pass
  <2>1. UNCHANGED <<setup, status, rules, faults>> /\ (DOMAIN elems = {} => DOMAIN elems' = {})
    BY <1>4, NothingToDrop DEF Pass
  <2> QED
    BY <2>1 DEF RulesInv, LastCopy
<1>5. CASE EnterLoop \/ Change \/ qos_timer_cb \/ qos_flow_cb \/ Crash
  <2>1. UNCHANGED <<setup, rules, faults>> /\ status # "stopped"
    BY <1>5 DEF EnterLoop, Change, qos_timer_cb, qos_flow_cb, Crash, InLoop, kernelVars, LifeOK
  <2> QED
    BY <2>1 DEF RulesInv, LastCopy
<1>6. CASE UNCHANGED qosVars
  BY <1>6 DEF qosVars, kernelVars, RulesInv, LastCopy
<1> QED
  BY <1>1, <1>2, <1>3, <1>4, <1>5, <1>6 DEF QosNext

\* Places in the last copy, counted from its beginning.
LEMMA PlaceInCopy ==
  ASSUME NEW n \in Nat, NEW i \in 1..5, NEW h \in 1..n, n - 5 + i <= h
  PROVE  /\ h - (n - 5) \in i..5 /\ h - (n - 5) \in 1..5
         /\ h = n - 5 + (h - (n - 5))
OBVIOUS

\* The last rule that hits is at or behind the last copy's rule for any set that
\* has the address.
LEMMA LatestWins == RulesInv => LatestSetWins
<1> SUFFICES ASSUME RulesInv, setup = 12, "setup" \notin faults, NEW ip \in Ips,
                    NEW i \in 1..5, <<SetOrder[i], ip>> \in DOMAIN elems
             PROVE  \E j \in i..5 : Mark(ip) = SetOrder[j]
  BY MarkedIs, ObjectsAre DEF LatestSetWins
<1>1. LastCopy /\ Len(rules) \in Nat
  BY DEF RulesInv
<1>2. 5 <= Len(rules) /\ \A r \in 1..5 : rules[Len(rules) - 5 + r] = SetOrder[r]
  BY <1>1 DEF LastCopy
<1>3. Len(rules) - 5 + i \in Hits(ip)
  BY <1>1, <1>2 DEF Hits
<1>4. PICK h \in Hits(ip) : Mark(ip) = rules[h] /\ \A k \in Hits(ip) : k <= h
  BY <1>1, <1>3, LastHitMarks
<1>5. h \in 1..Len(rules) /\ Len(rules) - 5 + i <= h
  BY <1>3, <1>4 DEF Hits
<1> DEFINE j == h - (Len(rules) - 5)
<1>6. j \in i..5 /\ j \in 1..5 /\ h = Len(rules) - 5 + j
  BY ONLY PlaceInCopy, <1>1, <1>5, i \in 1..5
<1>7. rules[h] = SetOrder[j]
  BY <1>2, <1>6
<1> HIDE DEF j
<1> QED
  BY <1>4, <1>6, <1>7

\* Once a setup has run to its end with its own twelve commands working, an address
\* in several sets gets the mark of the one latest in the order of
\* setup_nft_table's rules, however many whole or partial copies of them earlier
\* lives have left in the chain, that died in their setup or whose commands failed,
\* and whatever fails afterwards.
THEOREM OrderSurvivesCrashes == QosSpec => []LatestSetWins
BY LifeHolds, MadeHolds, RulesInit, RulesStep, LatestWins, PTL DEF QosSpec

=============================================================================
