----------------------------- MODULE QosManager -----------------------------
(***************************************************************************)
(* qos_manager.c: the marks packets get in the kernel, and how they follow *)
(* the classifier's verdicts.                                              *)
(*                                                                         *)
(* Three parties act on their own: the classifier changes verdicts, the    *)
(* daemon copies them into nftables sets every period (and may be stopped, *)
(* or crash and be respawned by procd), the kernel drops an element when   *)
(* its timeout has passed, whether the daemon lives or not.                *)
(*                                                                         *)
(* Every nft command is a process of its own and a step of its own here:   *)
(* the kernel forwards packets, time passes and the daemon may die between *)
(* any two.  The kernel part is external: what nft does with the commands  *)
(* run_nft passes it.                                                      *)
(***************************************************************************)
EXTENDS Clock, Sequences, FiniteSets, Functions

CONSTANTS
  Keys,              \* 5-tuples
  dst_ip,            \* dst_ip[key]: an address
  is_ipv6,           \* is_ipv6[key]
  Given,             \* bound: the classes the classifier gives in this model
  QOS_PERIOD,        \* QOS_UPDATE_MS
  SET_TIMEOUT,       \* timeout of an element of a set
  MAX_LATE,          \* by how much the end of an update may be behind the time the
                     \* timer was due: what other callbacks (a refresh that waits
                     \* for hostapd) and its own nft processes take
  NftMayFail,        \* whether an nft command may fail
  MaxStarts,         \* bound on the times the daemon is started
  ChangeHorizon      \* bound: no verdict changes after this second

VARIABLES
  cls,               \* the verdict of each flow, NoFlow if it is not tracked
  status,            \* "stopped", "starting", "running" or "crashed"
  setup,             \* how many of its commands the last setup_nft_table has run
  table_created,     \* qm->table_created
  due,               \* when the QoS timer fires
  left,              \* the flows the update under way has still to add
  made,              \* what exists in the kernel: "table", "chain", sets by class
  rules,             \* the rules of the chain, in order, by class
  elems,             \* elems[<<class, ip>>]: when the kernel drops the element
  seen,              \* history: when a flow last had that class and address
  bare,              \* history: since when a flow has had them without an element,
                     \* or since the last command failed that was to add it
  faults             \* history: whether a command of the last "setup" or the last
                     \* "flush" has failed

VARIABLE starts      \* history

kernelVars == <<made, rules, elems>>
qosVars == <<cls, status, setup, table_created, due, left, kernelVars, seen, bare,
             faults, starts, now>>

NoFlow == "none"

\* The sets and their rules, in the order setup_nft_table adds them, and what it
\* makes before the rules.
SetOrder == <<"video", "gaming", "voip", "social", "download">>
Marked   == Range(SetOrder)
Objects  == <<"table", "chain">> \o SetOrder

SetupLength == Len(Objects) + Len(SetOrder)

ASSUME QosAssumption ==
  /\ Given \subseteq Marked \cup {"unknown", "browsing", "other"}
  /\ is_ipv6 \in [Keys -> BOOLEAN] /\ DOMAIN dst_ip = Keys
  /\ {QOS_PERIOD, MAX_LATE, MaxStarts, ChangeHorizon} \subseteq Nat
  /\ SET_TIMEOUT \in Nat \ {0}
  /\ NftMayFail \in BOOLEAN
  /\ ClockSteps = {}          \* timers do not run on the wall clock

Ips == Range(dst_ip)

Elements == (Given \cap Marked) \X Ips

Covered == -1        \* bare[e] while e is in its set, or nobody wants it there

\* The flows qos_flow_cb has a command for, and the elements they want.
Served(verdicts) == {k \in Keys : verdicts[k] \in Marked /\ ~is_ipv6[k]}

Element(k) == <<cls[k], dst_ip[k]>>

Wanted(verdicts) == {<<verdicts[k], dst_ip[k]>> : k \in Served(verdicts)}

-----------------------------------------------------------------------------
(* nftables.  (Operators called <definition>_<what> are mutants.)          *)

\* A command that fails changes nothing, and nobody looks at its result.  (Of
\* the sets and rules, bound, those for the classes this model gives may fail: the
\* others make no difference to any mark.)
MayFail(object) == NftMayFail /\ object \in Given \cup {"table", "chain"}

\* "add" of something that is there already succeeds; without a table there is
\* no room for it.
WithObject(object) ==
  IF object = "table" \/ "table" \in made THEN made \cup {object} ELSE made

\* Rules are appended, also behind those of an earlier table of this name; a rule
\* whose set is missing is refused.
WithRule_First(c) ==
  IF {"chain", c} \subseteq made THEN <<c>> \o rules ELSE rules

WithRule(c) ==
  IF {"chain", c} \subseteq made THEN Append(rules, c) ELSE rules

\* The next command of setup_nft_table.
setup_nft_table ==
  /\ setup < SetupLength
  /\ setup' = setup + 1
  /\ table_created' = (setup' = SetupLength)
  /\ \/ /\ setup' \in DOMAIN Objects
        /\ made' = WithObject(Objects[setup'])
        /\ UNCHANGED <<rules, faults>>
     \/ /\ setup' \notin DOMAIN Objects
        /\ rules' = WithRule(SetOrder[setup' - Len(Objects)])
        /\ UNCHANGED <<made, faults>>
     \/ /\ MayFail((Objects \o SetOrder)[setup'])
        /\ faults' = faults \cup {"setup"}
        /\ UNCHANGED <<made, rules>>
  /\ UNCHANGED elems

\* An element that is there already may keep its deadline or be given a new one:
\* that depends on the kernel.
WithElement_Forever(e) ==
  {[d \in DOMAIN elems \cup {e} |-> MaxTime + 1]}

WithElement(e) ==
  IF e[1] \notin made THEN {elems}
  ELSE {[d \in DOMAIN elems \cup {e} |-> IF d = e THEN now + SET_TIMEOUT ELSE elems[d]]}
         \cup (IF e \in DOMAIN elems THEN {elems} ELSE {})

qos_manager_flush_RulesOnly ==
  /\ rules' = <<>> /\ elems' = <<>> /\ UNCHANGED <<made, faults>>
  /\ table_created' = FALSE

qos_manager_flush ==
  /\ \/ made' = {} /\ rules' = <<>> /\ elems' = <<>> /\ UNCHANGED faults
     \/ NftMayFail /\ UNCHANGED kernelVars /\ faults' = faults \cup {"flush"}
  /\ table_created' = FALSE

-----------------------------------------------------------------------------
(* The daemon.                                                             *)

\* History: an element some flow of a running daemon wants is bare from the
\* moment it is missing, or was refused.
Uncovered(e) == status = "running" /\ e \in Wanted(cls) /\ e \notin DOMAIN elems

Observed(refused) ==
  bare' = [e \in Elements |-> IF ~Uncovered(e)' THEN Covered
                              ELSE IF bare[e] = Covered \/ e \in refused THEN now'
                              ELSE bare[e]]

Seen(verdicts, t) ==
  [e \in DOMAIN seen |-> IF e \in Wanted(verdicts) THEN t ELSE seen[e]]

\* procd starts the daemon: qos_manager_init(true) begins.
Start ==
  /\ status \in {"stopped", "crashed"}
  /\ starts < MaxStarts
  /\ status' = "starting" /\ setup' = 0 /\ faults' = {}
  /\ starts' = starts + 1
  /\ UNCHANGED <<cls, table_created, due, left, kernelVars, seen, now>>
  /\ Observed({})

qos_manager_init ==
  /\ status = "starting"
  /\ setup_nft_table
  /\ UNCHANGED <<cls, status, due, left, seen, starts, now>>
  /\ Observed({})

\* main arms the timer and enters its loop.
EnterLoop ==
  /\ status = "starting" /\ setup = SetupLength
  /\ status' = "running"
  /\ due' = now + QOS_PERIOD
  /\ UNCHANGED <<cls, setup, table_created, left, kernelVars, seen, faults, starts, now>>
  /\ Observed({})

\* The loop runs nothing else while an update waits for nft.
InLoop == status = "running" /\ left = {}

\* The classifier gives a flow a verdict, or the flow is forgotten.
Change ==
  /\ InLoop
  /\ now <= ChangeHorizon
  /\ \E k \in Keys, c \in Given \cup {NoFlow} : cls' = [cls EXCEPT ![k] = c]
  /\ seen' = Seen(cls', now)
  /\ UNCHANGED <<status, setup, table_created, due, left, kernelVars, faults, starts, now>>
  /\ Observed({})

\* The callback ends, and arms its timer again, when no flow is left.
Rearm_Never(rest) == due' = IF rest = {} THEN MaxTime + 1 ELSE due

Rearm(rest) == due' = IF rest = {} THEN now + QOS_PERIOD ELSE due

\* qos_timer_cb begins.  (Its own call of setup_nft_table is never reached: the
\* first one always sets the flag.)
qos_timer_cb ==
  /\ InLoop
  /\ now >= due
  /\ table_created
  /\ left' = Served(cls) /\ Rearm(left')
  /\ UNCHANGED <<cls, status, setup, table_created, kernelVars, seen, faults, starts, now>>
  /\ Observed({})

\* One flow of the update, and its nft command.
qos_flow_cb ==
  /\ UNCHANGED <<cls, status, setup, table_created, made, rules, seen, faults, starts, now>>
  /\ \E k \in left :
       /\ left' = left \ {k}
       /\ \/ elems' \in WithElement(Element(k)) /\ Observed({})
          \/ NftMayFail /\ UNCHANGED elems /\ Observed({Element(k)})
  /\ Rearm(left')

\* SIGTERM ends the loop, and main destroys what it made.
Stop ==
  /\ InLoop
  /\ status' = "stopped"
  /\ IF table_created THEN qos_manager_flush
                      ELSE UNCHANGED <<kernelVars, table_created, faults>>
  /\ cls' = [k \in Keys |-> NoFlow]
  /\ UNCHANGED <<setup, due, left, seen, starts, now>>
  /\ Observed({})

\* A crash, a signal before the loop handles it, or a failure of main after
\* qos_manager_init: nothing is undone.
Crash ==
  /\ status \in {"starting", "running"}
  /\ status' = "crashed"
  /\ cls' = [k \in Keys |-> NoFlow] /\ left' = {}
  /\ table_created' = FALSE
  /\ UNCHANGED <<setup, due, kernelVars, seen, faults, starts, now>>
  /\ Observed({})

\* Time passes, with a running daemon's update done no later than MAX_LATE after
\* its timer was due; the kernel drops what is due.
Pass ==
  /\ status = "running" => now < due + MAX_LATE
  /\ Tick
  /\ elems' = [e \in {d \in DOMAIN elems : elems[d] > now'} |-> elems[e]]
  /\ seen' = Seen(cls, now')
  /\ UNCHANGED <<cls, status, setup, table_created, due, left, made, rules, faults, starts>>
  /\ Observed({})

QosInit ==
  /\ ClockInit
  /\ cls = [k \in Keys |-> NoFlow]
  /\ status = "stopped" /\ setup = 0 /\ table_created = FALSE /\ due = 0 /\ left = {}
  /\ made = {} /\ rules = <<>> /\ elems = <<>>
  /\ seen = [e \in Elements |-> -SET_TIMEOUT]
  /\ bare = [e \in Elements |-> Covered]
  /\ faults = {}
  /\ starts = 0

QosNext ==
  \/ Start \/ qos_manager_init \/ EnterLoop
  \/ Change \/ qos_timer_cb \/ qos_flow_cb
  \/ Stop \/ Crash \/ Pass

QosSpec == QosInit /\ [][QosNext]_qosVars

-----------------------------------------------------------------------------
\* The class whose DSCP a packet to ip leaves with: every rule whose set has
\* ip rewrites the field, so the last one counts.
Hits(ip) == {i \in 1..Len(rules) : <<rules[i], ip>> \in DOMAIN elems}

Mark(ip) ==
  IF Hits(ip) = {} THEN NoFlow
  ELSE rules[CHOOSE i \in Hits(ip) : \A j \in Hits(ip) : j <= i]

\* A mark outlives the last flow that earned it by no more than the element
\* timeout, across reclassification, eviction, failed commands, a crash and a
\* respawn.  (The kernel forgets within the timeout, the daemon never removes.)
MarkExpires ==
  \A ip \in Ips :
    Mark(ip) # NoFlow => now - seen[<<Mark(ip), ip>>] < SET_TIMEOUT

\* An address in several sets is marked for the one latest in SetOrder, as long as
\* the last setup has run to its end and its own commands worked: however many
\* whole and partial copies of the rules earlier lives have left in the chain, that
\* died or whose commands failed.  (While a respawn adds its rules one by one, the
\* last of them so far may be an earlier set's.)
LatestSetWins ==
  setup = SetupLength /\ "setup" \notin faults =>
    \A ip \in Ips : \A i \in 1..Len(SetOrder) :
      <<SetOrder[i], ip>> \in DOMAIN elems =>
        \E j \in i..Len(SetOrder) : Mark(ip) = SetOrder[j]

\* A daemon that was stopped leaves nothing in the kernel, nor what its crashed
\* predecessors had left there, if its one command worked.
CleanStopLeavesNothing ==
  status = "stopped" /\ "flush" \notin faults => made = {} /\ rules = <<>> /\ elems = <<>>

\* While the daemon lives and the verdict stands, a flow of a class with a set is
\* never without its mark for longer than a period and what two updates may be
\* late, counted from the last command for it that failed, if any did: neither a
\* new verdict, nor a failed command, nor an element that runs out because nft
\* kept its first deadline, even in the middle of an update, waits for more than
\* the next one.
GapIsShort ==
  "setup" \notin faults =>
    \A e \in Elements :
      bare[e] # Covered => now - bare[e] <= QOS_PERIOD + 2 * MAX_LATE

=============================================================================
