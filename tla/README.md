# The traffic classifier daemon in TLA+

This directory is a verification development of the `traffic-classifier` daemon
(`src/traffic-classifier/src/`): TLA+ modules translated from its C code, TLC
configurations that check them on small instances, and TLAPS proofs of what
holds for every instance. `PROJECT.json` lists, for every definition, the lines
of code it stands for, and for every property a plausible bug ("mutant") that
breaks it. Paths below are relative to `src/traffic-classifier/src/`, and to the
repository's root where they start with `README.md`.

## 1. The system and its parts

The daemon runs on an access point. It captures packets on the bridge, groups
them into flows, classifies each flow every five seconds, and tells others the
result: the kernel (QoS marks), a CSV file (training data), a JSON file and a
ubus event (telemetry), and ubus clients (the LuCI pages).

It is one process with **one thread**. `main.c` gives libubox's `uloop` one file
descriptor (captured packets), up to six timers and the ubus connection; every
callback runs to completion before the next starts. So there are no data races,
and the interleavings that matter are those of whole callbacks, together with
what does not wait for the thread: the clock, the kernel's nftables timeouts,
the readers of files, and the death of the process. procd respawns it with
whatever the last life left in the kernel and on disk.

| callback | period | what it changes |
|---|---|---|
| `capture_fd_cb` | per packet | DNS cache, then flow table |
| `classify_timer_cb` | 5 s | per flow: verdict, hint; device votes; usage window; CSV row |
| `expire_timer_cb` | 10 s | flow table, then DNS cache |
| `qos_timer_cb` | 10 s | kernel sets, from the flows' verdicts |
| `sta_timer_cb` | 15 s | station list, asked from hostapd |
| `profile_timer_cb` | 60 s | baselines, anomalies; windows start again |
| `telem_timer_cb` | configured | telemetry file and event |
| ubus methods | on demand | `capture_start`, `capture_stop`; the others only read |

| component | state | operations | what makes it correct |
|---|---|---|---|
| flow table (`flow_table.c`) | chains, a count beside them | lookup, insert, expire, for_each | one entry per 5-tuple; the count is the number of entries and stays within the limit; a sweep removes the silent flows and no others; silent flows go |
| DNS cache (`dns_cache.c`) | chains, a count; a deadline per address | insert, lookup, expire, parse_response | one entry per address; the latest answer until its deadline; a full cache drains |
| capture (`capture.c`) | none of its own | process_packet | a flow is named only by a live answer about one of its addresses; directions are counted right |
| classifier (`classifier.c`, `features.c`) | verdict in each flow entry | classify_flow: domain rules, model, heuristic | no verdict too early, one in the end; class and application agree; a name's verdict stays |
| QoS manager (`qos_manager.c`) | a flag; in the kernel: table, sets, rules, elements with timeouts | init, update, flush, destroy | marks follow verdicts, end when flows end, survive a crash sensibly, vanish on a stop |
| usage profiling (`usage_profile.c`) | per client: window, 24 hourly baselines, ports, flag; a ring of anomalies | update, tick, get_anomalies | the ring gives the newest events; flags agree with events; reports are not repeated for ever |
| data capture (`data_collect.c`) | CSV file, stdio buffer, row count, active flag | init, record, start, stop, destroy | one header; a pause or stop loses nothing, a crash a bounded amount |
| telemetry (`telemetry.c`) | two files, a sequence number | export | readers meet whole snapshots, newer each time, that add up |
| device fingerprint (`device_fingerprint.c`) | votes per MAC | analyze_flow, get_type, get_confidence | the guess follows the votes; a vendor votes once |
| station tracker (`sta_tracker.c`) | an array of stations whose slots are reused | refresh, find_mac | who stayed is found where it is; nothing of an earlier refresh is served |
| event loop (`main.c`) | timers | start, loop, stop | every part's timer goes on; what was made is destroyed |
| ubus API (`ubus_api.c`) | none | two methods that write, several that read | the readers' replies agree with each other; the writers: see data capture |

The components meet in three places. `classify_flow_cb` hands each flow entry to
the classifier, the fingerprint, the profiler and the collector, in this order;
QoS and telemetry read the verdicts later, under timers of their own. The flow
entry itself is shared: capture writes its counters and its hint, the classifier
its hint and its verdict. And the readers (ubus methods, telemetry) join the flow
table, the station list and the device records by MAC.

Two things bound how long a callback keeps the thread. `capture_process` reads at
most 64 packets a call (`capture.c:258-279`), so a flood does not keep the timers
from running. `sta_tracker_refresh` waits for hostapd: up to twelve calls of up to a
second each, during which every other timer is late.

What is hard here, and therefore what the properties are about:

- **Order of callbacks.** A DNS answer, the packet that needs it, the sweep that
  removes it and the pass that classifies by it come in any order; so do a
  verdict, the mark it earns and the kernel's timeout.
- **Counts beside data.** Flow table, DNS cache, anomaly ring, port table,
  client lists and the CSV all stop at a limit kept in a separate counter.
- **A clock that is set.** Ages and deadlines use `time(NULL)`, and a router
  without a battery-backed clock gets its time from NTP minutes after boot.
- **Crashes and respawns.** The nftables table, the CSV file and the temporary
  telemetry file outlive the process that made them.
- **Unchecked failures.** The results of nft commands, `fputs` and `fclose` are
  dropped.
- **Repetition.** Timers visit the same flows again and again; whatever adds
  instead of setting depends on how often it ran.
- **A world that moves meanwhile.** Stations roam between two of a refresh's
  questions, and timers are late by what the refresh waits.

`PROJECT.json` lists these as hazards, each at its line.

## 2. Modules

    Clock ----+-- FlowTable  --implements-->  FlowMap
              |       `-- ChainSweep (its unlink loop)     StoreProofs
              +-- DnsCache   --implements-->  LiveNames    (all three)
              +-- Capture    --uses as a map-->  FlowMap
              |       `-- Classifier                       TrafficProofs
              `-- QosManager                               QosManagerProofs
    UsageProfile                                           UsageProfileProofs
    DataCollect ------------------+-- Outputs              OutputsProofs
    ClientSummaries --+-- Telemetry --'
          |           `-- Clients                          ClientsProofs
          |     StaTracker, DeviceFp --'
          `-- SummariesProofs (used by OutputsProofs and ClientsProofs)
    RecursionLemmas   (used by all of them but StoreProofs)

Every module names its actions and operators after the C functions. Operators
called `<definition>_<what>` are the mutants and are used by no specification.
`MC<module>` holds a small instance, one or two `.cfg` files its runs.

**Clock** is `time(NULL)`: `Tick` adds a second, `ClockStep` sets it to a member
of the constant `ClockSteps`. `MaxTime` ends the model's time.

**FlowTable** is `flow_table.c` with the calls `process_packet` makes on it. A
bucket is the *set* of the entries on its chain: nothing outside the unlink loop
depends on the place of an entry in a chain. `count` is `ft->count`, kept
separately as in the code. `Packet` is lookup, then refresh, insert or drop
(a full table, a failed `calloc`); `Expire` is `flow_table_expire`; `Visit` is
`flow_table_for_each` with a callback that may rewrite each entry's data. The
table does not look at that data, which is a constant set.

**FlowMap** is what the table promises: a bounded map that opens, renews,
rewrites, and in a sweep forgets exactly the silent flows. `IsAMap` is the
refinement, with `flowBar` as the mapping.

**ChainSweep** is the loop inside both `expire` functions, `pp` and all: one
step per iteration, with what was freed remembered. It is the reason why the
other modules may take the loop as "the chain without its stale entries". (The
bodies of `flow_table_expire` and `dns_cache_expire` differ in the test only.)

**DnsCache** is the store in `dns_cache.c`: an insert overwrites an entry it
finds, even when the cache is full; a dead entry is hidden from lookups and takes
up room until a sweep. **LiveNames** is its promise: a set of names in force,
each until its own deadline, with no dead entries and no sweeps. `ServesLiveNames`
is the refinement; it says in particular that nobody can tell when sweeps run.

**Capture** is `process_packet` and `expire_timer_cb` on both stores, which are
maps here, as the two refinements allow. A packet's DNS answers are in the
cache before its flow asks for a hint, as in the code; a response is a name and a
sequence of addresses with TTLs. `cut` is what `snprintf` into `dns_hint[64]`
leaves of a name. `senders` says which MACs send packets from an address: on a
bridge a reply comes from the router's MAC. `IsFlowStore` checks that the way
Capture uses the table is a behaviour of FlowMap.

**Classifier** adds `classify_timer_cb`: for every flow with `MIN_PKTS` packets,
the domain rules, then the model, then the heuristic, whose rules are translated
one by one. The rule table is a function on names; the model may answer any
member of `Predictions`; a flow's shape (size, packets and bytes per second) is
any member of `Shapes`; the forward ratio is computed from the flow's counters.

**QosManager** is `qos_manager.c` plus its kernel side (sets, rules in order,
elements with deadlines). Every nft command is a process the daemon waits for, and a
step of its own here, so that time passes, the kernel drops elements and the daemon
may die between any two. `Start` begins a life (`status` "starting"), each step of
`qos_manager_init` is one of the twelve commands of `setup_nft_table` (`setup` counts
them), and `EnterLoop` arms the timer. `qos_timer_cb` begins an update, which has the
flows in `left` still to add; each `qos_flow_cb` is one of them and its `add element`,
and the last one arms the timer again. `Stop` flushes; `Crash` is any end without the
teardown, from the first command of the setup on: a crash, a signal before the loop
handles it, or main's early return; it leaves the kernel as it is. `Pass` is time, with
the kernel dropping elements. Any command may fail unnoticed (`faults` remembers that
one of the last setup, or the last flush, did). Whether a repeated `add element` renews
the timeout depends on the kernel, so either may happen. `cls` are the verdicts, which
change arbitrarily, though not during an update. The end of an update may be late by up
to `MAX_LATE`: what other callbacks take, a station refresh that waits above all, and
the update's own nft processes. The history `bare` dates the moment since which a flow
has lacked the element it should have, or the last failed command for it.

**UsageProfile** is `usage_profile.c`: `Pass` is `usage_profile_update` for each
tracked flow, in order; `usage_profile_tick` checks and moves every client's
baseline at some hour. The C functions are operators on one record `ctx`, so that
a pass is a recursive function of how many flows it has seen. Floats are integers:
bytes, and percentages for fractions.

**DataCollect** is `data_collect.c` with stdio made visible: a row goes to the
buffer, or the buffer is written with all of it or up to the middle of it. The
file is a sequence of lines, of which a crash may leave the last unfinished. The
next process appends to that.

**ClientSummaries** is the aggregation of flows per client and application, of
which `telemetry.c` and `ubus_api.c` each have a copy: places for clients and for
a client's applications that may run out. `ListAddsUp` says what such a list owes
to the table it was made from: everyone listed once and with all of their flows, and
nobody missing while there is a place.

**Telemetry** is `telemetry.c`: that aggregation in the order of `telem_flow_cb`, and
`write_file` as three steps (open, write, rename), any of which may fail and
between any two of which the process may die. Without memory for its context a life
has no telemetry (`pc` "off"), without memory for a snapshot one export is skipped.
`fault` is about the export under way, or the last one. **Outputs** composes it with
DataCollect under one life cycle (start, stop, crash).

**StaTracker** is `sta_tracker.c`. A refresh is a step per interface, because the
stations (`on`, hostapd's view) come, leave and roam between two questions; any
question may fail. The array's slots are overwritten field by field and never
cleared, and an answer without a signal leaves the slot's; so a signal strength is
represented by the station that sent it. The histories `been`, `heard` and `mute` say
where each station was during the refresh, which interfaces answered, and who sent
no signal.

**DeviceFp** is `device_fingerprint.c`: records that are opened until the table is
full and never removed, votes by name, vendor and pattern, and the resolution. It
has operators only.

**Clients** composes the last two with a small flow table and the views that
`get_flows`, `get_clients` and `get_stats` compute over all three. While a refresh
waits, only stations move: no callback of the daemon runs. The other components'
effect on a flow is a member of `Kinds`, which says what its traffic looks like and
what the classifier makes of it.

Left out everywhere: logging, wording, JSON layout, and the feature sums that
decide nothing in these modules.

## 3. Runs

| run | instance | what is checked |
|---|---|---|
| `flow_table` | 3 flows on 2 chains, room for 2, clock may be set to 0 or 4 | `TypeOK`, `OneEntryPerFlow`, `CountExact`; `IsAMap`; `IdleFlowForgotten` |
| `chain_sweep` | every chain of up to 4 entries, every choice of stale ones | `NoUseAfterFree`, `KeepsExactlyLive`, `SweepEnds` |
| `dns_cache` | 3 addresses on 2 chains, room for 2, TTLs 0, 1, 3 | `OneEntryPerIp`, `DnsCountExact`; `ServesLiveNames`; `FullCacheDrains` |
| `capture` | an upload, a download and a DNS flow for 2 places; two responses, one with three answers; clock may fall back to 0 | `HintWasAnswered`, `BackwardNeedsTwoSenders`, `HintWasLive`, `IsFlowStore`, `BothStoresDrain` |
| `classifier` | a QUIC flow with two senders and a DNS flow; two names with rules; three shapes; a model that is unsure or says "unknown" | `AppAgreesWithHint`, `VolumeRulesNeedBackward`, `DomainVerdictSticks`, `EventuallyClassified` |
| `qos` | two flows to one address and an IPv6 flow; two classes; two lives, each with the twelve commands of its setup; a timer late by up to a period; nft commands that fail | `LatestSetWins`, `CleanStopLeavesNothing`, `MarkExpires`, `GapIsShort` |
| `profile` | 3 clients for 2 places, 5 flows, a ring of 2, two hours of the day | `RecentFirst`, `FlaggedSinceTick`, `PortReportedOnce`, `SpikesSubside` |
| `outputs` | two lives, 6 rows, a limit of two flush intervals of 2 rows; two exports a life; 2 places for 3 clients | `HeaderFirstOnce`, `PausedIsDurable`, `LossIsBounded`, `ReportAddsUp`, `PublishesInOrder`, `EventuallyPublished` |
| `clients` | 2 stations on 2 interfaces with different networks, the router as a third source; 3 flows; 2 places for stations, clients and devices, 1 for applications | `StayedIsFound`, `FoundWasThere`, `RepliesAgree`, `VendorVotesOnce`, `GuessFollowsVotes` |
| `capture_downloads`, `classifier_long_name`, `profile_spike` | as above | each refutes one statement of the documentation, see section 6 |

What the less obvious properties say:

- `HintWasLive`: the name a flow is given is, at that moment, within its TTL and
  about the flow's source or destination, although the cache may hold dead names.
- `BackwardNeedsTwoSenders`: what `total_pkts_bwd` really counts are packets of the
  *same* directed 5-tuple from another MAC than the first packet's.
  `VolumeRulesNeedBackward` is its consequence: the heuristic's video and
  download rules want a small forward ratio, which a one-sided entry never has.
- `AppAgreesWithHint`: `app_name` is written by one of the three phases and never
  cleared. It does not go stale because the hint, once there, never changes, so the
  domain phase wins on every later pass. `DomainVerdictSticks` is the step version.
- `LatestSetWins`: all matching rules rewrite the DSCP field, so the last matching
  one counts. A respawned daemon's rules come behind those of every earlier life, of
  which one that died in its setup has left only the first few. Once the five are
  complete, the last copy decides, whatever is before it. The property is about a setup
  that has run to its end and whose own commands worked; section 6 says what happens
  before that.
- `MarkExpires`: a mark outlives the last flow that earned it by less than the
  element timeout, even over failed commands, a crash and a respawn.
- `GapIsShort`: while its daemon lives, no flow of a class with a set is without its
  element for longer than one period and two latenesses (of the update that missed it
  and of the next). Three things open such a gap: a new verdict, a command that fails
  (the time counts from the last one for that element), and, where nft keeps an
  element's first deadline, the element that runs out although every period adds it
  again. (The code's 60 s timeout and 10 s period so leave up to 10 s without a mark in
  every minute.) The second lateness is needed: an element may run out while the walk
  has already passed its flow. Only a failure in the setup itself is an excuse for good,
  since nothing repeats it.
- `PortReportedOnce`: an unusual port is reported a second time only if its client's
  port table is full and does not hold it; the ports in a full table stay silent.
- `FlaggedSinceTick`: the flag `is_anomalous` means "an event since the last tick
  began", although two timers raise it and one clears it.
- `SpikesSubside`: the same total cannot be a spike in four consecutive windows of
  an hour: with the weight 0.15 the average has passed a third of it by then.
- `LossIsBounded`: at any time the rows missing from the file are at most those in
  the buffer plus `FLUSH_EVERY` per crash so far, the row glued to a torn line included;
  a pause or a clean stop costs none.
- `PausedIsDurable`: after `capture_stop`, and when the collector pauses itself at
  its limit, nothing is pending. The pause itself does not flush: this rests on
  50000 being a multiple of 100, which is the assumption `CollectAssumption`.
- `PublishesInOrder`: what readers find changes only from a whole snapshot to a newer
  whole one; excepted is a snapshot whose own writes fell short, and nothing after it.
  `EventuallyPublished` is the other half: each life that lasts publishes, unless an
  export of this very life fails; what earlier lives left in the temporary file is no
  excuse.
- `VolumeRulesNeedBackward` (see above) is about classes that only the rules give: of
  a class the model may answer it says nothing. In the run that is neither "video" nor
  "download".
- `ReportAddsUp`: each listed client and application has exactly its own flows and
  bytes, also when others found no place.
- `StayedIsFound`: a station that stayed on one interface through a refresh, and
  whose interface answered, is found there with its own signal, in spite of failed
  questions, unreadable names, others that roam, and what its slot held before. The
  exception is a full list: a roaming station may take two places.
  `FoundWasThere` is the converse: whoever is found was there during this refresh.
- `RepliesAgree`: `get_clients` sums up the rows of `get_flows`, under the network
  and device type those rows show, and `get_stats` counts all rows, also of clients
  there was no place for. The three walk the table separately.
- `GuessFollowsVotes`: a device's votes for a type never get fewer, and its guess
  changes only to a type that has just got votes. An identified device does not become unknown, and equal votes do not make
  the guess go back and forth.
- `VendorVotesOnce`: unlike the other votes, which count again on every pass of
  every flow, the vendor's is counted once in a record's life.

**Why the bounds are enough.** Each instance has one more contender than places
(flows, addresses, clients, applications), two chains of which one is shared, and
a time span in which an entry is opened, ages, is swept and is opened again. Two
lives are the least that show what a crash leaves to a successor, and no state
depends on more than the previous life. Baselines, timeouts and limits are scaled
down to 1 to 4 and keep the relations the code has between them (the element
timeout is longer than the QoS period; the row limit a multiple of the flush
interval). Bounds that only stop the model (`MaxTime`, `PacketHorizon`,
`AnswerHorizon`, `ChangeHorizon`, `MaxPkts`, `MaxStarts`, `MaxRecorded`,
`MaxExports`, `MaxChanges`, `MaxPasses`, `MaxWork`) are named in the modules; the
horizons end before `MaxTime`, so that what must happen after the last packet can.
`MaxWork` counts everything but the steps inside a refresh and further refreshes:
five are enough to open a flow, classify it twice, move a station and classify
again. `MAX_LATE` is a whole QoS period, as the twelve seconds of a refresh that waits for
every interface are to the code's ten. In `qos`, only the commands for the two classes
given may fail: the other sets hold nothing, and their rules mark nothing.
In `classifier`, the model's answers are chosen just beside the threshold of 0.40.

`CHECK_DEADLOCK FALSE` is set where the system may really stop: the sweep loop
ends, and `qos` and `outputs` run out of lives. The other models always can
repeat a timer.

## 4. Fairness

Each timer callback ends by arming its own timer again, `uloop` runs due timers,
and no callback waits for another, so weak fairness of `expire_timer_cb`,
`classify_timer_cb` and `Export` is what the loop gives. (The
unlink loop has fairness of its own step: it is inside one callback.) Time
passes: weak fairness of `Tick`. Where the clock may also be set back,
`<>[][now' > now]_now` says that this happens finitely often; a clock that is set
back for ever would keep idle flows for ever, and no code could help it. No
fairness is assumed of packets, answers, verdict changes, nft or file operations
that may fail, starts, stops or crashes, and the liveness properties name those
ways out (`fault`, `~running`).

QosManager states its progress as a bound instead (`GapIsShort`): `Pass` lets time
run no further than `MAX_LATE` past the moment the timer was due, until the update is
done. That is what the code gives, with `MAX_LATE` the longest other callback and the
update's own nft processes, one per flow, together; it says more than fairness would:
the mark is there in time, not at some time. The code bounds neither: up to 8192 flows
of marked classes are as many processes in a row, so that for a full table `MAX_LATE`
may be many seconds.

## 5. Proofs

All theorems are for every value of the constants, within the constants'
assumptions (`...Assumption`), which TLC evaluates in each run. Every invariant,
and every action property but those of liveness, that a passing run checks is stated
by a theorem.

| theorem | establishes | from |
|---|---|---|
| `TableTypeOK`, `NoFlowTwice`, `CountIsExact` | `[]TypeOK`, `[]OneEntryPerFlow`, `[]CountExact` | `TableInv` |
| `TableImplementsMap` | `Spec => IsAMap` | `TableInv` |
| `SweepNeverUsesFreed`, `SweepKeepsExactlyLive` | `[]NoUseAfterFree`, `[]KeepsExactlyLive` | `LoopInv` |
| `NoIpTwice`, `DnsCountIsExact` | `[]OneEntryPerIp`, `[]DnsCountExact` | `DnsInv` |
| `ServesLatestLiveAnswer` | `DnsSpec => ServesLiveNames` | `DnsInv` |
| `BackwardIsAnotherSender` | `[]BackwardNeedsTwoSenders` | `EntriesOK` |
| `HintsWereAnswered` | `[]HintWasAnswered` | `HintInv` |
| `HintsAreLiveWhenGiven` | `CaptureSpec => HintWasLive` | `HintInv` |
| `CaptureUsesFlowMap` | `CaptureSpec => IsFlowStore` | `StoreInv` |
| `AppIsTheRules`, `VolumeNeedsSecondSender` | `[]AppAgreesWithHint`, `[]VolumeRulesNeedBackward` | `VerdictsOK` |
| `NamedVerdictIsKept` | `ClassifierSpec => DomainVerdictSticks` | `VerdictsOK` |
| `StopCleansUp` | `[]CleanStopLeavesNothing` | itself, with `LifeOK` |
| `MarksComeInTime` | `[]GapIsShort` | `GapInv`, `MadeSoFar` |
| `MarksOutliveBriefly` | `[]MarkExpires` | `ExpiryInv` |
| `OrderSurvivesCrashes` | `[]LatestSetWins` | `RulesInv` |
| `NewestFirst`, `FlagsAreFresh`, `PortsReportedOnce` | `[]RecentFirst`, `[]FlaggedSinceTick`, `[]PortReportedOnce` | `ProfileInv` |
| `BaselineFollows` | `[]SpikesSubside`, if `BASELINE_BYTES >= 16` | `ProfileInv` |
| `PauseLeavesNothing` | `[]PausedIsDurable` | `PauseInv` |
| `OneHeader`, `CrashesCostOneInterval` | `[]HeaderFirstOnce`, `[]LossIsBounded` | `LossInv` |
| `ReadersSeeOrder` | `OutputsSpec => PublishesInOrder` | `PublishInv` |
| `SummariesAreRight` | `ListAddsUp(Summaries(t), t)` for every table `t` | `AddsUpTo` |
| `SnapshotsAddUp` | `[]ReportAddsUp` | `ReportInv`, `AddsUpTo` |
| `ShownWhereItWas`, `WhoStaysIsShown` | `[]FoundWasThere`, `[]StayedIsFound` | `ListInv` |
| `GuessesFollowVotes`, `VendorsVoteOnce` | `ClientsSpec => GuessFollowsVotes`, `[]VendorVotesOnce` | `DeviceInv` |
| `RepliesTellTheSame` | `[]RepliesAgree` | `DeviceInv`, `SummariesAreRight` |

**Loops.** Many callbacks walk an array, and the models write such a walk as a
recursive function `after[n \in 0..N]` of how many elements it has seen. The
library's induction theorems take an operator as a parameter, which the installed
provers cannot instantiate; `RecursionLemmas` states induction with sets in their
place. It starts from `LeastElement` (a set of natural numbers has a least one),
which is `WFMin` of the library for the order of the naturals; `UpTo` is induction
up to `N` as a statement about a set of indices. `RunWithin` says that if a set of
results `R[n]` holds the start and each step leads from `R[n - 1]` to `R[n]`, then
there is exactly what the recursive definition describes, and `after[n]` is in
`R[n]`. A proof about a loop is then two lemmas, of its start and of its step, and
the set `R[n]` is the loop's invariant. The proofs name these sets: `Holding`
(a response's answers), `Writes` (pieces of the buffer into the file), `Listed`
(an interface's answer into the station list), `Passed` (flows into device records),
`AddsUpTo` (flows into a client list), `Half` (clients a profiling tick has seen).

**The tables.** `OneEntryPerFlow` is not inductive: `insert` does not look for the
key, its caller does, through `lookup`, which walks one chain. Only if every
entry is on the chain its key hashes to (`OnItsChain`) does an empty lookup mean
that the key is nowhere. And `CountExact` needs `OneEntryPerFlow`: a refresh
replaces one entry by one. `TableInv` (`DnsInv`) is the conjunction of type,
uniqueness, chain and count. The argument has one lemma per operation that says
what it does to the *set of all stored entries* (adds one, replaces one, removes
the stale ones), and cardinality facts about those three.

**The refinements.** The mapping collects the stored entries into a function of
their keys. Given uniqueness, its value at a key is *the* entry's fields, so
each operation's effect on the set becomes an effect on the function. For the
DNS cache the mapping takes the live entries only: a sweep and a refused answer
become stutters, a tick removes the names that end with it.
`ServesLatestLiveAnswer` additionally assumes `ClockSteps \subseteq {MaxTime}`:
set back, the clock would bring a name that had ended back into force, if no sweep
came between. That is what the code does; it is why the run has the same
restriction. `CaptureUsesFlowMap` is the third: each packet of Capture renews or
opens one record, or leaves the map alone.

**The sweep.** `LoopInv` says that `pp` is the link that leads to the next entry to
be visited, that the kept entries are linked one to the next behind it, and that
the links ahead are still the original ones. It implies both safety properties for
chains of any length.

**Capture and Classifier.** `EntriesOK` says of each entry that its first packet
came from a sender of its source address and that backward packets need another
one; `Keeps` says what an entry never loses while it lives: its name, and its
backward count. `HintInv` adds that each name in the cache is one that a response
gave to that address (`CacheOK`), through evictions and refusals; a flow takes its
name from there and keeps it when the cache has long forgotten it, which is why
`HintWasAnswered` refers to the history `answered`. `AppAgreesWithHint` is inductive
only with `Keeps`: the pass that would leave a stale `app_name` is excluded because
the flow still has the name that earned it. `VolumeRulesNeedBackward` goes through
the rules themselves: of the fourteen, four give "video" or "download", and each
wants so few packets forward that one must be backward.

**QosManager.** `LifeOK` ties the daemon's variables to its life: the flag
`table_created` is set exactly from the last command of the setup to the end of the
process, so that `qos_manager_destroy` never skips the flush, and a clean stop cleans up.
`MadeSoFar` says that a setup whose commands worked has made whatever it has come to;
so the sets are there (`SetsThere`) for the elements. For the gap, `TimerOK` says that
the timer is late by no more than `MAX_LATE` and has fired if an update is under way, and
`NextServes` that for a missing element the timer is armed for no later than a period
and a lateness after it went missing, and that an update under way has either still to
come to it, or it went missing behind the walk. `ExpiryInv` bounds each element's
deadline by the last time that a flow wanted it plus the timeout, and says that it has
not passed; the element is gone, then, before a timeout has. `RulesInv` says, by
`LastCopy`, that the rules this setup has added so far, if its commands worked, are the
last of the chain and in their order; nothing is needed of those before them, and so
nothing of how earlier lives ended. When all five are there, any rule that hits is
matched by one of its class in the last copy, where the order of the sets decides.

**UsageProfile.** `ProfileInv` relates the ring, the log of all events and the
profiles. `RingOK`: walking back from `head` gives the log's end. `FlagsOK`: a flag
is up exactly if the log has an event of its client behind the place where the last
tick began; during a tick, `Half` says so of the clients already seen, and of the
others that nothing was logged of them yet. `PortsOK`: a reported port is in its
client's table unless that is full, and it was reported twice only if there is no room
for it (`NoRoom`), which stays so, because a full table never changes (`PortsGrow`). The last
part, `SpikeBounds`, is the arithmetic of `SpikesSubside`: after one, two and three
spikes of `n` bytes at consecutive samples the average is at least about 15%, 27.75%
and 38.6% of `n`, and a third suffices. The model rounds down where the code has
doubles, so that the bounds need an `n` of at least 52, which a spike over an average
of 17 or more has: that is the hypothesis `BASELINE_BYTES >= 16`. The code has 1000.

**Outputs.** `PauseInv` carries the arithmetic: rows count from zero in each life,
every multiple of `FLUSH_EVERY` empties the buffer, and `MAX_ROWS` is one. `LossInv`
counts the rows that readers will find once the next piece is written (`Due`): the
whole ones, less one where an unfinished line would be glued to what follows. A
write of the buffer then loses nothing, wherever stdio cuts it, and a crash loses
the buffer and the line it leaves: at most `FLUSH_EVERY` rows, since the buffer has
at most `rows % FLUSH_EVERY`. In `PublishInv`, what readers have is older than the
snapshot under way, by its life or by its number, and the temporary file holds that
snapshot before the rename unless a write failed; between lives only the temporary
file is in doubt, and it is opened anew. `ReportInv` follows a report on its way: it
adds up when built, and so does whatever is whole in either file.

**ClientSummaries.** `AddsUpTo(cs, t, n)` is `ListAddsUp` for the first `n` flows of
the table. Counting one more flow has four cases (its client is listed, gets a place,
has none, and the same for the application), and `Lists` is what the two lists have
in common: distinct members, all of them unless the places are used up. That a
sender without a place never gets one later, with part of its flows missing, is
in it: the list is full from then on. `SummariesAreRight` serves both users.

**Clients.** `ListInv` describes a list in the making: each slot written so far
shows a station on an interface that answered and that it was on since the refresh
began (`SlotOK`), and a station that was on one interface only is listed if that
answered, unless the list is full (`StayedIsListed`). Nothing about the slots behind
`count` is needed. `DeviceInv` says that records are one per MAC, that their guess is
the smallest type with the most votes, and that a device outside `hinted` has its
vendor's votes only; over a pass, records keep their place and votes only grow. A
guess that changes has been overtaken, so its new type has gained. `RepliesAgree`
needs, besides `SummariesAreRight`, that the walk over the buckets meets each flow
once (`ListsFlows`), so that counting rows counts flows.

**Assumptions.** Beyond types, the theorems use: the row limit is a multiple of the
flush interval (50000 and 100); timeouts and packet bounds are positive; the
enumerations of flows, interfaces and answers are finite sequences, that of the
tracked 5-tuples without repetition (an array index); a flow has a class to begin
with (`Unclassified`). None excludes a configuration of the code.

**Only model-checked.** The liveness properties `IdleFlowForgotten`, `SweepEnds`,
`FullCacheDrains`, `BothStoresDrain`, `EventuallyClassified` and
`EventuallyPublished`: fairness is out of the proof system's reach here. No module
declares a RECURSIVE operator, so that all of them can be proved about.

## 6. What the runs disprove

Three statements of the documentation do not hold of the code, each with a run:

1. **Download packets.** README.md:110 calls feature 2 the download packet count.
   Flows are keyed by the directed 5-tuple, so a download packet opens a flow of
   its own whose `src_mac` is the router's, and the backward counters of the upload
   flow stay 0 (`capture_downloads`).
2. **Long names.** README.md:94 gives the domain match the highest priority. A
   name longer than 63 characters loses its *end* in `dns_hint`, which is the part
   the suffix rules compare (`classifier_long_name`).
3. **Spikes.** usage_profile.h:22 compares the current rate with the hourly
   average. A window adds each flow's bytes *since it opened*, on every pass, and
   so reports spikes in windows in which nothing was transferred
   (`profile_spike`).

Noticed while reading, without a run:

- `qos_manager.h:10` speaks of sets of address and port; they hold addresses. Two
  flows of different classes to one server get one mark, the later set's.
- A station whose answer has no signal shows the one of whoever had its slot in an
  earlier refresh (`sta_tracker.c:112`); `StayedIsFound` has that exception. One
  that roams during a refresh is counted twice in `tracked_stations`.
- Device records are never removed: after 128 MACs newcomers stay unknown for the
  life of the daemon, and phones with random MACs use them up.
- The hint's vote and the destination's are taken from the same name, so that a
  named flow votes twice in a pass; and each pass votes again, so that one long flow
  outvotes many short ones with stronger signals. `resolved` is never read.
- Vote counters are `int` and never fall. A router's MAC, under which most
  downstream flows run, would reach the limit only after years
  (`device_fingerprint.c:224`).
- `capture_start` answers "active: true" when the row limit has been reached, and
  the next flow pauses the collector again.
- `classifier.c:261-265` calls DNS traffic (port 53) browsing; README.md:79 lists
  DNS under "other".
- The heuristic's last two UDP/443 rules (`classifier.c:339-349`) are shadowed by
  the rule for ports 443 and 80 before them. `Rules` keeps them, in place.
- `classifier.h:15-18` documents ports before the model; the code asks the model
  first (`classifier.c:366-379`).
- `qos_manager.h:18` gives browsing the mark AF11; browsing has no set.
- `setup_nft_table` always succeeds as far as its caller sees; the branch "setup
  failed, disabling" (`qos_manager.c:107-111`) is never taken, and a daemon whose
  setup failed does not try again. Every crash adds another copy of the rules.
- While a respawned daemon adds its rules one by one, the last rule of the chain may be
  an earlier set's: for those moments an address that is still in two sets gets the
  earlier set's mark (after "video" has been added again behind "download", say). If
  the daemon dies just then, that lasts until its successor's setup is complete, or the
  elements run out. `LatestSetWins` therefore waits for the end of the setup.
- A daemon whose start fails after `qos_manager_init` (`main.c:247`) leaves its table
  in the kernel. The marks in it end by themselves; the table stays until a later life
  is stopped cleanly.
- `usage_profile.h:25`: an unusual port that finds its client's port table full is
  reported again on every pass. `PortReportedOnce` excepts such ports, though not the
  ones a full table holds.
- `data_collect.h:34` speaks of a confident classification; a known class is
  recorded at any confidence. The limit of 50000 rows is per process.
- `write_file` ignores write errors before the rename: on a full file system it
  publishes a truncated snapshot. `PublishesInOrder` has that exception.
- Without memory for its context, telemetry is off for the life of the daemon and
  nothing says so (`telemetry.c:30-32`); `EventuallyPublished` excepts such a life.

## 7. Not modelled, or not yet

- **Header parsing** in `capture.c`, **name reading** in `dns_cache.c`: stateless
  work on bytes; the models start from a packet's 5-tuple and a response's answers.
- **Feature extraction and the model**: numeric; `tc_model_xgb.c` is generated.
  The classifier model allows any answer.
- **`get_profiles`, LuCI, init script, training scripts**: they keep no state the
  daemon depends on. procd's respawn is in QosManager and Outputs.
- **Write errors in the CSV**: rows are lost without a trace.
- **Rule tables** (names, vendors, ports): data; the modules take the first match of
  a name or a MAC as a function.
- **`int` overflow of votes**: out of reach of an instance with a handful of passes,
  and no bound follows from the code.

**How much of the source is mapped.** The repository holds the daemon's sources
twice, byte for byte: in `src/traffic-classifier/src/` and in
`src/traffic-classifier/traffic-classifier/src/`. The map names lines of the first
copy only. In each copy, the generated trees of `tc_model_xgb.c` are 97,044 of about
101,300 lines. Of the 4,223 hand-written lines of C and headers the map names 2,308;
most of the rest is rule tables, header parsing, feature sums, includes, option
parsing and header comments.

## 8. Plan

Done: all of the daemon's stateful components are modelled and checked; every safety
property of a passing run is proved for all values of the constants.

Left, in this order:

1. What the model leaves to the runs but could be stated for all instances: the
   replies of `get_anomalies` together with the flags `get_profiles` shows.
2. Lemmas under the liveness properties that are not temporal: that a sweep with time
   on its side removes an entry, that a pass classifies a flow with enough packets.
3. A joint schedule of the timers with a blocking refresh: what lateness does to
   expiry and to the capture socket's buffer, beyond QoS.

## 9. Running it

    tlc -config FlowTable.cfg MCFlowTable        # any run of PROJECT.json
    tlapm StoreProofs.tla                        # or RecursionLemmas, any *Proofs

The largest runs are `qos` (3.4 million states, two minutes), `profile` (1.2 million),
`clients` (1.1 million) and `outputs` (190 thousand), which take about a minute or less. The
proofs take about five minutes together.
