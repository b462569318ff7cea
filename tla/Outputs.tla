------------------------------ MODULE Outputs ------------------------------
(***************************************************************************)
(* What the daemon leaves on disk, the training data and the telemetry     *)
(* file, across its lives: procd starts it, it stops or dies, and procd    *)
(* starts it again with both files as they were.                           *)
(*                                                                         *)
(* One thread runs both: while an export is under way nothing else is.     *)
(***************************************************************************)
EXTENDS DataCollect, Telemetry

CONSTANTS
  MaxStarts,         \* bound: lives of the daemon
  MaxRecorded,       \* bound: rows recorded by all of them
  MaxExports         \* bound: snapshots a life exports

ASSUME OutputsAssumption == {MaxStarts, MaxRecorded, MaxExports} \subseteq Nat

VARIABLES
  running,
  starts,            \* number of the current life
  crashes            \* history

outputsVars == <<collectVars, telemetryVars, running, starts, crashes>>

InLoop == running /\ pc \in {"idle", "off"}

\* main, up to the loop, with -C and -t.
Start ==
  /\ ~running /\ starts < MaxStarts
  /\ running' = TRUE /\ starts' = starts + 1
  /\ data_collect_init /\ telemetry_init
  /\ UNCHANGED crashes

\* What classify_flow_cb and the ubus methods ask of the collector.
Collect ==
  /\ InLoop
  /\ \/ recorded < MaxRecorded /\ \E s \in Samples : data_collect_record(s)
     \/ data_collect_start
     \/ data_collect_stop
  /\ UNCHANGED <<telemetryVars, running, starts, crashes>>

\* telem_timer_cb.
Export ==
  /\ running
  /\ \/ export_seq < MaxExports /\ telemetry_export(starts)
     \/ write_file
     \/ send_ubus_event
  /\ UNCHANGED <<collectVars, running, starts, crashes>>

\* SIGTERM ends the loop, and main destroys what it made.
Stop ==
  /\ InLoop
  /\ running' = FALSE
  /\ data_collect_destroy /\ telemetry_gone
  /\ UNCHANGED <<starts, crashes>>

Crash ==
  /\ running
  /\ running' = FALSE /\ crashes' = crashes + 1
  /\ data_collect_lost /\ telemetry_gone
  /\ UNCHANGED starts

OutputsInit ==
  /\ CollectInit /\ TelemetryInit
  /\ running = FALSE /\ starts = 0 /\ crashes = 0

OutputsNext == Start \/ Collect \/ Export \/ Stop \/ Crash

OutputsSpec == OutputsInit /\ [][OutputsNext]_outputsVars

\* uloop re-arms the telemetry timer at the end of its own callback, which runs
\* to its end.
OutputsFairSpec == OutputsSpec /\ WF_outputsVars(Export)

-----------------------------------------------------------------------------
\* "Flush periodically for crash safety" (data_collect.c:176): whatever sequence
\* of rows, pauses, stops, crashes and respawns, the crashes have cost at most
\* FLUSH_EVERY rows each, counting the next life's first row, which is glued to
\* a row the crash cut in two; a clean stop costs none.
LossIsBounded ==
  /\ Len(buf) < FLUSH_EVERY
  /\ recorded - Cardinality(Intact) <= crashes * FLUSH_EVERY + Len(buf)

\* A life that lasts publishes a snapshot, unless in this very life an export, or
\* the making of its context, has failed; what failed in earlier lives, and what
\* they left behind, is no excuse.
EventuallyPublished ==
  \A n \in 1..MaxStarts :
    (running /\ starts = n) ~>
      (~running \/ out.start = n \/ fault # "none")

=============================================================================
