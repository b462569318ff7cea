----------------------------- MODULE Telemetry -----------------------------
(***************************************************************************)
(* telemetry.c: a snapshot of the flow table per client, written to a      *)
(* temporary file that is then renamed over the one its readers open, and  *)
(* sent as a ubus event.                                                   *)
(*                                                                         *)
(* build_json runs in one go; the steps of write_file are separate because *)
(* the process may die, and a reader may open the file, between any two.   *)
(* Stations' SSIDs, device types and anomalies are copied into the         *)
(* snapshot by the other components and left out.                          *)
(***************************************************************************)
EXTENDS ClientSummaries, Functions

CONSTANT Tables      \* the flows for_each may visit, in its order

ASSUME TelemetryAssumption ==
  \A t \in Tables :
    /\ t \in Seq(Range(t))
    /\ \A i \in 1..Len(t) : t[i].cls \in Classes /\ t[i].bytes \in Nat

VARIABLES
  pc,                \* the next step of telemetry_export; "off" without a context
  json,              \* the snapshot being exported
  export_seq,
  tmp, out,          \* <path>.tmp and <path>, as a reader would find them
  fault              \* history, of the last export: "none", "short" (a write fell short,
                     \* unnoticed) or "loud" (any other failure); "loud" also if the
                     \* life began without a context

telemetryVars == <<pc, json, export_seq, tmp, out, fault>>

\* No file, and one that holds less than a snapshot.
NoFile  == [start |-> 0, seq |-> 0, whole |-> FALSE]
Partial == [start |-> 0, seq |-> 1, whole |-> FALSE]

\* A failure that is at least logged.
Noticed == IF fault = "short" THEN "short" ELSE "loud"

-----------------------------------------------------------------------------
(* telem_flow_cb, over the flows in the order for_each visits them.        *)
(* (Names <definition>_<what> are mutants.)                                *)

NewAgg ==
  [clients |-> <<>>, class_totals |-> [c \in Classes |-> 0], total_bytes |-> 0]

\* The totals count every flow, also one of a client there is no place for.
telem_flow_cb(agg, f) ==
  [class_totals |-> [agg.class_totals EXCEPT ![f.cls] = @ + 1],
   total_bytes  |-> agg.total_bytes + f.bytes,
   clients      |-> WithClient(agg.clients, f)]

build_json(start, table) ==
  LET agg[n \in 0..Len(table)] ==
        IF n = 0 THEN NewAgg ELSE telem_flow_cb(agg[n - 1], table[n])
  IN  [start |-> start, seq |-> export_seq, whole |-> TRUE, table |-> table,
       report |-> agg[Len(table)]]

-----------------------------------------------------------------------------
(* telemetry_export, for the process that was started as number start.     *)

\* The snapshot carries the number the process had before it counts this one.
\* Without memory for one, the export ends there; the timer tries again.
telemetry_export(start) ==
  /\ pc = "idle"
  /\ \/ /\ \E t \in Tables : json' = build_json(start, t)
        /\ export_seq' = export_seq + 1
        /\ pc' = "open"
        /\ fault' = "none"
     \/ fault' = "loud" /\ UNCHANGED <<json, export_seq, pc>>
  /\ UNCHANGED <<tmp, out>>

\* fopen "w": what an earlier process left in the file is gone.
OpenTmp_IsTheFile ==
  /\ pc = "open"
  /\ \/ pc' = "write" /\ tmp' = Partial /\ out' = tmp'
        /\ UNCHANGED fault
     \/ pc' = "event" /\ fault' = Noticed /\ UNCHANGED <<tmp, out>>
  /\ UNCHANGED <<json, export_seq>>

OpenTmp_Exclusive ==
  /\ pc = "open"
  /\ IF tmp = NoFile THEN pc' = "write" /\ tmp' = Partial
                     ELSE pc' = "event" /\ UNCHANGED tmp
  /\ UNCHANGED <<json, export_seq, out, fault>>

OpenTmp ==
  /\ pc = "open"
  /\ \/ pc' = "write" /\ tmp' = Partial /\ UNCHANGED fault
     \/ pc' = "event" /\ fault' = Noticed /\ UNCHANGED tmp
  /\ UNCHANGED <<json, export_seq, out>>

\* fputs, fputc and fclose; on a full file system they fail, and the result of
\* none is read.
WriteTmp ==
  /\ pc = "write"
  /\ pc' = "rename"
  /\ \/ tmp' = json /\ UNCHANGED fault
     \/ fault' = "short" /\ UNCHANGED tmp
  /\ UNCHANGED <<json, export_seq, out>>

Rename ==
  /\ pc = "rename"
  /\ pc' = "event"
  /\ \/ out' = tmp /\ tmp' = NoFile /\ UNCHANGED fault
     \/ fault' = Noticed /\ UNCHANGED <<tmp, out>>
  /\ UNCHANGED <<json, export_seq>>

send_ubus_event ==
  /\ pc = "event"
  /\ pc' = "idle" /\ json' = NoFile
  /\ UNCHANGED <<export_seq, tmp, out, fault>>

write_file == OpenTmp \/ WriteTmp \/ Rename

\* Without memory for its context the daemon runs without telemetry.
telemetry_init ==
  /\ \/ pc' = "idle" /\ fault' = "none"
     \/ pc' = "off" /\ fault' = "loud"
  /\ json' = NoFile /\ export_seq' = 0
  /\ UNCHANGED <<tmp, out>>

\* The process ends or dies, between two of its steps.
telemetry_gone ==
  /\ pc' = "off" /\ json' = NoFile
  /\ UNCHANGED <<export_seq, tmp, out, fault>>

TelemetryInit ==
  /\ pc = "off" /\ json = NoFile /\ export_seq = 0
  /\ tmp = NoFile /\ out = NoFile /\ fault = "none"

-----------------------------------------------------------------------------
\* A snapshot of a later process, or a later one of the same.
Newer(s, t) ==
  \/ s.start > t.start
  \/ s.start = t.start /\ s.seq > t.seq

\* What a reader finds only ever changes at once from one whole snapshot to a
\* whole and newer one, whenever the process dies and whatever an earlier export
\* or life has left in the temporary file.  (A snapshot whose own writes fell
\* short on a full file system is renamed all the same.)
PublishesInOrder ==
  [][out' # out /\ fault' # "short" => out'.whole /\ Newer(out', out)]_telemetryVars

\* A published snapshot is right about every client and application it lists,
\* and its totals about all of them, also those it had no place for.
ReportAddsUp ==
  out.whole =>
    LET t == out.table
    IN  /\ out.report.total_bytes = Bytes(t, 1..Len(t))
        /\ \A c \in Classes :
             out.report.class_totals[c] = Cardinality({i \in 1..Len(t) : t[i].cls = c})
        /\ ListAddsUp(out.report.clients, t)

=============================================================================
