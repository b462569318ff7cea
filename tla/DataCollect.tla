---------------------------- MODULE DataCollect ----------------------------
(***************************************************************************)
(* data_collect.c: labelled flows appended to a CSV file through stdio.    *)
(*                                                                         *)
(* A row goes to the process's buffer; when the buffer is full, stdio      *)
(* writes what it holds, and the row being printed may then be cut in two: *)
(* its "head" is written and its "tail", with the newline, buffered.  The  *)
(* file is a sequence of lines: "header", "row", "broken" (more than one   *)
(* row's text), and as its last one perhaps an unfinished "half" (one      *)
(* row's head) or "spoiled" (more than that).                              *)
(* Operations only; Outputs gives them a daemon.                           *)
(***************************************************************************)
EXTENDS Naturals, Sequences, FiniteSets, SequencesExt

CONSTANTS
  MAX_ROWS,          \* DATA_COLLECT_MAX_ROWS (50000)
  FLUSH_EVERY,       \* rows between two flushes (100)
  MIN_PKTS_FOR_SAMPLE,
  Samples            \* what a flow may look like: [pkts, known, confident]

\* The limit is a multiple of the flush interval: 50000 of 100.
ASSUME CollectAssumption ==
  /\ FLUSH_EVERY \in Nat \ {0} /\ MAX_ROWS \in Nat
  /\ MAX_ROWS % FLUSH_EVERY = 0
  /\ Samples \subseteq [pkts: Nat, known: BOOLEAN, confident: BOOLEAN]

VARIABLES
  csv,               \* the file, as lines
  collector,         \* d->collector is not NULL
  buf,               \* the FILE's buffer, as pieces
  rows, active,      \* ctx->rows, ctx->active
  recorded           \* history: rows recorded, by any process

collectVars == <<csv, collector, buf, rows, active, recorded>>

-----------------------------------------------------------------------------
\* (Names <definition>_<what> are mutants.)

\* What an unfinished last line becomes with a piece appended to it.
Joined(line, piece) ==
  CASE piece = "head"                    -> "spoiled"
    [] piece = "tail" /\ line = "half"   -> "row"
    [] OTHER                             -> "broken"

\* The file with one more piece, or several.
Grown(file, piece) ==
  IF file # <<>> /\ Last(file) \in {"half", "spoiled"}
  THEN [file EXCEPT ![Len(file)] = Joined(Last(file), piece)]
  ELSE Append(file, IF piece = "head" THEN "half" ELSE piece)

Written(pieces) ==
  LET file[i \in 0..Len(pieces)] ==
        IF i = 0 THEN csv ELSE Grown(file[i - 1], pieces[i])
  IN  file[Len(pieces)]

\* fopen("a") fails, or the header is written and flushed if the file is empty.
data_collect_init_Always ==
  /\ collector' = TRUE /\ csv' = Append(csv, "header")
  /\ active' = collector' /\ buf' = <<>> /\ rows' = 0
  /\ UNCHANGED recorded

data_collect_init ==
  /\ \/ collector' = FALSE /\ UNCHANGED csv
     \/ collector' = TRUE /\ csv' = IF csv = <<>> THEN <<"header">> ELSE csv
  /\ active' = collector' /\ buf' = <<>> /\ rows' = 0
  /\ UNCHANGED recorded

\* Also when the collector has paused itself: the next record pauses it again.
data_collect_start ==
  /\ collector
  /\ active' = TRUE
  /\ UNCHANGED <<csv, collector, buf, rows, recorded>>

data_collect_stop_Keeps ==
  /\ collector
  /\ active' = FALSE
  /\ UNCHANGED <<csv, buf, collector, rows, recorded>>

data_collect_stop ==
  /\ collector
  /\ active' = FALSE
  /\ csv' = Written(buf) /\ buf' = <<>>
  /\ UNCHANGED <<collector, rows, recorded>>

\* fclose, where the daemon has a collector.
data_collect_destroy ==
  /\ csv' = Written(buf) /\ buf' = <<>>
  /\ collector' = FALSE /\ active' = FALSE
  /\ UNCHANGED <<rows, recorded>>

Pause ==
  /\ active /\ rows = MAX_ROWS
  /\ active' = FALSE
  /\ UNCHANGED <<csv, collector, buf, rows, recorded>>

\* "Sufficient packets and a confident classification": a class that is known
\* is recorded at any confidence.
Sufficient(s) == s.pkts >= MIN_PKTS_FOR_SAMPLE /\ (s.known \/ s.confident)

\* Where a row may end up: in the buffer, or written with what was there
\* before it, whole or up to its middle.
Printed ==
  { [out |-> <<>>, buf |-> Append(buf, "row")],
    [out |-> Append(buf, "row"), buf |-> <<>>],
    [out |-> Append(buf, "head"), buf |-> <<"tail">>] }

FlushIsDue_AtTheEnd(n) == n = MAX_ROWS

FlushIsDue(n) == n % FLUSH_EVERY = 0

Record(s) ==
  /\ active /\ rows < MAX_ROWS
  /\ Sufficient(s)
  /\ rows' = rows + 1 /\ recorded' = recorded + 1
  /\ \E p \in Printed :
       IF FlushIsDue(rows') THEN csv' = Written(p.out \o p.buf) /\ buf' = <<>>
                            ELSE csv' = Written(p.out) /\ buf' = p.buf
  /\ UNCHANGED <<collector, active>>

\* Of a flow that is not recorded nothing changes.
data_collect_record(s) == Pause \/ Record(s)

\* The process dies, perhaps in the middle of a row that has just been cut;
\* what was in the buffer is gone.
data_collect_lost ==
  /\ \/ UNCHANGED csv
     \/ active /\ rows < MAX_ROWS /\ csv' = Written(Append(buf, "head"))
  /\ collector' = FALSE /\ active' = FALSE /\ buf' = <<>>
  /\ UNCHANGED <<rows, recorded>>

CollectInit ==
  /\ csv = <<>> /\ collector = FALSE /\ buf = <<>>
  /\ rows = 0 /\ active = FALSE /\ recorded = 0

-----------------------------------------------------------------------------
Intact == {i \in 1..Len(csv) : csv[i] = "row"}

\* Whatever the number of processes that have appended to it, the file starts
\* with the header and has no second one.
HeaderFirstOnce ==
  \A i \in 1..Len(csv) : csv[i] = "header" <=> i = 1

\* A paused collector, by request or at its limit, has every row on disk: the
\* file may be copied off the device.
PausedIsDurable == collector /\ ~active => buf = <<>>

=============================================================================
