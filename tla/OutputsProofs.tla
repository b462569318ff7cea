--------------------------- MODULE OutputsProofs ---------------------------
(***************************************************************************)
(* What of Outputs holds for any number of lives: a pause leaves no row    *)
(* behind, for every row limit that is a multiple of the flush interval;   *)
(* the file has its header on top and nowhere else, and a crash costs at   *)
(* most a flush interval of rows; snapshots appear whole and in order, and *)
(* add up, for every flow table.                                           *)
(***************************************************************************)
EXTENDS Outputs, SummariesProofs, TLAPS

\* The pause at the limit does not flush.  It need not: rows are counted from
\* zero in each life, flushed at every multiple of FLUSH_EVERY, and MAX_ROWS is
\* one.
PauseInv ==
  /\ rows \in Nat
  /\ rows % FLUSH_EVERY = 0 => buf = <<>>
  /\ active => collector
  /\ PausedIsDurable

LEMMA PauseInit == OutputsInit => PauseInv
BY DEF OutputsInit, CollectInit, PauseInv, PausedIsDurable

LEMMA PauseUnchanged == ASSUME PauseInv, UNCHANGED collectVars PROVE PauseInv'
BY DEF PauseInv, PausedIsDurable, collectVars

LEMMA RecordKeepsPause ==
  ASSUME PauseInv, NEW s \in Samples, data_collect_record(s)
  PROVE  PauseInv'
<1> USE CollectAssumption DEF PauseInv, PausedIsDurable
<1>1. CASE Pause
  BY <1>1 DEF Pause
<1>2. CASE Record(s)
  <2>1. /\ rows' = rows + 1 /\ active' = active /\ collector' = collector /\ active
    BY <1>2 DEF Record
  <2>2. rows' % FLUSH_EVERY = 0 => buf' = <<>>
    BY <1>2 DEF Record, FlushIsDue
  <2> QED
    BY <2>1, <2>2
<1> QED
  BY <1>1, <1>2 DEF data_collect_record

LEMMA PauseStep == PauseInv /\ [OutputsNext]_outputsVars => PauseInv'
<1> SUFFICES ASSUME PauseInv, [OutputsNext]_outputsVars PROVE PauseInv'
  OBVIOUS
<1> USE DEF PauseInv, PausedIsDurable
<1>1. CASE Start
  BY <1>1 DEF Start, data_collect_init
<1>2. CASE Collect
  <2>1. CASE \E s \in Samples : data_collect_record(s)
    BY <2>1, RecordKeepsPause
  <2>2. CASE data_collect_start
    BY <2>2 DEF data_collect_start
  <2>3. CASE data_collect_stop
    BY <2>3 DEF data_collect_stop
  <2> QED
    BY <1>2, <2>1, <2>2, <2>3 DEF Collect
<1>3. CASE Export
  BY <1>3, PauseUnchanged DEF Export
<1>4. CASE Stop
  BY <1>4 DEF Stop, data_collect_destroy
<1>5. CASE Crash
  BY <1>5 DEF Crash, data_collect_lost
<1>6. CASE UNCHANGED outputsVars
  BY <1>6, PauseUnchanged DEF outputsVars
<1> QED
  BY <1>1, <1>2, <1>3, <1>4, <1>5, <1>6 DEF OutputsNext

\* After capture_stop, and after the collector has paused itself at its limit
\* (data_collect_record), every row it took is in the file, for every such limit
\* and whatever came before: other pauses, stops, crashes and respawns.
THEOREM PauseLeavesNothing == OutputsSpec => []PausedIsDurable
<1>1. PauseInv => PausedIsDurable
  BY DEF PauseInv
<1> QED
  BY PauseInit, PauseStep, <1>1, PTL DEF OutputsSpec

-----------------------------------------------------------------------------
(* What the file is made of.                                               *)

Lines == {"header", "row", "broken", "half", "spoiled"}

\* The files with one header, at their top; and those whose last line lacks its
\* newline.
Files == {f \in Seq(Lines) : \A i \in 1..Len(f) : f[i] = "header" <=> i = 1}

Unfinished(f) == f # <<>> /\ f[Len(f)] \in {"half", "spoiled"}

\* What the buffer may hold: whole rows, behind the tail of a row whose head is
\* at the end of the file.
NextPiece(p) == IF p = <<>> THEN "row" ELSE p[1]

Buffered(f, p) ==
  /\ p \in Seq({"row", "tail"})
  /\ \A i \in 1..Len(p) : p[i] = "tail" => i = 1
  /\ NextPiece(p) = "tail" => Unfinished(f)
  /\ p # <<>> => f # <<>>

RowsOf(f) == {i \in 1..Len(f) : f[i] = "row"}

\* The rows readers will find in f once the piece that comes next is there: the
\* whole ones, less the one that is glued to an unfinished line.  A head is
\* finished by its own tail, and nothing else finishes a line.
Due(f, next) ==
  Cardinality(RowsOf(f))
    - IF Unfinished(f) /\ ~(f[Len(f)] = "half" /\ next = "tail") THEN 1 ELSE 0

LEMMA RowsAreFinite ==
  ASSUME NEW f \in Seq(Lines)
  PROVE  IsFiniteSet(RowsOf(f)) /\ Cardinality(RowsOf(f)) \in Nat
<1>1. Len(f) \in Nat /\ RowsOf(f) \subseteq 1..Len(f)
  BY DEF RowsOf
<1>2. IsFiniteSet(1..Len(f))
  BY <1>1, FS_Interval
<1> QED
  BY <1>1, <1>2, FS_Subset, FS_CardinalityType

LEMMA DueType ==
  ASSUME NEW f \in Seq(Lines), NEW next
  PROVE  /\ Due(f, next) \in Int
         /\ Due(f, next) <= Cardinality(RowsOf(f))
         /\ Due(f, "row") >= Due(f, next) - 1
         /\ Due(f, "head") = Due(f, "row")
         /\ ~Unfinished(f) => Due(f, next) = Due(f, "row")
<1>1. Cardinality(RowsOf(f)) \in Nat
  BY RowsAreFinite
<1> QED
  BY <1>1 DEF Due

\* A line that is not finished grows; otherwise a line is added.
LEMMA GrownIs ==
  ASSUME NEW f \in Seq(Lines), NEW piece \in {"row", "tail", "head"},
         piece = "tail" => Unfinished(f)
  PROVE  LET g == Grown(f, piece)
             n == IF Unfinished(f) THEN Len(f) ELSE Len(f) + 1
         IN  /\ g \in Seq(Lines) /\ Len(g) = n /\ n \in Nat \ {0}
             /\ \A i \in 1..n - 1 : g[i] = f[i]
             /\ g[n] = CASE piece = "head" -> IF Unfinished(f) THEN "spoiled" ELSE "half"
                         [] piece = "tail" -> IF f[Len(f)] = "half" THEN "row" ELSE "broken"
                         [] piece = "row"  -> IF Unfinished(f) THEN "broken" ELSE "row"
<1>1. CASE Unfinished(f)
  <2>1. Len(f) \in Nat \ {0} /\ f[Len(f)] \in {"half", "spoiled"}
    BY <1>1 DEF Unfinished
  <2>2. Grown(f, piece) = [f EXCEPT ![Len(f)] = Joined(f[Len(f)], piece)]
    BY <1>1 DEF Grown, Unfinished, Last
  <2>3. Joined(f[Len(f)], piece) =
          CASE piece = "head" -> "spoiled"
            [] piece = "tail" -> IF f[Len(f)] = "half" THEN "row" ELSE "broken"
            [] piece = "row"  -> "broken"
    BY <2>1 DEF Joined
  <2>4. Joined(f[Len(f)], piece) \in Lines
    BY <2>3 DEF Lines
  <2> QED
    BY <1>1, <2>1, <2>2, <2>3, <2>4
<1>2. CASE ~Unfinished(f)
  <2>1. Grown(f, piece) = Append(f, IF piece = "head" THEN "half" ELSE piece)
    BY <1>2 DEF Grown, Unfinished, Last
  <2>2. piece \in {"head", "row"}
    BY <1>2
  <2>3. (IF piece = "head" THEN "half" ELSE piece) \in Lines
    BY <2>2 DEF Lines
  <2> QED
    BY <1>2, <2>1, <2>2, <2>3
<1> QED
  BY <1>1, <1>2

LEMMA GrownIsFile ==
  ASSUME NEW f \in Files, f # <<>>, NEW piece \in {"row", "tail", "head"},
         piece = "tail" => Unfinished(f)
  PROVE  /\ Grown(f, piece) \in Files /\ Grown(f, piece) # <<>>
         /\ Unfinished(Grown(f, piece)) <=> piece = "head"
<1> DEFINE g == Grown(f, piece)
           n == IF Unfinished(f) THEN Len(f) ELSE Len(f) + 1
<1>1. /\ f \in Seq(Lines) /\ Len(f) \in Nat \ {0}
      /\ \A i \in 1..Len(f) : f[i] = "header" <=> i = 1
  BY DEF Files
<1>2. /\ g \in Seq(Lines) /\ Len(g) = n /\ n \in Nat \ {0}
      /\ \A i \in 1..n - 1 : g[i] = f[i]
      /\ g[n] # "header"
      /\ g[n] \in {"half", "spoiled"} <=> piece = "head"
  BY <1>1, GrownIs
<1>3. n > 1 /\ n - 1 <= Len(f)
  <2>1. Len(f) \in Nat /\ Len(f) >= 1 /\ (f[1] = "header" \/ Len(f) = 0)
    BY <1>1
  <2>2. Unfinished(f) => Len(f) > 1
    BY <2>1 DEF Unfinished
  <2> QED
    BY <2>1, <2>2
<1>4. \A i \in 1..n : g[i] = "header" <=> i = 1
  <2> HIDE DEF n, g
  <2> QED
    BY <1>1, <1>2, <1>3
<1>5. g # <<>>
  BY <1>2
<1>6. g \in Files
  <2> HIDE DEF n, g
  <2> QED
    BY <1>2, <1>4 DEF Files
<1>7. Unfinished(g) <=> piece = "head"
  <2> HIDE DEF n, g
  <2> QED
    BY <1>2, <1>5 DEF Unfinished
<1> QED
  BY <1>5, <1>6, <1>7

\* The rows of a file and of one that grew from it.
LEMMA RowsGrow ==
  ASSUME NEW f \in Seq(Lines), NEW g \in Seq(Lines), NEW n \in Nat \ {0}, Len(g) = n,
         \/ n = Len(f) + 1
         \/ n = Len(f) /\ f[n] # "row",
         \A i \in 1..n - 1 : g[i] = f[i]
  PROVE  Cardinality(RowsOf(g)) = Cardinality(RowsOf(f)) + IF g[n] = "row" THEN 1 ELSE 0
<1>1. n \notin RowsOf(f) /\ RowsOf(f) \subseteq 1..n - 1
  BY DEF RowsOf
<1>2. RowsOf(g) = IF g[n] = "row" THEN RowsOf(f) \cup {n} ELSE RowsOf(f)
  BY <1>1 DEF RowsOf
<1>3. Cardinality(RowsOf(f) \cup {n}) = Cardinality(RowsOf(f)) + 1
  BY <1>1, RowsAreFinite, FS_AddElement
<1>4. Cardinality(RowsOf(f)) \in Nat
  BY RowsAreFinite
<1> QED
  BY <1>2, <1>3, <1>4

\* A row is due once its last piece is written; its head alone costs nothing
\* as long as its tail comes next.
LEMMA GrownIsDue ==
  ASSUME NEW f \in Seq(Lines), NEW piece \in {"row", "tail", "head"},
         piece = "tail" => Unfinished(f),
         NEW next, piece = "head" => next = "tail"
  PROVE  Due(Grown(f, piece), next) >= Due(f, piece) + IF piece = "head" THEN 0 ELSE 1
<1> DEFINE g == Grown(f, piece)
           n == IF Unfinished(f) THEN Len(f) ELSE Len(f) + 1
           old == Cardinality(RowsOf(f))
           new == Cardinality(RowsOf(g))
<1>1. /\ g \in Seq(Lines) /\ Len(g) = n /\ n \in Nat \ {0}
      /\ \A i \in 1..n - 1 : g[i] = f[i]
      /\ g[n] = CASE piece = "head" -> IF Unfinished(f) THEN "spoiled" ELSE "half"
                  [] piece = "tail" -> IF f[Len(f)] = "half" THEN "row" ELSE "broken"
                  [] piece = "row"  -> IF Unfinished(f) THEN "broken" ELSE "row"
  BY GrownIs
<1>2. n = Len(f) + 1 \/ (n = Len(f) /\ f[n] # "row")
  BY DEF Unfinished
<1>3. new = old + IF g[n] = "row" THEN 1 ELSE 0
  <2> HIDE DEF g, n
  <2> QED
    BY <1>1, <1>2, RowsGrow
<1>4. old \in Nat /\ new \in Nat
  BY <1>1, RowsAreFinite
<1>5. Unfinished(f) => f[Len(f)] \in {"half", "spoiled"}
  BY DEF Unfinished
<1>6. Unfinished(g) <=> g[n] \in {"half", "spoiled"}
  <2>1. g # <<>>
    BY <1>1
  <2> HIDE DEF g, n
  <2> QED
    BY <1>1, <2>1 DEF Unfinished
<1>7. Due(g, next) = new - IF g[n] = "spoiled" \/ (g[n] = "half" /\ next # "tail") THEN 1 ELSE 0
  <2> HIDE DEF g, n
  <2> QED
    BY <1>1, <1>6 DEF Due
<1>8. Due(f, piece) = old - IF Unfinished(f) /\ (f[Len(f)] = "half" => piece # "tail") THEN 1 ELSE 0
  BY DEF Due
<1>9. \/ piece = "head" /\ g[n] = IF Unfinished(f) THEN "spoiled" ELSE "half"
      \/ piece = "tail" /\ Unfinished(f) /\ g[n] = IF f[Len(f)] = "half" THEN "row" ELSE "broken"
      \/ piece = "row" /\ g[n] = IF Unfinished(f) THEN "broken" ELSE "row"
  <2> HIDE DEF g, n
  <2> QED
    BY <1>1
<1> HIDE DEF g, n, old, new
<1>10. Due(g, next) >= Due(f, piece) + IF piece = "head" THEN 0 ELSE 1
  BY <1>3, <1>4, <1>5, <1>7, <1>8, <1>9
<1> QED
  BY <1>10 DEF g

-----------------------------------------------------------------------------
(* What is written.                                                        *)

Pieces == {"row", "tail", "head"}
AnyLine == Lines \cup {"tail"}
Texts  == Seq(AnyLine)

\* The pieces p are written one after the other: file[i] has the first i.
Writes(file, p) ==
  /\ file \in [0..Len(p) -> Texts]
  /\ file[0] = csv
  /\ \A i \in 1..Len(p) : file[i] = Grown(file[i - 1], p[i])

LEMMA GrownType == ASSUME NEW f \in Texts, NEW piece \in Pieces PROVE Grown(f, piece) \in Texts
<1>1. CASE f # <<>> /\ Last(f) \in {"half", "spoiled"}
  <2>1. Grown(f, piece) = [f EXCEPT ![Len(f)] = Joined(Last(f), piece)]
    BY <1>1 DEF Grown
  <2> DEFINE v == Joined(Last(f), piece)
  <2>2. v \in AnyLine
    BY DEF Joined, AnyLine, Lines, Pieces
  <2> HIDE DEF v
  <2>3. Len(f) \in Nat \ {0}
    BY <1>1 DEF Texts
  <2>4. [f EXCEPT ![Len(f)] = v] \in Seq(AnyLine)
    BY <2>2, <2>3 DEF Texts
  <2> QED
    BY <2>1, <2>4 DEF Texts, v
<1>2. CASE ~(f # <<>> /\ Last(f) \in {"half", "spoiled"})
  <2>1. Grown(f, piece) = Append(f, IF piece = "head" THEN "half" ELSE piece)
    BY <1>2 DEF Grown
  <2>2. (IF piece = "head" THEN "half" ELSE piece) \in AnyLine
    BY DEF AnyLine, Lines, Pieces
  <2> QED
    BY <2>1, <2>2 DEF Texts
<1> QED
  BY <1>1, <1>2

LEMMA WrittenIs ==
  ASSUME NEW p \in Seq(Pieces), csv \in Texts
  PROVE  \E file : Writes(file, p) /\ Written(p) = file[Len(p)]
<1> DEFINE n == Len(p)
           step == [i \in 1..n |-> [x \in Texts |-> Grown(x, p[i])]]
           Is(g) == g = [i \in 0..n |-> IF i = 0 THEN csv ELSE Grown(g[i - 1], p[i])]
           file == CHOOSE g : Is(g)
<1>1. n \in Nat /\ \A i \in 1..n : p[i] \in Pieces
  OBVIOUS
<1>2. step \in [1..n -> [Texts -> Texts]]
  <2> HIDE DEF n
  <2> QED
    BY <1>1, GrownType
<1>3. PICK f : Runs(f, n, Texts, csv, step)
  <2> HIDE DEF n, step
  <2> QED
    BY <1>1, <1>2, RunExists
<1>4. f \in [0..n -> Texts] /\ f[0] = csv
  BY <1>3 DEF Runs
<1>5. ASSUME NEW i \in 1..n PROVE f[i] = Grown(f[i - 1], p[i])
  <2> HIDE DEF n
  <2>1. f[i - 1] \in Texts /\ f[i] = step[i][f[i - 1]]
    BY <1>1, <1>3, <1>4 DEF Runs
  <2> QED
    BY <2>1
<1>6. Is(f)
  <2> HIDE DEF n
  <2>1. f = [i \in 0..n |-> f[i]]
    BY <1>4
  <2>2. ASSUME NEW i \in 0..n PROVE f[i] = IF i = 0 THEN csv ELSE Grown(f[i - 1], p[i])
    BY <1>1, <1>4, <1>5
  <2> QED
    BY <2>1, <2>2
<1>7. Is(file)
  <2> HIDE DEF Is
  <2> QED
    BY <1>6
<1>8. Written(p) = file[n]
  BY DEF Written
<1>9. Writes(file, p)
  <2> HIDE DEF file
  <2>1. file[0] = csv
    <3> HIDE DEF n
    <3> QED
      BY <1>1, <1>7
  <2>2. ASSUME NEW i \in 1..n PROVE file[i] = Grown(file[i - 1], p[i])
    <3> HIDE DEF n
    <3> QED
      BY <1>1, <1>7
  <2> DEFINE T == {i \in 0..n : file[i] \in Texts}
  <2>3. 0 \in T
    BY <1>1, <2>1
  <2>4. \A i \in 1..n : i - 1 \in T => i \in T
    BY <1>1, <2>2, GrownType
  <2>5. 0..n \subseteq T
    <3> HIDE DEF T, n
    <3> QED
      BY <1>1, <2>3, <2>4, UpTo
  <2>6. file \in [0..n -> Texts]
    <3> HIDE DEF n
    <3> QED
      BY <1>7, <2>5
  <2> QED
    BY <2>1, <2>2, <2>6 DEF Writes
<1> QED
  BY <1>8, <1>9

\* One more piece.
LEMMA WrittenAppend ==
  ASSUME NEW p \in Seq(Pieces), NEW x \in Pieces, csv \in Texts
  PROVE  Written(Append(p, x)) = Grown(Written(p), x)
<1> DEFINE q == Append(p, x)
           n == Len(p)
<1>1. n \in Nat /\ q \in Seq(Pieces) /\ Len(q) = n + 1 /\ q[n + 1] = x /\ \A i \in 1..n : q[i] = p[i]
  OBVIOUS
<1> HIDE DEF q
<1>2. PICK f : Writes(f, p) /\ Written(p) = f[n]
  BY WrittenIs
<1>3. PICK g : Writes(g, q) /\ Written(q) = g[n + 1]
  BY <1>1, WrittenIs
<1> DEFINE T == {i \in 0..n : g[i] = f[i]}
<1> HIDE DEF n
<1>4. /\ f[0] = csv /\ \A i \in 1..n : f[i] = Grown(f[i - 1], p[i])
      /\ g[0] = csv /\ \A i \in 1..n + 1 : g[i] = Grown(g[i - 1], q[i])
  BY <1>1, <1>2, <1>3 DEF Writes, n
<1>5. 0 \in T
  BY <1>1, <1>4
<1>6. \A i \in 1..n : i - 1 \in T => i \in T
  BY <1>1, <1>4
<1>7. n \in T
  <2>1. n \in 0..n
    BY <1>1
  <2> HIDE DEF T
  <2> QED
    BY <1>1, <1>5, <1>6, <2>1, UpTo
<1>8. g[n + 1] = Grown(g[n], x)
  BY <1>1, <1>4
<1> QED
  BY <1>2, <1>3, <1>7, <1>8 DEF q

LEMMA FilesAreTexts == ASSUME NEW f \in Files PROVE f \in Seq(Lines) /\ f \in Texts
BY DEF Files, Texts, AnyLine

LEMMA WrittenNothing == ASSUME csv \in Texts PROVE Written(<<>>) = csv
<1>1. <<>> \in Seq(Pieces) /\ Len(<<>>) = 0
  OBVIOUS
<1>2. PICK file : Writes(file, <<>>) /\ Written(<<>>) = file[Len(<<>>)]
  BY <1>1, WrittenIs
<1> QED
  BY <1>1, <1>2 DEF Writes

\* The buffer, written: every row it holds counts, and the last is finished.
LEMMA BufferWritten ==
  ASSUME csv \in Files, NEW p, Buffered(csv, p)
  PROVE  LET f == Written(p)
         IN  /\ f \in Files /\ (f = <<>> <=> csv = <<>>)
             /\ p # <<>> => ~Unfinished(f)
             /\ Due(f, "row") >= Due(csv, NextPiece(p)) + Len(p)
<1> DEFINE n == Len(p)
           first == Due(csv, NextPiece(p))
           Good(f, i) == f \in Files /\ f # <<>> /\ ~Unfinished(f) /\ Due(f, "row") >= first + i
<1>1. /\ p \in Seq(Pieces) /\ n \in Nat /\ \A i \in 1..n : p[i] \in {"row", "tail"}
      /\ \A i \in 1..n : p[i] = "tail" => i = 1
      /\ p # <<>> <=> n > 0
  BY DEF Buffered, Pieces
<1>2. csv \in Texts /\ first \in Int
  BY FilesAreTexts, DueType
<1>3. PICK file : Writes(file, p) /\ Written(p) = file[n]
  BY <1>1, <1>2, WrittenIs
<1>4. /\ file[0] = csv
      /\ \A i \in 1..n : file[i] = Grown(file[i - 1], p[i])
  BY <1>3 DEF Writes
<1>5. CASE n = 0
  <2>1. p = <<>> /\ NextPiece(p) = "row" /\ Written(p) = csv
    BY <1>1, <1>3, <1>4, <1>5 DEF NextPiece
  <2> QED
    BY <1>2, <1>5, <2>1
<1>6. CASE n > 0
  <2> DEFINE T == {i \in 0..n : i > 0 => Good(file[i], i)}
  <2>1. 0 \in T
    BY <1>1
  <2>2. ASSUME NEW i \in 1..n, i - 1 \in T PROVE i \in T
    <3> DEFINE f == file[i - 1]
    <3>1. /\ f \in Files /\ f # <<>> /\ p[i] \in {"row", "tail"}
          /\ p[i] = "tail" => Unfinished(f)
          /\ Due(f, p[i]) >= first + i - 1
      <4>1. CASE i = 1
        <5>1. f = csv /\ p # <<>>
          BY <1>1, <1>4, <4>1
        <5>2. p[i] = NextPiece(p)
          BY <4>1, <5>1 DEF NextPiece
        <5> QED
          BY <1>1, <1>2, <4>1, <5>1, <5>2 DEF Buffered
      <4>2. CASE i > 1
        <5>1. Good(f, i - 1)
          BY <2>2, <4>2
        <5>2. p[i] = "row"
          BY <1>1, <4>2
        <5> QED
          BY <5>1, <5>2
      <4> QED
        BY <4>1, <4>2
    <3>2. file[i] = Grown(f, p[i])
      BY <1>4
    <3>3. f \in Seq(Lines)
      BY <3>1, FilesAreTexts
    <3> HIDE DEF f
    <3>4. /\ Grown(f, p[i]) \in Files /\ Grown(f, p[i]) # <<>>
          /\ ~Unfinished(Grown(f, p[i]))
      BY <3>1, GrownIsFile
    <3>5. Due(Grown(f, p[i]), "row") >= Due(f, p[i]) + 1
      BY <3>1, <3>3, GrownIsDue
    <3>6. Due(f, p[i]) \in Int /\ Due(Grown(f, p[i]), "row") \in Int
      BY <3>3, <3>4, FilesAreTexts, DueType
    <3>7. Due(Grown(f, p[i]), "row") >= first + i
      <4> HIDE DEF first
      <4> QED
        BY <1>2, <3>1, <3>5, <3>6
    <3> QED
      BY <3>2, <3>4, <3>7
  <2>3. n \in T
    <3>1. n \in 0..n
      BY <1>1
    <3> HIDE DEF T, n
    <3> QED
      BY <1>1, <2>1, <2>2, <3>1, UpTo
  <2>4. Good(Written(p), n)
    BY <1>3, <1>6, <2>3
  <2>5. csv # <<>>
    BY <1>1, <1>6 DEF Buffered
  <2> QED
    BY <2>4, <2>5
<1> QED
  BY <1>1, <1>5, <1>6

-----------------------------------------------------------------------------
(* What a crash costs.                                                     *)

FileInv ==
  /\ csv \in Files /\ Buffered(csv, buf)
  /\ collector => csv # <<>>
  /\ ~collector => buf = <<>>
  /\ active => collector
  /\ collector => running

\* Every row recorded is in the file, in the buffer, or was lost in one of the
\* crashes; the buffer has no more rows than were recorded since the last flush.
LossInv ==
  /\ FileInv
  /\ {rows, recorded, crashes} \subseteq Nat
  /\ Len(buf) <= rows % FLUSH_EVERY
  /\ recorded <= Due(csv, NextPiece(buf)) + crashes * FLUSH_EVERY + Len(buf)

\* Between two multiples of F, r % F counts.
LEMMA Division ==
  ASSUME NEW r \in Nat, NEW F \in Nat \ {0}
  PROVE  r = (F * (r \div F)) + (r % F) /\ r \div F \in Int /\ r % F \in 0..F - 1
OBVIOUS

LEMMA RemainderCounts ==
  ASSUME NEW r \in Nat, NEW F \in Nat \ {0}, (r + 1) % F # 0
  PROVE  (r + 1) % F = (r % F) + 1
<1> DEFINE q == r \div F
           k == r % F
           q2 == (r + 1) \div F
           k2 == (r + 1) % F
           d == q2 - q
<1>1. r = (F * q) + k /\ q \in Int /\ k \in 0..F - 1
  BY Division
<1>2. r + 1 = (F * q2) + k2 /\ q2 \in Int /\ k2 \in 0..F - 1
  BY Division
<1>3. k2 # 0
  OBVIOUS
<1> HIDE DEF q, k, q2, k2
<1>4. d \in Int /\ F * d = k + 1 - k2
  <2> DEFINE x == F * q
             y == F * q2
  <2>1. F * d = y - x /\ x \in Int /\ y \in Int
    BY <1>1, <1>2
  <2>2. r = x + k /\ r + 1 = y + k2
    BY <1>1, <1>2
  <2> HIDE DEF x, y
  <2>3. y - x = k + 1 - k2
    BY <1>1, <1>2, <2>1, <2>2
  <2> QED
    BY <1>1, <1>2, <2>1, <2>3
<1>5. F * d < F /\ F * d > -F
  BY <1>1, <1>2, <1>3, <1>4
<1> HIDE DEF d
<1>6. d = 0
  <2>1. (d >= 1 => F * d >= F) /\ (d <= -1 => F * d <= -F)
    BY <1>4
  <2> QED
    BY <1>4, <1>5, <2>1
<1>7. F * d = 0
  BY <1>6
<1>8. k2 = k + 1
  BY <1>1, <1>2, <1>4, <1>7
<1> QED
  BY <1>8 DEF k, k2

\* Where a row is printed to: the buffer, the file behind the buffer, or both;
\* and flushed.
LEMMA PrintedIs ==
  ASSUME FileInv, csv # <<>>,
         NEW out1, NEW buf1, [out |-> out1, buf |-> buf1] \in Printed
  PROVE  /\ Written(out1) \in Files /\ Buffered(Written(out1), buf1)
         /\ Written(out1) # <<>>
         /\ Due(Written(out1), NextPiece(buf1)) + Len(buf1)
              >= Due(csv, NextPiece(buf)) + Len(buf) + 1
         /\ Len(buf1) <= Len(buf) + 1
         /\ Written(out1 \o buf1) \in Files /\ Written(out1 \o buf1) # <<>>
         /\ Due(Written(out1 \o buf1), "row") >= Due(csv, NextPiece(buf)) + Len(buf) + 1
<1> DEFINE w == Written(buf)
           first == Due(csv, NextPiece(buf))
           n == Len(buf)
<1>1. csv \in Files /\ csv \in Texts /\ Buffered(csv, buf) /\ first \in Int
  BY FilesAreTexts, DueType DEF FileInv
<1>2. buf \in Seq(Pieces) /\ buf \in Seq({"row", "tail"}) /\ n \in Nat
  BY <1>1 DEF Buffered, Pieces
<1>3. /\ w \in Files /\ w # <<>> /\ w \in Seq(Lines) /\ w \in Texts
      /\ Due(w, "row") >= first + n
      /\ Due(w, "row") \in Int
  <2> HIDE DEF w
  <2>1. w \in Files /\ w # <<>> /\ Due(w, "row") >= first + n
    BY <1>1, BufferWritten DEF w
  <2> QED
    BY <2>1, FilesAreTexts, DueType
<1>4. \A x \in {"row", "head"} : Written(Append(buf, x)) = Grown(w, x)
  BY <1>1, <1>2, WrittenAppend DEF Pieces
<1> HIDE DEF w, n, first
<1> DEFINE row == Grown(w, "row")
           head == Grown(w, "head")
           both == Grown(head, "tail")
<1>5. /\ row \in Files /\ row # <<>> /\ ~Unfinished(row)
      /\ Due(row, "row") \in Int /\ Due(row, "row") >= first + n + 1
  <2>1. row \in Files /\ row # <<>> /\ ~Unfinished(row)
    BY <1>3, GrownIsFile
  <2>2. Due(row, "row") >= Due(w, "row") + 1
    BY <1>3, GrownIsDue
  <2>3. Due(row, "row") \in Int
    BY <2>1, FilesAreTexts, DueType
  <2> HIDE DEF row
  <2> QED
    BY <1>1, <1>2, <1>3, <2>1, <2>2, <2>3 DEF n
<1>6. /\ head \in Files /\ head # <<>> /\ Unfinished(head)
      /\ Due(head, "tail") \in Int /\ Due(head, "tail") >= first + n
  <2>1. head \in Files /\ head # <<>> /\ Unfinished(head)
    BY <1>3, GrownIsFile
  <2>2. Due(head, "tail") >= Due(w, "head") + 0 /\ Due(w, "head") = Due(w, "row")
    BY <1>3, GrownIsDue, DueType
  <2>3. Due(head, "tail") \in Int
    BY <2>1, FilesAreTexts, DueType
  <2> HIDE DEF head
  <2> QED
    BY <1>1, <1>2, <1>3, <2>1, <2>2, <2>3 DEF n
<1>7. /\ both \in Files /\ both # <<>>
      /\ Due(both, "row") >= first + n + 1
  <2>1. both \in Files /\ both # <<>>
    BY <1>6, GrownIsFile
  <2>2. Due(both, "row") >= Due(head, "tail") + 1
    BY <1>6, FilesAreTexts, GrownIsDue
  <2>3. Due(both, "row") \in Int
    BY <2>1, FilesAreTexts, DueType
  <2> HIDE DEF both, head
  <2> QED
    BY <1>1, <1>2, <1>6, <2>1, <2>2, <2>3 DEF n
<1> HIDE DEF row, head, both
<1>8. CASE out1 = <<>> /\ buf1 = Append(buf, "row")
  <2>1. /\ buf1 \in Seq({"row", "tail"}) /\ buf1 # <<>> /\ Len(buf1) = n + 1
        /\ buf1[n + 1] = "row" /\ \A i \in 1..n : buf1[i] = buf[i]
        /\ out1 \o buf1 = Append(buf, "row")
    BY <1>2, <1>8 DEF n
  <2>2. NextPiece(buf1) = NextPiece(buf)
    <3>1. CASE buf = <<>>
      BY <2>1, <3>1 DEF NextPiece, n
    <3>2. CASE buf # <<>>
      <4>1. n \in Nat \ {0}
        BY <1>2, <3>2 DEF n
      <4> QED
        BY <2>1, <3>2, <4>1 DEF NextPiece
    <3> QED
      BY <3>1, <3>2
  <2>3. Buffered(csv, buf1)
    <3>1. \A i \in 1..n + 1 : buf1[i] = "tail" => i = 1
      BY <1>1, <1>2, <2>1 DEF Buffered, n
    <3> QED
      BY <1>1, <2>1, <2>2, <3>1 DEF Buffered
  <2>4. Written(out1) = csv
    BY <1>1, <1>8, WrittenNothing
  <2>5. Written(out1 \o buf1) = row
    BY <1>4, <2>1 DEF row
  <2> QED
    BY <1>1, <1>2, <1>5, <2>1, <2>2, <2>3, <2>4, <2>5 DEF n, first
<1>9. CASE out1 = Append(buf, "row") /\ buf1 = <<>>
  <2>1. Written(out1) = row /\ out1 \o buf1 = out1 /\ Len(buf1) = 0
    BY <1>2, <1>4, <1>9 DEF row
  <2>2. Buffered(row, buf1) /\ NextPiece(buf1) = "row"
    BY <1>9 DEF Buffered, NextPiece
  <2> QED
    BY <1>1, <1>2, <1>5, <2>1, <2>2 DEF n, first
<1>10. CASE out1 = Append(buf, "head") /\ buf1 = <<"tail">>
  <2>1. /\ Written(out1) = head /\ out1 \o buf1 = Append(out1, "tail") /\ Len(buf1) = 1
        /\ out1 \in Seq(Pieces)
    BY <1>2, <1>4, <1>10 DEF head, Pieces
  <2>2. Buffered(head, buf1) /\ NextPiece(buf1) = "tail"
    BY <1>6, <1>10 DEF Buffered, NextPiece
  <2>3. Written(out1 \o buf1) = both
    BY <1>1, <2>1, WrittenAppend DEF both, Pieces
  <2> QED
    BY <1>1, <1>2, <1>6, <1>7, <2>1, <2>2, <2>3 DEF n, first
<1> QED
  BY <1>8, <1>9, <1>10 DEF Printed

LEMMA EmptyIsBuffered == ASSUME NEW f PROVE Buffered(f, <<>>) /\ NextPiece(<<>>) = "row"
BY DEF Buffered, NextPiece

LEMMA CrashTerm ==
  ASSUME NEW c \in Nat
  PROVE  c * FLUSH_EVERY \in Nat /\ (c + 1) * FLUSH_EVERY = c * FLUSH_EVERY + FLUSH_EVERY
BY CollectAssumption

LEMMA RemainderType ==
  ASSUME NEW r \in Nat
  PROVE  r % FLUSH_EVERY \in Nat /\ r % FLUSH_EVERY < FLUSH_EVERY /\ 0 % FLUSH_EVERY = 0
<1>1. FLUSH_EVERY \in Nat \ {0}
  BY CollectAssumption
<1> QED
  BY <1>1

LEMMA LossInit == OutputsInit => LossInv
<1> SUFFICES ASSUME OutputsInit PROVE LossInv
  OBVIOUS
<1>1. /\ csv = <<>> /\ buf = <<>> /\ ~collector /\ ~active
      /\ rows = 0 /\ recorded = 0 /\ crashes = 0
  BY DEF OutputsInit, CollectInit
<1>2. csv \in Files /\ csv \in Seq(Lines)
  BY <1>1 DEF Files
<1>3. Due(csv, "row") = Cardinality(RowsOf(csv)) /\ Cardinality(RowsOf(csv)) \in Nat
  <2>1. ~Unfinished(csv)
    BY <1>1 DEF Unfinished
  <2> QED
    BY <1>2, <2>1, RowsAreFinite DEF Due
<1>4. Buffered(csv, buf) /\ NextPiece(buf) = "row" /\ Len(buf) = 0
  BY <1>1, EmptyIsBuffered
<1>5. rows % FLUSH_EVERY \in Nat /\ crashes * FLUSH_EVERY = 0
  BY <1>1, CollectAssumption
<1> QED
  BY <1>1, <1>2, <1>3, <1>4, <1>5 DEF LossInv, FileInv

\* Nothing due is lost by writing the buffer out.
LEMMA LossAfterWriting ==
  ASSUME LossInv, csv' = Written(buf), buf' = <<>>, UNCHANGED <<recorded, crashes>>,
         rows' \in Nat, active' => collector', collector' => collector /\ running'
  PROVE  LossInv'
<1>1. /\ csv' \in Files /\ (csv' = <<>> <=> csv = <<>>)
      /\ Due(csv', "row") >= Due(csv, NextPiece(buf)) + Len(buf)
  BY BufferWritten DEF LossInv, FileInv
<1>2. /\ Due(csv, NextPiece(buf)) \in Int /\ Due(csv', "row") \in Int
      /\ Len(buf) \in Nat /\ recorded \in Nat /\ crashes * FLUSH_EVERY \in Nat
      /\ recorded <= Due(csv, NextPiece(buf)) + crashes * FLUSH_EVERY + Len(buf)
  <2>1. csv \in Seq(Lines) /\ csv' \in Seq(Lines)
    BY <1>1, FilesAreTexts DEF LossInv, FileInv
  <2>2. crashes \in Nat /\ recorded \in Nat /\ Len(buf) \in Nat
    BY DEF LossInv, FileInv, Buffered
  <2>3. crashes * FLUSH_EVERY \in Nat
    BY <2>2, CrashTerm
  <2>4. recorded <= Due(csv, NextPiece(buf)) + crashes * FLUSH_EVERY + Len(buf)
    BY DEF LossInv
  <2> QED
    BY <2>1, <2>2, <2>3, <2>4, DueType
<1>3. recorded' <= Due(csv', "row") + crashes' * FLUSH_EVERY
  BY <1>1, <1>2
<1>4. Buffered(csv', buf') /\ NextPiece(buf') = "row" /\ Len(buf') = 0
  BY EmptyIsBuffered
<1>5. rows' % FLUSH_EVERY \in Nat
  BY RemainderType
<1>6. FileInv'
  BY <1>1, <1>4 DEF LossInv, FileInv, Buffered
<1> QED
  BY <1>1, <1>2, <1>3, <1>4, <1>5, <1>6 DEF LossInv

LEMMA LossFacts ==
  ASSUME LossInv
  PROVE  /\ csv \in Files /\ csv \in Seq(Lines) /\ csv \in Texts /\ Buffered(csv, buf)
         /\ Due(csv, NextPiece(buf)) \in Int
         /\ crashes \in Nat /\ recorded \in Nat /\ rows \in Nat /\ Len(buf) \in Nat
         /\ crashes * FLUSH_EVERY \in Nat /\ FLUSH_EVERY \in Nat \ {0}
         /\ Len(buf) <= rows % FLUSH_EVERY /\ rows % FLUSH_EVERY \in Nat
         /\ Len(buf) < FLUSH_EVERY
         /\ recorded <= Due(csv, NextPiece(buf)) + crashes * FLUSH_EVERY + Len(buf)
<1>1. csv \in Files /\ Buffered(csv, buf) /\ crashes \in Nat /\ recorded \in Nat /\ rows \in Nat
  BY DEF LossInv, FileInv
<1>2. csv \in Seq(Lines) /\ csv \in Texts /\ Len(buf) \in Nat
  BY <1>1, FilesAreTexts DEF Buffered
<1>3. /\ Len(buf) <= rows % FLUSH_EVERY
      /\ recorded <= Due(csv, NextPiece(buf)) + crashes * FLUSH_EVERY + Len(buf)
  BY DEF LossInv
<1>4. /\ rows % FLUSH_EVERY \in Nat /\ rows % FLUSH_EVERY < FLUSH_EVERY
      /\ FLUSH_EVERY \in Nat \ {0} /\ crashes * FLUSH_EVERY \in Nat
  BY <1>1, RemainderType, CrashTerm, CollectAssumption
<1>5. Due(csv, NextPiece(buf)) \in Int
  BY <1>2, DueType
<1>6. Len(buf) < FLUSH_EVERY
  BY <1>2, <1>3, <1>4
<1> QED
  BY <1>1, <1>2, <1>3, <1>4, <1>5, <1>6

LEMMA RecordKeepsLoss ==
  ASSUME LossInv, NEW s \in Samples, Record(s), UNCHANGED <<crashes, running>>
  PROVE  LossInv'
<1>1. csv # <<>> /\ collector /\ FileInv
  BY DEF Record, LossInv, FileInv
<1>2. PICK out1, buf1 :
        /\ [out |-> out1, buf |-> buf1] \in Printed
        /\ IF FlushIsDue(rows') THEN csv' = Written(out1 \o buf1) /\ buf' = <<>>
                                ELSE csv' = Written(out1) /\ buf' = buf1
  <2>1. PICK p \in Printed :
          IF FlushIsDue(rows') THEN csv' = Written(p.out \o p.buf) /\ buf' = <<>>
                               ELSE csv' = Written(p.out) /\ buf' = p.buf
    BY DEF Record
  <2>2. p = [out |-> p.out, buf |-> p.buf]
    BY DEF Printed
  <2> QED
    BY <2>1, <2>2
<1>3. /\ rows' = rows + 1 /\ recorded' = recorded + 1
      /\ UNCHANGED <<collector, active, crashes, running>>
  BY DEF Record
<1> DEFINE first == Due(csv, NextPiece(buf))
           lost == crashes * FLUSH_EVERY
<1>4. /\ first \in Int /\ lost \in Nat /\ recorded \in Nat /\ rows \in Nat /\ Len(buf) \in Nat
      /\ recorded <= first + lost + Len(buf) /\ Len(buf) <= rows % FLUSH_EVERY
      /\ rows % FLUSH_EVERY \in Nat /\ FLUSH_EVERY \in Nat \ {0}
  BY LossFacts
<1>5. CASE FlushIsDue(rows')
  <2>1. csv' \in Files /\ csv' # <<>> /\ Due(csv', "row") >= first + Len(buf) + 1
    BY <1>1, <1>2, <1>5, PrintedIs
  <2>2. Due(csv', "row") \in Int
    BY <2>1, FilesAreTexts, DueType
  <2>3. Buffered(csv', buf') /\ NextPiece(buf') = "row" /\ Len(buf') = 0
    BY <1>2, <1>5, EmptyIsBuffered
  <2>4. recorded' <= Due(csv', "row") + lost
    <3> HIDE DEF first, lost
    <3> QED
      BY <1>3, <1>4, <2>1, <2>2
  <2>5. rows' % FLUSH_EVERY \in Nat
    BY <1>3, <1>4, RemainderType
  <2>6. FileInv'
    BY <1>1, <1>2, <1>3, <1>5, <2>1, <2>3 DEF FileInv
  <2> QED
    BY <1>3, <1>4, <2>2, <2>3, <2>4, <2>5, <2>6 DEF LossInv
<1>6. CASE ~FlushIsDue(rows')
  <2>1. /\ csv' \in Files /\ csv' # <<>> /\ Buffered(csv', buf')
        /\ Due(csv', NextPiece(buf')) + Len(buf') >= first + Len(buf) + 1
        /\ Len(buf') <= Len(buf) + 1
    BY <1>1, <1>2, <1>6, PrintedIs
  <2>2. Due(csv', NextPiece(buf')) \in Int /\ Len(buf') \in Nat
    BY <2>1, FilesAreTexts, DueType DEF Buffered
  <2>3. recorded' <= Due(csv', NextPiece(buf')) + lost + Len(buf')
    <3> HIDE DEF first, lost
    <3> QED
      BY <1>3, <1>4, <2>1, <2>2
  <2>4. rows' % FLUSH_EVERY = (rows % FLUSH_EVERY) + 1
    BY <1>3, <1>4, <1>6, RemainderCounts DEF FlushIsDue
  <2>5. FileInv'
    BY <1>1, <1>3, <2>1 DEF FileInv
  <2>6. Len(buf') <= rows' % FLUSH_EVERY
    BY <1>4, <2>1, <2>2, <2>4
  <2>7. rows' \in Nat /\ recorded' \in Nat /\ crashes' \in Nat /\ crashes' * FLUSH_EVERY = lost
    BY <1>3, <1>4, LossFacts
  <2> QED
    BY <2>3, <2>5, <2>6, <2>7 DEF LossInv
<1> QED
  BY <1>5, <1>6

\* A crash loses the buffer, and leaves a line that the next row is glued to.
LEMMA CrashKeepsLoss == ASSUME LossInv, Crash PROVE LossInv'
<1> DEFINE first == Due(csv, NextPiece(buf))
           lost == crashes * FLUSH_EVERY
<1>1. /\ first \in Int /\ lost \in Nat /\ recorded \in Nat /\ rows \in Nat /\ Len(buf) \in Nat
      /\ recorded <= first + lost + Len(buf)
      /\ Len(buf) < FLUSH_EVERY /\ FLUSH_EVERY \in Nat \ {0}
  BY LossFacts
<1>2. /\ crashes' = crashes + 1 /\ buf' = <<>> /\ ~collector' /\ ~active' /\ ~running'
      /\ UNCHANGED <<rows, recorded>>
  BY DEF Crash, data_collect_lost
<1>3. csv' \in Files /\ Due(csv', "row") \in Int /\ Due(csv', "row") >= first - 1
  <2>1. CASE UNCHANGED csv
    BY <2>1, LossFacts, DueType
  <2>2. CASE active /\ csv' = Written(Append(buf, "head"))
    <3> DEFINE w == Written(buf)
               g == Grown(w, "head")
    <3>1. csv # <<>> /\ csv \in Files /\ csv \in Texts /\ Buffered(csv, buf) /\ buf \in Seq(Pieces)
      BY <2>2, LossFacts DEF LossInv, FileInv, Buffered, Pieces
    <3>2. csv' = g
      BY <2>2, <3>1, WrittenAppend DEF Pieces
    <3>3. /\ w \in Files /\ w # <<>> /\ w \in Seq(Lines)
          /\ Due(w, "row") >= first + Len(buf) /\ Due(w, "row") = Due(w, "head")
          /\ Due(w, "head") \in Int
      <4>1. w \in Files /\ w # <<>> /\ Due(w, "row") >= first + Len(buf)
        BY <3>1, BufferWritten
      <4> HIDE DEF w
      <4> QED
        BY <4>1, FilesAreTexts, DueType
    <3> HIDE DEF w, first
    <3>4. g \in Files /\ Due(g, "tail") >= Due(w, "head") + 0
      BY <3>3, GrownIsFile, GrownIsDue
    <3>5. /\ Due(g, "tail") \in Int /\ Due(g, "row") \in Int
          /\ Due(g, "row") >= Due(g, "tail") - 1
      BY <3>4, FilesAreTexts, DueType
    <3> HIDE DEF g
    <3>6. Due(g, "row") >= first - 1
      BY <1>1, <3>3, <3>4, <3>5
    <3> QED
      BY <3>2, <3>4, <3>5, <3>6
  <2> QED
    BY <2>1, <2>2 DEF Crash, data_collect_lost
<1>4. crashes' \in Nat /\ crashes' * FLUSH_EVERY = lost + FLUSH_EVERY
  <2>1. crashes \in Nat
    BY LossFacts
  <2>2. (crashes + 1) * FLUSH_EVERY = lost + FLUSH_EVERY
    BY <2>1, CrashTerm
  <2> QED
    BY <1>2, <2>1, <2>2
<1>5. recorded' <= Due(csv', "row") + crashes' * FLUSH_EVERY
  <2> HIDE DEF first, lost
  <2> QED
    BY <1>1, <1>2, <1>3, <1>4
<1>6. Buffered(csv', buf') /\ NextPiece(buf') = "row" /\ Len(buf') = 0
  BY <1>2, EmptyIsBuffered
<1>7. rows' % FLUSH_EVERY \in Nat
  BY <1>1, <1>2, RemainderType
<1>8. FileInv'
  BY <1>2, <1>3, <1>6 DEF FileInv
<1>9. recorded' <= Due(csv', NextPiece(buf')) + crashes' * FLUSH_EVERY + Len(buf')
  <2>1. Due(csv', NextPiece(buf')) = Due(csv', "row")
    BY <1>6
  <2>2. crashes' * FLUSH_EVERY \in Nat
    BY <1>4, CrashTerm
  <2> QED
    BY <1>3, <1>5, <1>6, <2>1, <2>2
<1> QED
  BY <1>1, <1>2, <1>4, <1>6, <1>7, <1>8, <1>9 DEF LossInv

\* A start finds the file as it was, and puts the header on an empty one.
LEMMA StartKeepsLoss == ASSUME LossInv, Start PROVE LossInv'
<1>1. /\ collector => running
      /\ ~collector => buf = <<>>
      /\ csv \in Files
  BY DEF LossInv, FileInv
<1>2. buf = <<>> /\ NextPiece(buf) = "row" /\ Len(buf) = 0
  BY <1>1, EmptyIsBuffered DEF Start
<1>3. /\ buf' = <<>> /\ rows' = 0 /\ running' /\ active' = collector'
      /\ UNCHANGED <<recorded, crashes>>
  BY DEF Start, data_collect_init
<1>4. Buffered(csv', buf') /\ NextPiece(buf') = "row" /\ Len(buf') = 0
  BY <1>3, EmptyIsBuffered
<1>5. /\ csv' \in Files
      /\ collector' => csv' # <<>>
      /\ Due(csv', "row") = Due(csv, "row")
  <2>1. CASE UNCHANGED csv
    BY <1>1, <2>1 DEF Start, data_collect_init
  <2>2. CASE csv = <<>> /\ csv' = <<"header">>
    <3>1. csv' \in Files
      BY <2>2 DEF Files, Lines
    <3>2. ~Unfinished(csv') /\ ~Unfinished(csv)
      BY <2>2 DEF Unfinished
    <3>3. RowsOf(csv') = {} /\ RowsOf(csv) = {}
      BY <2>2 DEF RowsOf
    <3> QED
      BY <2>2, <3>1, <3>2, <3>3 DEF Due
  <2> QED
    BY <2>1, <2>2 DEF Start, data_collect_init
<1>6. recorded' <= Due(csv', "row") + crashes' * FLUSH_EVERY + 0
  BY <1>2, <1>3, <1>5, LossFacts
<1>7. rows' % FLUSH_EVERY \in Nat
  BY <1>3, RemainderType
<1>8. FileInv'
  <2>1. active' => collector'
    BY <1>3, Zenon
  <2>2. (collector' => csv' # <<>>) /\ (~collector' => buf' = <<>>) /\ (collector' => running')
    BY <1>3, <1>5, Zenon
  <2>3. csv' \in Files /\ Buffered(csv', buf')
    BY <1>4, <1>5
  <2> QED
    BY <2>1, <2>2, <2>3, Zenon DEF FileInv
<1> QED
  BY <1>3, <1>4, <1>6, <1>7, <1>8, LossFacts DEF LossInv

LEMMA LossUnchanged ==
  ASSUME LossInv, UNCHANGED <<csv, buf, collector, rows, recorded, crashes, running>>,
         active' => collector
  PROVE  LossInv'
BY DEF LossInv, FileInv, Buffered, NextPiece

LEMMA LossStep == LossInv /\ [OutputsNext]_outputsVars => LossInv'
<1> SUFFICES ASSUME LossInv, [OutputsNext]_outputsVars PROVE LossInv'
  OBVIOUS
<1>1. CASE Start
  BY <1>1, StartKeepsLoss
<1>2. CASE Collect
  <2>1. CASE \E s \in Samples : data_collect_record(s)
    <3>1. PICK s \in Samples : data_collect_record(s)
      BY <2>1
    <3>2. CASE Pause
      BY <1>2, <3>2, LossUnchanged DEF Pause, Collect
    <3>3. CASE Record(s)
      BY <1>2, <3>3, RecordKeepsLoss DEF Collect
    <3> QED
      BY <3>1, <3>2, <3>3 DEF data_collect_record
  <2>2. CASE data_collect_start
    BY <1>2, <2>2, LossUnchanged DEF data_collect_start, Collect
  <2>3. CASE data_collect_stop
    BY <1>2, <2>3, LossAfterWriting DEF data_collect_stop, Collect, LossInv, FileInv
  <2> QED
    BY <1>2, <2>1, <2>2, <2>3 DEF Collect
<1>3. CASE Export
  BY <1>3, LossUnchanged DEF Export, collectVars, LossInv, FileInv
<1>4. CASE Stop
  BY <1>4, LossAfterWriting DEF Stop, data_collect_destroy, LossInv
<1>5. CASE Crash
  BY <1>5, CrashKeepsLoss
<1>6. CASE UNCHANGED outputsVars
  BY <1>6, LossUnchanged DEF outputsVars, collectVars, LossInv, FileInv
<1> QED
  BY <1>1, <1>2, <1>3, <1>4, <1>5, <1>6 DEF OutputsNext

\* Whatever was written to it by however many processes, and wherever they were
\* cut off (data_collect_init), the training data starts with its header and
\* has no second one.
THEOREM OneHeader == OutputsSpec => []HeaderFirstOnce
<1>1. LossInv => HeaderFirstOnce
  BY DEF LossInv, FileInv, Files, HeaderFirstOnce
<1> QED
  BY LossInit, LossStep, <1>1, PTL DEF OutputsSpec

\* All crashes so far together have cost at most FLUSH_EVERY rows each
\* (data_collect_record, "Flush periodically for crash safety"), the row of the next
\* life that is glued to a cut one included, and stops and pauses none, for every
\* flush interval, every limit that is a multiple of it, and any number of lives.
THEOREM CrashesCostOneInterval == OutputsSpec => []LossIsBounded
<1>1. LossInv => LossIsBounded
  <2> SUFFICES ASSUME LossInv PROVE LossIsBounded
    OBVIOUS
  <2>1. Intact = RowsOf(csv)
    BY DEF Intact, RowsOf
  <2>2. Due(csv, NextPiece(buf)) <= Cardinality(Intact) /\ Cardinality(Intact) \in Nat
    BY <2>1, LossFacts, DueType, RowsAreFinite
  <2> QED
    BY <2>2, LossFacts DEF LossIsBounded
<1> QED
  BY LossInit, LossStep, <1>1, PTL DEF OutputsSpec

-----------------------------------------------------------------------------
(* Snapshots.                                                              *)

Numbered(file) == file.start \in Nat /\ file.seq \in Nat

\* What readers have was exported before the next snapshot of this life: by an
\* earlier life, or by this one under a lower number.
OutIsOld ==
  /\ Numbered(out) /\ starts \in Nat /\ export_seq \in Nat
  /\ out.start <= starts
  /\ running => starts > 0 /\ (out.start < starts \/ out.seq < export_seq)

\* The snapshot on its way to them: written whole, unless a write failed.
JsonIsNew ==
  /\ pc \in {"open", "write", "rename"} =>
       running /\ Numbered(json) /\ json.whole /\ json.start = starts
       /\ json.seq < export_seq /\ Newer(json, out)
  /\ pc = "write" => tmp = Partial
  /\ pc = "rename" => tmp = json \/ (tmp = Partial /\ fault = "short")

PublishInv == OutIsOld /\ JsonIsNew

LEMMA PublishInit == OutputsInit => PublishInv
BY DEF OutputsInit, TelemetryInit, PublishInv, OutIsOld, JsonIsNew, Numbered, NoFile

LEMMA ExportPublishes ==
  ASSUME PublishInv, Export
  PROVE  /\ PublishInv'
         /\ out' # out /\ fault' # "short" => out'.whole /\ Newer(out', out)
<1> USE DEF PublishInv, OutIsOld, JsonIsNew, Numbered, Newer
<1>1. CASE telemetry_export(starts)
  <2>1. CASE \E t \in Tables : json' = build_json(starts, t)
    <3>1. PICK t \in Tables : json' = build_json(starts, t)
      BY <2>1
    <3>2. json'.start = starts /\ json'.seq = export_seq /\ json'.whole
      BY <3>1 DEF build_json
    <3>3. UNCHANGED <<running, starts, tmp, out>> /\ pc = "idle" /\ running
      BY <1>1 DEF telemetry_export, Export
    <3>4. CASE export_seq' = export_seq + 1 /\ pc' = "open"
      BY <3>2, <3>3, <3>4
    <3>5. CASE UNCHANGED <<export_seq, pc>>
      BY <3>3, <3>5
    <3> QED
      BY <1>1, <3>4, <3>5 DEF telemetry_export
  <2>2. CASE UNCHANGED <<json, export_seq, pc>>
    BY <1>1, <2>2 DEF telemetry_export, Export
  <2> QED
    BY <1>1, <2>1, <2>2 DEF telemetry_export
<1>2. CASE OpenTmp
  BY <1>2 DEF OpenTmp, Export
<1>3. CASE WriteTmp
  <2>1. /\ pc = "write" /\ pc' = "rename"
        /\ UNCHANGED <<json, export_seq, out, running, starts>>
    BY <1>3 DEF WriteTmp, Export
  <2>2. tmp' = json' \/ (tmp' = Partial /\ fault' = "short")
    BY <1>3, <2>1 DEF WriteTmp
  <2> QED
    BY <2>1, <2>2
<1>4. CASE Rename
  <2>1. CASE out' = tmp /\ UNCHANGED fault
    <3>1. /\ pc = "rename" /\ pc' = "event" /\ running
          /\ UNCHANGED <<export_seq, starts, running>>
      BY <1>4 DEF Rename, Export
    <3>2. CASE tmp = json
      BY <2>1, <3>1, <3>2
    <3>3. CASE tmp = Partial /\ fault = "short"
      <4>1. out'.start = 0 /\ out'.seq = 1
        BY <2>1, <3>3 DEF Partial
      <4>2. starts # 0
        BY <3>1
      <4> QED
        BY <2>1, <3>1, <3>3, <4>1, <4>2
    <3> QED
      BY <3>1, <3>2, <3>3
  <2>2. CASE UNCHANGED out
    BY <1>4, <2>2 DEF Rename, Export
  <2> QED
    BY <1>4, <2>1, <2>2 DEF Rename
<1>5. CASE send_ubus_event
  BY <1>5 DEF send_ubus_event, Export
<1> QED
  BY <1>1, <1>2, <1>3, <1>4, <1>5 DEF Export, write_file

LEMMA PublishStep ==
  ASSUME PublishInv, [OutputsNext]_outputsVars
  PROVE  /\ PublishInv'
         /\ out' # out /\ fault' # "short" => out'.whole /\ Newer(out', out)
<1> USE DEF PublishInv, OutIsOld, JsonIsNew, Numbered, Newer
<1>1. CASE Start
  BY <1>1 DEF Start, telemetry_init
<1>2. CASE Collect
  BY <1>2 DEF Collect, telemetryVars
<1>3. CASE Export
  BY <1>3, ExportPublishes
<1>4. CASE Stop
  BY <1>4 DEF Stop, telemetry_gone
<1>5. CASE Crash
  BY <1>5 DEF Crash, telemetry_gone
<1>6. CASE UNCHANGED outputsVars
  BY <1>6 DEF outputsVars, telemetryVars
<1> QED
  BY <1>1, <1>2, <1>3, <1>4, <1>5, <1>6 DEF OutputsNext

\* Readers of the telemetry file go from one whole snapshot to a whole and newer
\* one (write_file), whenever the process dies and whatever its successor finds in
\* the temporary file, unless the writes of that very snapshot fell short unnoticed.
THEOREM ReadersSeeOrder == OutputsSpec => PublishesInOrder
<1>1. PublishInv /\ [OutputsNext]_outputsVars => PublishInv'
  BY PublishStep
<1>2. PublishInv /\ [OutputsNext]_outputsVars =>
        [out' # out /\ fault' # "short" => out'.whole /\ Newer(out', out)]_telemetryVars
  BY PublishStep
<1> QED
  BY PublishInit, <1>1, <1>2, PTL DEF OutputsSpec, PublishesInOrder

-----------------------------------------------------------------------------
(* What a snapshot says.                                                   *)

\* The report, once the first n flows of table t have been counted.
Aggs(t) ==
  [clients : Seq(ClientsOf(t)), class_totals : [Classes -> Nat], total_bytes : Nat]

Aggregated(a, t, n) ==
  /\ a \in Aggs(t)
  /\ AddsUpTo(a.clients, t, n)
  /\ a.total_bytes = Bytes(t, 1..n)
  /\ \A c \in Classes : a.class_totals[c] = Cardinality(OfClass(t, 1..n, c))

\* The reports that may be there after n flows.
AggsAfter(t, n) == {a \in Aggs(t) : Aggregated(a, t, n)}

LEMMA NothingAggregated == ASSUME NEW t, IsTable(t) PROVE NewAgg \in AggsAfter(t, 0)
<1> DEFINE a == NewAgg
<1>1. /\ a.clients = <<>> /\ a.class_totals = [c \in Classes |-> 0] /\ a.total_bytes = 0
      /\ a \in Aggs(t)
  BY DEF NewAgg, Aggs
<1>2. 1..0 = {} /\ \A c \in Classes : OfClass(t, 1..0, c) = {}
  BY DEF OfClass
<1>3. a.total_bytes = Bytes(t, 1..0)
  BY <1>1, <1>2, NoBytes
<1>4. \A c \in Classes : a.class_totals[c] = Cardinality(OfClass(t, 1..0, c))
  BY <1>1, <1>2, FS_EmptySet
<1>5. AddsUpTo(a.clients, t, 0)
  BY <1>1, AddsUpAtFirst
<1> HIDE DEF a
<1> QED
  BY <1>1, <1>3, <1>4, <1>5 DEF AggsAfter, Aggregated, a

LEMMA OneMoreAggregated ==
  ASSUME NEW t, IsTable(t), NEW i \in 1..Len(t), NEW a \in AggsAfter(t, i - 1)
  PROVE  telem_flow_cb(a, t[i]) \in AggsAfter(t, i)
<1> DEFINE f == t[i]
           d == telem_flow_cb(a, f)
           M == 1..i - 1
<1>1. /\ a \in Aggs(t) /\ AddsUpTo(a.clients, t, i - 1) /\ a.total_bytes = Bytes(t, M)
      /\ \A c \in Classes : a.class_totals[c] = Cardinality(OfClass(t, M, c))
      /\ a.class_totals \in [Classes -> Nat] /\ a.total_bytes \in Nat
  BY DEF AggsAfter, Aggregated, Aggs
<1>2. /\ i \notin M /\ M \subseteq 1..Len(t) /\ 1..i = M \cup {i}
      /\ f.cls \in Classes /\ f.bytes \in Nat
  BY DEF IsTable
<1>3. /\ d.clients = WithClient(a.clients, f)
      /\ d.total_bytes = a.total_bytes + f.bytes
      /\ d.class_totals = [a.class_totals EXCEPT ![f.cls] = @ + 1]
      /\ d = [class_totals |-> d.class_totals, total_bytes |-> d.total_bytes,
              clients |-> d.clients]
  BY DEF telem_flow_cb
<1>4. AddsUpTo(d.clients, t, i)
  <2>1. AddsUpTo(WithClient(a.clients, f), t, i)
    BY <1>1, AddsUpNext
  <2> HIDE DEF d, f
  <2> QED
    BY <1>3, <2>1
<1>5. d.total_bytes = Bytes(t, 1..i)
  <2>1. Bytes(t, M \cup {i}) = Bytes(t, M) + f.bytes
    BY <1>2, MoreBytes
  <2> HIDE DEF d, f, M
  <2> QED
    BY <1>1, <1>2, <1>3, <2>1
<1>6. ASSUME NEW c \in Classes
      PROVE  d.class_totals[c] = Cardinality(OfClass(t, 1..i, c))
  <2> DEFINE T == OfClass(t, M, c)
  <2>1. T \subseteq 1..Len(t) /\ i \notin T
    BY <1>2 DEF OfClass
  <2>2. OfClass(t, 1..i, c) = IF f.cls = c THEN T \cup {i} ELSE T
    BY <1>2 DEF OfClass
  <2>3. Cardinality(T \cup {i}) = Cardinality(T) + 1
    <3> HIDE DEF T
    <3> QED
      BY <2>1, OneMore
  <2>4. a.class_totals[c] = Cardinality(T)
    BY <1>1
  <2>5. d.class_totals[c] = IF f.cls = c THEN a.class_totals[c] + 1 ELSE a.class_totals[c]
    <3> HIDE DEF d, f, M
    <3> QED
      BY <1>1, <1>2, <1>3
  <2> HIDE DEF T, d, f
  <2> QED
    BY <2>2, <2>3, <2>4, <2>5
<1>7. d \in Aggs(t)
  <2>1. d.clients \in Seq(ClientsOf(t))
    BY <1>4 DEF AddsUpTo
  <2>2. d.class_totals \in [Classes -> Nat] /\ d.total_bytes \in Nat
    <3> HIDE DEF d, f, M
    <3> QED
      BY <1>1, <1>2, <1>3
  <2> HIDE DEF d
  <2> QED
    BY <1>3, <2>1, <2>2 DEF Aggs
<1> HIDE DEF d
<1>8. d \in AggsAfter(t, i)
  BY <1>4, <1>5, <1>6, <1>7 DEF AggsAfter, Aggregated
<1> QED
  BY <1>8 DEF d

\* What ReportAddsUp says of a file.
FileAddsUp(file) ==
  file.whole =>
    LET t == file.table
    IN  /\ file.report.total_bytes = Bytes(t, 1..Len(t))
        /\ \A c \in Classes :
             file.report.class_totals[c] = Cardinality({i \in 1..Len(t) : t[i].cls = c})
        /\ ListAddsUp(file.report.clients, t)

LEMMA BuiltAddsUp ==
  ASSUME NEW t \in Tables, NEW start
  PROVE  FileAddsUp(build_json(start, t))
<1> DEFINE n == Len(t)
           G == [i \in 0..n |-> AggsAfter(t, i)]
           step == [i \in 1..n |-> [a \in AggsAfter(t, i - 1) |-> telem_flow_cb(a, t[i])]]
           Is(g) == g = [i \in 0..n |-> IF i = 0 THEN NewAgg ELSE telem_flow_cb(g[i - 1], t[i])]
           agg == CHOOSE g : Is(g)
<1>1. n \in Nat /\ IsTable(t)
  BY TelemetryAssumption DEF IsTable
<1>2. \A i \in 0..n : G[i] = AggsAfter(t, i)
  OBVIOUS
<1>3. NewAgg \in AggsAfter(t, 0) /\ NewAgg \in G[0]
  <2>1. NewAgg \in AggsAfter(t, 0)
    BY <1>1, NothingAggregated
  <2> HIDE DEF G, n
  <2> QED
    BY <1>1, <1>2, <2>1
<1>4. ASSUME NEW i \in 1..n, NEW a \in AggsAfter(t, i - 1)
      PROVE  telem_flow_cb(a, t[i]) \in AggsAfter(t, i)
  BY <1>1, OneMoreAggregated
<1>5. ASSUME NEW i \in 1..n, NEW a \in G[i - 1]
      PROVE step[i][a] = telem_flow_cb(a, t[i]) /\ step[i][a] \in G[i]
  <2>1. i - 1 \in 0..n /\ i \in 0..n
    BY <1>1
  <2>2. a \in AggsAfter(t, i - 1)
    BY <1>2, <2>1
  <2>3. step[i][a] = telem_flow_cb(a, t[i])
    BY <2>2
  <2> HIDE DEF step, G
  <2> QED
    BY <1>2, <1>4, <2>1, <2>2, <2>3
<1>6. PICK g : RunsWithin(g, n, G, NewAgg, step)
  <2> HIDE DEF n, G, step
  <2> QED
    BY <1>1, <1>3, <1>5, RunWithin
<1>7. Is(g)
  <2> HIDE DEF n, step, G
  <2>1. /\ g = [i \in 0..n |-> g[i]] /\ g[0] = NewAgg
        /\ \A i \in 1..n : g[i] = step[i][g[i - 1]]
        /\ \A i \in 0..n : g[i] \in G[i]
    BY <1>6 DEF RunsWithin
  <2>2. ASSUME NEW i \in 1..n PROVE g[i] = telem_flow_cb(g[i - 1], t[i])
    <3>1. i - 1 \in 0..n
      BY <1>1
    <3> QED
      BY <1>5, <2>1, <3>1
  <2>3. ASSUME NEW i \in 0..n
        PROVE  g[i] = IF i = 0 THEN NewAgg ELSE telem_flow_cb(g[i - 1], t[i])
    <3>1. CASE i = 0
      BY <2>1, <3>1
    <3>2. CASE i \in 1..n
      <4>1. i # 0
        BY <3>2
      <4> QED
        BY <2>2, <3>2, <4>1, Zenon
    <3> QED
      BY <1>1, <3>1, <3>2
  <2> QED
    BY <2>1, <2>3
<1>8. Is(agg)
  <2> HIDE DEF Is
  <2> QED
    BY <1>7
<1> DEFINE file == build_json(start, t)
<1>9. file.table = t /\ file.report = agg[n]
  BY DEF build_json
<1> HIDE DEF agg
<1> DEFINE T == {i \in 0..n : agg[i] \in AggsAfter(t, i)}
<1>10. 0 \in T
  <2>1. agg[0] = NewAgg
    BY <1>1, <1>8
  <2> QED
    BY <1>1, <1>3, <2>1
<1>11. ASSUME NEW i \in 1..n, i - 1 \in T PROVE i \in T
  <2>1. agg[i] = telem_flow_cb(agg[i - 1], t[i])
    BY <1>1, <1>8
  <2> QED
    BY <1>4, <1>11, <2>1
<1>12. n \in T
  <2> HIDE DEF T, n
  <2>1. 0..n \subseteq T
    BY <1>1, <1>10, <1>11, UpTo
  <2> QED
    BY <1>1, <2>1
<1>13. Aggregated(file.report, t, n)
  BY <1>9, <1>12 DEF AggsAfter
<1> HIDE DEF file
<1>14. ListAddsUp(file.report.clients, t)
  <2> DEFINE cs == file.report.clients
  <2>1. AddsUpTo(cs, t, Len(t))
    BY <1>13 DEF Aggregated
  <2>2. SameClients(cs, cs)
    BY DEF SameClients
  <2> HIDE DEF cs
  <2>3. ListAddsUp(cs, t)
    BY <1>1, <2>1, <2>2, AddedUpIsRight
  <2> QED
    BY <2>3 DEF cs
<1>15. FileAddsUp(file)
  BY <1>9, <1>13, <1>14 DEF FileAddsUp, Aggregated, OfClass
<1> QED
  BY <1>15 DEF file

\* Right when built, right when written, right when published.
ReportInv == FileAddsUp(json) /\ FileAddsUp(tmp) /\ FileAddsUp(out)

LEMMA NoFileAddsUp == FileAddsUp(NoFile) /\ FileAddsUp(Partial)
BY DEF FileAddsUp, NoFile, Partial

LEMMA ReportInit == OutputsInit => ReportInv
BY NoFileAddsUp DEF OutputsInit, TelemetryInit, ReportInv

LEMMA ReportStep == ReportInv /\ [OutputsNext]_outputsVars => ReportInv'
<1> SUFFICES ASSUME ReportInv, [OutputsNext]_outputsVars PROVE ReportInv'
  OBVIOUS
<1>1. FileAddsUp(json) /\ FileAddsUp(tmp) /\ FileAddsUp(out)
  BY DEF ReportInv
<1>2. SUFFICES /\ json' = json \/ json' = NoFile \/ \E t \in Tables : json' = build_json(starts, t)
               /\ tmp' \in {tmp, json, NoFile, Partial}
               /\ out' \in {out, tmp}
  <2>1. FileAddsUp(json')
    <3>1. CASE \E t \in Tables : json' = build_json(starts, t)
      BY <3>1, BuiltAddsUp
    <3> QED
      BY <1>1, <1>2, <3>1, NoFileAddsUp
  <2>2. FileAddsUp(tmp') /\ FileAddsUp(out')
    BY <1>1, <1>2, NoFileAddsUp
  <2>3. ReportInv' <=> FileAddsUp(json') /\ FileAddsUp(tmp') /\ FileAddsUp(out')
    BY DEF ReportInv, FileAddsUp
  <2> QED
    BY <2>1, <2>2, <2>3
<1>3. CASE Start
  BY <1>3 DEF Start, telemetry_init
<1>4. CASE Collect
  BY <1>4 DEF Collect, telemetryVars
<1>5. CASE Export
  <2>1. CASE telemetry_export(starts)
    BY <2>1 DEF telemetry_export
  <2>2. CASE OpenTmp
    BY <2>2 DEF OpenTmp
  <2>3. CASE WriteTmp
    BY <2>3 DEF WriteTmp
  <2>4. CASE Rename
    BY <2>4 DEF Rename
  <2>5. CASE send_ubus_event
    BY <2>5 DEF send_ubus_event
  <2> QED
    BY <1>5, <2>1, <2>2, <2>3, <2>4, <2>5 DEF Export, write_file
<1>6. CASE Stop
  BY <1>6 DEF Stop, telemetry_gone
<1>7. CASE Crash
  BY <1>7 DEF Crash, telemetry_gone
<1>8. CASE UNCHANGED outputsVars
  BY <1>8 DEF outputsVars, telemetryVars
<1> QED
  BY <1>3, <1>4, <1>5, <1>6, <1>7, <1>8 DEF OutputsNext

\* What readers find in the telemetry file (build_json, telem_flow_cb) is right
\* about every client and application it lists, and its totals about all flows,
\* for every flow table and however few places there are.
THEOREM SnapshotsAddUp == OutputsSpec => []ReportAddsUp
<1>1. ReportInv => ReportAddsUp
  BY DEF ReportInv, FileAddsUp, ReportAddsUp
<1> QED
  BY ReportInit, ReportStep, <1>1, PTL DEF OutputsSpec

=============================================================================
