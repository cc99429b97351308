------------------------------ MODULE CsvReader ------------------------------
(***************************************************************************)
(* rltrader/csv_reader.h and csv_reader.cc: the rows of a file, read into  *)
(* memory in batches and handed out one by one.  A row is the number of    *)
(* its line; what is in it belongs to the user of the reader.              *)
(***************************************************************************)
EXTENDS SortedSets, SequencesExt

CONSTANTS Lines,       \* data lines of the file
          Malformed,   \* those that are skipped when they are read
          BatchLines,  \* rows in a batch (2500)
          start_read,  \* reset starts at a random line up to this one
          max_read     \* lines to read, about

WellFormed == (1 .. Lines) \ Malformed

ASSUME ReaderAssumption ==
  /\ Lines \in Nat /\ Malformed \subseteq 1 .. Lines
  /\ BatchLines \in Nat \ {0} /\ start_read \in Nat /\ max_read \in Nat
  /\ \E k \in WellFormed : k > start_read  \* reset finds a row

VARIABLES line,       \* lines of filestream that were read
          rows,       \* the batch in memory
          current,    \* the iterator: rows of the batch that were returned
          more_data, num_reads

readerVars == <<line, rows, current, more_data, num_reads>>

\* The rows between line `from' and line `to'.
RowsBetween(from, to) == {k \in WellFormed : from < k /\ k <= to}

\* readCSV stops after a row that fills the batch, or that exceeds max_read ...
FillsBatch(from) == {k \in WellFormed : Cardinality(RowsBetween(from, k)) = BatchLines}
Exceeds(from, reads) == {k \in RowsBetween(from, Lines) : reads + k - from > max_read}

\* ... or else at the end of the file.
lastLine(from, reads) ==
  LET stops == FillsBatch(from) \cup Exceeds(from, reads)
  IN  IF stops = {} THEN Lines ELSE Min(stops)

\* Mutant (see the README): each batch drops its first line.
SkipsFirst(from, to) == Sorted(RowsBetween(from + 1, to))

rowsRead(from, to) == Sorted(RowsBetween(from, to))

\* readCSV from a line on, with `reads' lines read before.
ReadCSV(from, reads) ==
  LET last == lastLine(from, reads)
  IN  /\ line' = last
      /\ rows' = rowsRead(from, last)
      /\ num_reads' = reads + last - from
      /\ more_data' = (last \in FillsBatch(from))

\* reset, which also takes the first row.
ResetReader ==
  \E start_line \in 0 .. start_read :
    ReadCSV(start_line, 0) /\ current' = 1

\* hasNext reads the next batch when this one is used up.
Exhausted == current = Len(rows)
HasNext == IF Exhausted THEN more_data /\ RowsBetween(line, lastLine(line, num_reads)) # {}
                        ELSE TRUE

\* hasNext and, if it holds, next.
NextRow ==
  /\ IF Exhausted /\ more_data THEN ReadCSV(line, num_reads)
                               ELSE UNCHANGED <<line, rows, more_data, num_reads>>
  /\ current' = (IF Exhausted /\ more_data THEN 0 ELSE current) + (IF HasNext THEN 1 ELSE 0)

\* The line of the row returned last.
currentRow == rows[current]
=============================================================================
