-------------------------------- MODULE Watch --------------------------------
(***************************************************************************)
(* The daemon's file watcher (daemon/watch.go): it tails a log by polling,  *)
(* remembers an offset and notifies of each new line.                      *)
(*                                                                         *)
(* The file is a sequence of cells: a piece of text, or the end of a line. *)
(* Every line matches here, and a scan, which reads a file that only grows *)
(* under it, is one step.                                                  *)
(***************************************************************************)
EXTENDS Integers, Sequences, SequencesExt, FiniteSetsExt

CONSTANTS
  MaxScanLine,   \* cells of one line the scanner takes, its end included
  MaxCells,      \* bound: cells of a file
  MaxFiles       \* bound: the file and its rotations

ASSUME WatchAssumption ==
  /\ MaxScanLine \in Nat \ {0} /\ MaxCells \in Nat /\ MaxFiles \in Nat \ {0}

VARIABLES
  file,        \* the cells of the file
  rotations,   \* how often it was rotated or truncated
  offset,      \* the tail's offset
  seen,        \* history: the rotation of the last scan
  base,        \* history: where the tail began to follow the file of that scan
  told         \* history: how often each line of the file, by its last cell, was notified

watchVars == <<file, rotations, offset, seen, base, told>>

Cells == 1..MaxCells

WatchTypeOK ==
  /\ file \in Seq({"text", "end"}) /\ Len(file) <= MaxCells /\ rotations \in Nat
  /\ offset \in 0..MaxCells /\ seen \in Nat /\ base \in 0..MaxCells /\ told \in [Cells -> Nat]

WatchInit ==
  /\ file = <<>> /\ rotations = 0 /\ offset = 0 /\ seen = 0 /\ base = 0 /\ told = [i \in Cells |-> 0]

-----------------------------------------------------------------------------
Write(cell) ==
  /\ Len(file) < MaxCells /\ file' = Append(file, cell)
  /\ UNCHANGED <<rotations, offset, seen, base, told>>

\* The file is replaced, or truncated in place, by an empty one.
RotateFile ==
  /\ rotations < MaxFiles - 1 /\ rotations' = rotations + 1
  /\ file' = <<>> /\ told' = [i \in Cells |-> 0]
  /\ UNCHANGED <<offset, seen, base>>

\* Mutant: the unterminated rest is taken as a line, and its terminator counted.
ScannedRest(o) ==
  LET ends == {i \in o + 1..Len(file) : file[i] = "end" \/ i = Len(file)}
  IN [lines |-> ends, failed |-> FALSE,
      next |-> IF o = Len(file) \/ Last(file) = "end" THEN Len(file) ELSE Len(file) + 1]

\* The scanner: the lines behind o, up to the first that does not fit its buffer; a
\* partial line is left for the next poll, unless it has filled the buffer already.
Scanned(o) ==
  LET tooLong(p) == /\ Len(file) - p >= MaxScanLine
                    /\ \A j \in p + 1..p + MaxScanLine : file[j] # "end"
      starts == {p \in o..Len(file) : p = o \/ file[p] = "end"}
      ends == {i \in o + 1..Len(file) : file[i] = "end" /\
                 \A p \in starts : p < i => ~tooLong(p)}
      next == Max({o} \cup ends)
  IN [lines |-> ends, failed |-> tooLong(next), next |-> next]

\* scanFileFrom: an offset behind the end means another file; a line that is too long
\* is skipped, with all the file holds behind it.
Scan ==
  LET o == IF Len(file) < offset THEN 0 ELSE offset
      scan == Scanned(o)
      skips == scan.failed
  IN /\ offset' = IF skips THEN Len(file) ELSE scan.next
     /\ told' = [i \in Cells |-> IF i \in scan.lines THEN told[i] + 1 ELSE told[i]]
     /\ base' = IF skips THEN Len(file)
                ELSE IF Len(file) < offset \/ seen # rotations THEN o ELSE base
     /\ seen' = rotations /\ UNCHANGED <<file, rotations>>

WatchNext ==
  \/ \E cell \in {"text", "end"} : Write(cell)
  \/ RotateFile \/ Scan

WatchSpec == WatchInit /\ [][WatchNext]_watchVars

-----------------------------------------------------------------------------
(* Properties.                                                             *)

\* Every line is notified once: each that has ended before the offset, since the tail
\* follows this file and behind the last line it had to skip, has been, and none behind
\* the offset or twice, however the lines were pieced together and rotated
\* (watch.go:102-168).
LinesOnce ==
  /\ \A i \in Cells : told[i] <= 1
  /\ seen = rotations => \A i \in 1..Len(file) :
       /\ i > offset => told[i] = 0
       /\ i \in base + 1..offset /\ file[i] = "end" => told[i] = 1
=============================================================================
