------------------------------- MODULE Stream -------------------------------
(***************************************************************************)
(* A streamed process (internal/shell/stream.go): the process writes to two *)
(* pipes, two goroutines read them, the lines of the first go through a    *)
(* bounded channel to a consumer, and Close kills the process, waits for   *)
(* both readers and reaps it.  A pipe stays open as long as anybody holds  *)
(* its writing end, which a child of the process inherits.                 *)
(*                                                                         *)
(* A line is only counted here; what the length cap makes of one is left   *)
(* out.                                                                    *)
(***************************************************************************)
EXTENDS Integers

CONSTANTS
  PipeCap,      \* lines the operating system's pipe takes
  ChanDepth,    \* streamChanDepth (256)
  MaxWritten    \* bound: lines written to each pipe

ASSUME StreamAssumption == PipeCap \in Nat \ {0} /\ ChanDepth \in Nat /\ MaxWritten \in Nat

VARIABLES
  process,     \* "runs", "dead", "reaped"
  child,       \* a child that inherited the pipes: "none", "runs", "dead"
  out,         \* lines in the stdout pipe
  err,         \* lines in the stderr pipe
  written,     \* history: lines written to [stdout, stderr]
  reader,      \* the stdout goroutine: "reads", "sends", "done"
  drain,       \* the stderr goroutine: "reads", "done"
  lines,       \* lines in the channel
  taken,       \* lines the consumer took
  cancelled,   \* streamCtx
  user         \* the consumer: "takes", "closing", "closed"

streamVars == <<process, child, out, err, written, reader, drain, lines, taken, cancelled, user>>
pipeVars == <<out, err, written>>
userVars == <<lines, taken, user>>

StreamTypeOK ==
  /\ process \in {"runs", "dead", "reaped"} /\ child \in {"none", "runs", "dead"}
  /\ out \in 0..PipeCap /\ err \in 0..PipeCap /\ written \in [{"out", "err"} -> Nat]
  /\ reader \in {"reads", "sends", "done"} /\ drain \in {"reads", "done"}
  /\ lines \in 0..ChanDepth /\ taken \in Nat /\ cancelled \in BOOLEAN
  /\ user \in {"takes", "closing", "closed"}

StreamInit ==
  /\ process = "runs" /\ child = "none" /\ out = 0 /\ err = 0
  /\ written = [p \in {"out", "err"} |-> 0]
  /\ reader = "reads" /\ drain = "reads" /\ lines = 0 /\ taken = 0
  /\ cancelled = FALSE /\ user = "takes"

-----------------------------------------------------------------------------
(* The process.                                                            *)

PipesHeld == process = "runs" \/ child = "runs"

\* Whoever holds a pipe writes to it; a full pipe blocks the writer, and one whose
\* reader has gone takes nothing that anybody would see.
WriteOut ==
  /\ PipesHeld /\ reader # "done" /\ out < PipeCap /\ written["out"] < MaxWritten
  /\ out' = out + 1 /\ written' = [written EXCEPT !["out"] = @ + 1]
  /\ UNCHANGED <<process, child, err, reader, drain, userVars, cancelled>>

WriteErr ==
  /\ PipesHeld /\ err < PipeCap /\ written["err"] < MaxWritten
  /\ err' = err + 1 /\ written' = [written EXCEPT !["err"] = @ + 1]
  /\ UNCHANGED <<process, child, out, reader, drain, userVars, cancelled>>

Fork ==
  /\ process = "runs" /\ child = "none" /\ child' = "runs"
  /\ UNCHANGED <<process, pipeVars, reader, drain, userVars, cancelled>>
ChildEnds ==
  /\ child = "runs" /\ child' = "dead"
  /\ UNCHANGED <<process, pipeVars, reader, drain, userVars, cancelled>>
ProcessEnds ==
  /\ process = "runs" /\ process' = "dead"
  /\ UNCHANGED <<child, pipeVars, reader, drain, userVars, cancelled>>

\* exec.CommandContext kills the process, not its children, once the context is done.
ContextKills ==
  /\ cancelled /\ process = "runs" /\ process' = "dead"
  /\ UNCHANGED <<child, pipeVars, reader, drain, userVars, cancelled>>

-----------------------------------------------------------------------------
(* The readers.                                                            *)

ReadOut ==
  /\ reader = "reads"
  /\ \/ out > 0 /\ out' = out - 1 /\ reader' = "sends"
     \/ out = 0 /\ ~PipesHeld /\ reader' = "done" /\ UNCHANGED out
  /\ UNCHANGED <<process, child, err, written, drain, userVars, cancelled>>

\* Mutant: the goroutine sends without looking at the context.
SendsOn ==
  /\ reader = "sends" /\ lines < ChanDepth /\ lines' = lines + 1 /\ reader' = "reads"
  /\ UNCHANGED <<process, child, pipeVars, drain, taken, user, cancelled>>

\* A full channel holds the goroutine, and through the pipe the process, back; a done
\* context lets it go, with what it has read and not sent.
SendLine ==
  /\ reader = "sends"
  /\ \/ lines < ChanDepth /\ lines' = lines + 1 /\ reader' = "reads"
     \/ cancelled /\ reader' = "done" /\ UNCHANGED lines
  /\ UNCHANGED <<process, child, pipeVars, drain, taken, user, cancelled>>

DrainErr ==
  /\ drain = "reads"
  /\ \/ err > 0 /\ err' = err - 1 /\ UNCHANGED drain
     \/ err = 0 /\ ~PipesHeld /\ drain' = "done" /\ UNCHANGED err
  /\ UNCHANGED <<process, child, out, written, reader, userVars, cancelled>>

-----------------------------------------------------------------------------
(* The consumer.                                                           *)

Take ==
  /\ user = "takes" /\ lines > 0 /\ lines' = lines - 1 /\ taken' = taken + 1
  /\ UNCHANGED <<process, child, pipeVars, reader, drain, user, cancelled>>

\* The caller's context ends.
Cancel ==
  /\ cancelled = FALSE /\ cancelled' = TRUE
  /\ UNCHANGED <<process, child, pipeVars, reader, drain, userVars>>

\* Close, at any time: the consumer may have had enough, or seen the channel closed.
BeginClose ==
  /\ user = "takes" /\ user' = "closing" /\ cancelled' = TRUE
  /\ UNCHANGED <<process, child, pipeVars, reader, drain, lines, taken>>

\* Wait: the process is reaped only after both pipes have been read to their end.
EndClose ==
  /\ user = "closing" /\ reader = "done" /\ drain = "done" /\ process = "dead"
  /\ process' = "reaped" /\ user' = "closed"
  /\ UNCHANGED <<child, pipeVars, reader, drain, lines, taken, cancelled>>

StreamNext ==
  \/ WriteOut \/ WriteErr \/ Fork \/ ChildEnds \/ ProcessEnds \/ ContextKills
  \/ ReadOut \/ SendLine \/ DrainErr \/ Take \/ Cancel \/ BeginClose \/ EndClose

\* The goroutines run and the kernel delivers the kill.  Nobody need write, take or
\* close, and neither the process nor a child ends by itself.
StreamFairness == WF_streamVars(ContextKills) /\ WF_streamVars(ReadOut) /\ WF_streamVars(SendLine) /\ WF_streamVars(DrainErr) /\ WF_streamVars(EndClose)

StreamSpec == StreamInit /\ [][StreamNext]_streamVars /\ StreamFairness

-----------------------------------------------------------------------------
(* Properties.                                                             *)

\* Close returns, although nobody takes what fills the channel and the pipes, unless a
\* child of the process keeps a pipe open: it is not killed with it.  A stream that
\* nobody cancelled delivers every line before its channel closes (stream.go:79-177).
StreamEnds ==
  /\ [](reader = "done" /\ ~cancelled => taken + lines = written["out"])
  /\ (user = "closing") ~> (user = "closed" \/ child = "runs")
=============================================================================
