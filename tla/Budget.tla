------------------------------- MODULE Budget --------------------------------
(***************************************************************************)
(* The kill switch of an armed run (internal/budget): the watcher looks at *)
(* the agent's commands and at the clock, freezes the agent's process      *)
(* group when a threshold trips, and asks the operator over an approve     *)
(* request of its own registry whether to resume or to kill.  The agent,   *)
(* the operator, the deadlines and the end of the run are concurrent with  *)
(* the watcher, whose steps lie between two points at which it sees them.  *)
(***************************************************************************)
EXTENDS Integers, Sequences, SequencesExt, FiniteSets

CONSTANTS
  Hash,         \* closure hashes of the agent's commands
  LoopN,        \* equal hashes that trip (8)
  LoopWindow,   \* among so many commands (20)
  StreamSize,   \* of the channel the gate's observer fills (64)
  MaxAsks       \* bound on requests

ASSUME BudgetAssumption ==
  /\ LoopN \in Nat /\ LoopWindow \in Nat \ {0} /\ StreamSize \in Nat \ {0}
  /\ MaxAsks \in Nat \ {0}

VARIABLES
  ladder,    \* configured: freeze and ask; else only tell
  agent,     \* the process group: "runs", "frozen", "gone"
  stream, window, tripped,   \* hashes sent, hashes seen, a trip is pending
  watcher,   \* "watch", "ask", "wait", "heard", "grace", "done"
  heard,     \* what Wait returned
  asked,     \* the newest request
  answer,    \* of each request; "expired": the waiter denied it itself
  late,      \* the deadline of the current wait has passed
  over       \* the run's context is done

ladderVars == <<watcher, heard, asked, answer, late>>
loopVars   == <<stream, window, tripped>>
budgetVars == <<ladder, agent, loopVars, ladderVars, over>>

Ask == 1..MaxAsks

BudgetTypeOK ==
  /\ ladder \in BOOLEAN /\ agent \in {"runs", "frozen", "gone"}
  /\ stream \in Seq(Hash) /\ Len(stream) <= StreamSize
  /\ window \in Seq(Hash) /\ Len(window) <= LoopWindow /\ tripped \in BOOLEAN
  /\ watcher \in {"watch", "ask", "wait", "heard", "grace", "done"}
  /\ heard \in {"none", "approved", "denied"} /\ asked \in 0..MaxAsks
  /\ answer \in [Ask -> {"none", "pending", "approved", "denied", "expired"}]
  /\ late \in BOOLEAN /\ over \in BOOLEAN

BudgetInit ==
  /\ ladder \in BOOLEAN /\ agent = "runs"
  /\ stream = <<>> /\ window = <<>> /\ tripped = FALSE
  /\ watcher = "watch" /\ heard = "none" /\ asked = 0
  /\ answer = [r \in Ask |-> "none"] /\ late = FALSE /\ over = FALSE

-----------------------------------------------------------------------------
(* The agent, the operator, and the end of the run.                        *)

\* A command passes the gate, whose observer never blocks: a full channel drops.
Command(h) ==
  /\ agent = "runs"
  /\ stream' = IF Len(stream) < StreamSize THEN Append(stream, h) ELSE stream
  /\ UNCHANGED <<ladder, agent, window, tripped, ladderVars, over>>

\* The process ends by itself, or by somebody else's signal.
AgentEnds ==
  /\ agent # "gone" /\ agent' = "gone"
  /\ UNCHANGED <<ladder, loopVars, ladderVars, over>>

\* The run's context is cancelled: the process has ended, or the arm command is
\* interrupted, which leaves the process alone.
RunEnds ==
  /\ ~over /\ over' = TRUE
  /\ UNCHANGED <<ladder, agent, loopVars, ladderVars>>

\* Registry.Resolve: the first answer to a request counts.
Answer(r, a) ==
  /\ answer[r] = "pending" /\ answer' = [answer EXCEPT ![r] = a]
  /\ UNCHANGED <<ladder, agent, loopVars, watcher, heard, asked, late, over>>

\* The deadline of one wait.
Deadline ==
  /\ watcher \in {"wait", "heard"} /\ ~late /\ asked < MaxAsks /\ late' = TRUE
  /\ UNCHANGED <<ladder, agent, loopVars, watcher, heard, asked, answer, over>>

-----------------------------------------------------------------------------
(* Watch.                                                                  *)

\* The ring of the last commands.
Slide(w, h) == IF Len(w) < LoopWindow THEN Append(w, h) ELSE Append(Tail(w), h)

Count(w, h) == Cardinality({i \in 1..Len(w) : w[i] = h})

ReadHash ==
  /\ watcher = "watch" /\ stream # <<>>
  /\ stream' = Tail(stream) /\ window' = Slide(window, Head(stream))
  /\ tripped' = (tripped \/ Count(window', Head(stream)) >= LoopN)
  /\ UNCHANGED <<ladder, agent, ladderVars, over>>

\* The signals reach a group that is still there.
Freeze == agent' = IF agent = "runs" THEN "frozen" ELSE agent
Thaw   == agent' = IF agent = "frozen" THEN "runs" ELSE agent

\* tripThreshold: the wall clock, or the loop.  The stop comes before the question.
Trip ==
  /\ watcher = "watch" /\ tripped' \in {tripped, FALSE}
  /\ \/ ~ladder /\ UNCHANGED <<agent, watcher>>
     \/ ladder /\ asked < MaxAsks /\ Freeze /\ watcher' = "ask"
  /\ UNCHANGED <<ladder, stream, window, heard, asked, answer, late, over>>

\* Watch sees that the run is over.
Ends ==
  /\ watcher = "watch" /\ over /\ watcher' = "done"
  /\ UNCHANGED <<ladder, agent, loopVars, heard, asked, answer, late, over>>

-----------------------------------------------------------------------------
(* The ladder.                                                             *)

OpenRequest ==
  /\ asked' = asked + 1
  /\ answer' = [answer EXCEPT ![asked'] = "pending"]
  /\ watcher' = "wait" /\ late' = FALSE /\ heard' = "none"

\* openApproveReq.
OpenApproveReq ==
  /\ watcher = "ask" /\ OpenRequest
  /\ UNCHANGED <<ladder, agent, loopVars, over>>

Verdict(r) == IF answer[r] = "approved" THEN "approved" ELSE "denied"

\* Mutant: at the deadline the answer is thrown away and a deny made up.
WaitReturnsDeny ==
  /\ watcher = "wait" /\ watcher' = "heard"
  /\ \/ answer[asked] # "pending" /\ ~late /\ heard' = Verdict(asked) /\ UNCHANGED answer
     \/ /\ late \/ over
        /\ heard' = "denied"
        /\ answer' = [answer EXCEPT ![asked] = IF @ = "pending" THEN "expired" ELSE @]
  /\ UNCHANGED <<ladder, agent, loopVars, asked, late, over>>

\* Wait returns an answer, or, once its context is done, denies itself.
WaitReturns ==
  /\ watcher = "wait" /\ watcher' = "heard"
  /\ \/ answer[asked] # "pending" /\ heard' = Verdict(asked) /\ UNCHANGED answer
     \/ /\ late \/ over
        /\ answer[asked] = "pending" /\ heard' = "denied"
        /\ answer' = [answer EXCEPT ![asked] = "expired"]
  /\ UNCHANGED <<ladder, agent, loopVars, asked, late, over>>

\* Mutant: the run's end is not looked for, and is taken for the operator's deny.
ActBlind ==
  /\ watcher = "heard"
  /\ \/ heard = "denied" /\ late /\ OpenRequest /\ UNCHANGED agent
     \/ heard = "approved" /\ Thaw /\ watcher' = "watch" /\ UNCHANGED <<heard, asked, answer, late>>
     \/ /\ heard = "denied" /\ ~late
        /\ watcher' = "grace" /\ UNCHANGED <<agent, heard, asked, answer, late>>
  /\ UNCHANGED <<ladder, loopVars, over>>

\* runLadder acts on what it heard: the run is over, and the safety net continues
\* the agent; a deadline has passed, and it asks again; a yes resumes, a no kills.
Act ==
  /\ watcher = "heard"
  /\ \/ /\ over \/ heard = "approved"
        /\ Thaw /\ watcher' = "watch" /\ UNCHANGED <<heard, asked, answer, late>>
     \/ ~over /\ heard = "denied" /\ late /\ OpenRequest /\ UNCHANGED agent
     \/ /\ ~over /\ heard = "denied" /\ ~late
        /\ watcher' = "grace" /\ UNCHANGED <<agent, heard, asked, answer, late>>
  /\ UNCHANGED <<ladder, loopVars, over>>

\* killLadder: SIGTERM stays pending in a frozen group; SIGKILL does not.
Kill ==
  /\ watcher = "grace" /\ watcher' = "watch" /\ agent' = "gone"
  /\ UNCHANGED <<ladder, loopVars, heard, asked, answer, late, over>>

-----------------------------------------------------------------------------
LadderStep == OpenApproveReq \/ WaitReturns \/ Act \/ Kill

BudgetNext ==
  \/ \E h \in Hash : Command(h)
  \/ AgentEnds \/ RunEnds \/ Deadline
  \/ \E r \in Ask, a \in {"approved", "denied"} : Answer(r, a)
  \/ ReadHash \/ Trip \/ Ends \/ LadderStep

\* The watcher's goroutine runs on, and Wait returns once its context is done.
BudgetFairness == WF_budgetVars(LadderStep)

BudgetSpec == BudgetInit /\ [][BudgetNext]_budgetVars /\ BudgetFairness

-----------------------------------------------------------------------------
(* Properties.                                                             *)

\* Never auto-decide (D-06, docs/agent-safety.md:98-104): a frozen agent is killed
\* only after the operator's no to the newest request, and resumed only after a yes
\* to it, or when the run is over - whatever deadlines pass on the way
\* (budget.go:452-486).
NeverDecidesAlone ==
  [][/\ watcher' = "grace" => answer[asked] = "denied"
     /\ agent = "frozen" /\ agent' = "runs" => over \/ answer[asked] = "approved"]_budgetVars

\* No freeze lasts: a yes that counts ends it, however it races the deadline, and a run
\* that is over leaves no agent frozen (budget.go:425-434, 455-479, registry.go:255-297).
Answered == watcher \in {"wait", "heard"} /\ asked > 0 /\ answer[asked] = "approved"
FreezeEnds == (Answered \/ over) ~> agent # "frozen"
=============================================================================
