------------------------------- MODULE Converge -------------------------------
(***************************************************************************)
(* `abysslink up --apply` (cli/cmd_up.go) and the runner of the modules    *)
(* (internal/modules): the modules are sorted by their dependencies,       *)
(* scanned, shown, and after the gates and the operator's consent planned  *)
(* again, applied and verified one by one.  Every step of a module may     *)
(* fail, the operator may leave, and the machine may change meanwhile.     *)
(***************************************************************************)
EXTENDS Integers, Sequences, SequencesExt, FiniteSets

CONSTANTS
  Module,      \* the modules
  Registry,    \* the order in which they were registered
  MaxDrift     \* bound: changes of the machine by others

ASSUME ConvergeAssumption ==
  /\ Registry \in Seq(Module) /\ ToSet(Registry) = Module /\ IsInjective(Registry)
  /\ MaxDrift \in Nat

VARIABLES
  deps,       \* the dependencies each module declares
  degree,     \* TopoSort's inDegree
  queue,      \* TopoSort's queue
  sorted,     \* the runner's order
  phase,      \* where the command is
  turn,       \* the module it is at, by its place in the order
  needs,      \* modules whose plan has actions now
  shown,      \* modules that had some when they were scanned
  applied,    \* history: modules applied
  failed,     \* modules whose plan or apply failed: firstApplyErr, and the findings
  gated,      \* history: the gates have passed and the operator has agreed
  outcome,    \* "none", "ok", "error", "aborted"
  drifts      \* history: changes of the machine by others

sortVars == <<degree, queue, sorted>>
upVars == <<deps, sortVars, phase, turn, needs, shown, applied, failed, gated, outcome, drifts>>

Phases == {"start", "sort", "scan", "gates", "confirm", "apply", "verify", "done"}

ConvergeTypeOK ==
  /\ deps \in [Module -> SUBSET Module] /\ degree \in [Module -> Nat]
  /\ queue \in Seq(Module) /\ sorted \in Seq(Module)
  /\ phase \in Phases /\ turn \in Nat
  /\ needs \subseteq Module /\ shown \subseteq Module /\ applied \subseteq Module
  /\ failed \subseteq Module /\ gated \in BOOLEAN /\ outcome \in {"none", "ok", "error", "aborted"}
  /\ drifts \in 0..MaxDrift

UpInit ==
  /\ deps \in [Module -> SUBSET Module] /\ needs \in SUBSET Module
  /\ degree = [m \in Module |-> 0] /\ queue = <<>> /\ sorted = <<>>
  /\ phase = "start" /\ turn = 1 /\ shown = {} /\ applied = {} /\ failed = {}
  /\ gated = FALSE /\ outcome = "none" /\ drifts = 0

-----------------------------------------------------------------------------
(* TopoSort: Kahn's algorithm.                                             *)

Finish(r) == phase' = "done" /\ outcome' = r

\* The modules of S in the order of their registration.
InOrder(S) ==
  {q \in [1..Cardinality(S) -> S] :
     /\ ToSet(q) = S
     /\ \A a, b \in DOMAIN q : a < b =>
          \E j, k \in DOMAIN Registry : j < k /\ Registry[j] = q[a] /\ Registry[k] = q[b]}

\* The degrees, and the queue of those without a dependency.
CountDegrees ==
  /\ phase = "start" /\ phase' = "sort"
  /\ degree' = [m \in Module |-> Cardinality(deps[m])]
  /\ queue' \in InOrder({m \in Module : deps[m] = {}})
  /\ UNCHANGED <<deps, sorted, turn, needs, shown, applied, failed, gated, outcome, drifts>>

\* Mutant: a dependent is queued with the first of its dependencies.
FreedAny(name) == {m \in Module : name \in deps[m] /\ degree[m] = Cardinality(deps[m])}

\* The dependents of name whose last open dependency it is.
Freed(name) == {m \in Module : name \in deps[m] /\ degree[m] = 1}

PopFront ==
  /\ phase = "sort" /\ queue # <<>>
  /\ sorted' = Append(sorted, Head(queue))
  /\ degree' = [m \in Module |-> IF Head(queue) \in deps[m] THEN degree[m] - 1 ELSE degree[m]]
  /\ \E q \in InOrder(Freed(Head(queue))) : queue' = Tail(queue) \o q
  /\ UNCHANGED <<deps, phase, turn, needs, shown, applied, failed, gated, outcome, drifts>>

\* NewRunner: without all modules in the order there is a cycle.
SortEnds ==
  /\ phase = "sort" /\ queue = <<>>
  /\ \/ Len(sorted) = Len(Registry) /\ phase' = "scan" /\ UNCHANGED outcome
     \/ Len(sorted) # Len(Registry) /\ Finish("error")
  /\ UNCHANGED <<deps, sortVars, turn, needs, shown, applied, failed, gated, drifts>>

-----------------------------------------------------------------------------
(* The command.                                                            *)

Visited == ToSet(SubSeq(sorted, 1, turn - 1))

\* PlanAll, one module: its Detect or Plan may fail, and ends the command.
ScanModule ==
  /\ phase = "scan" /\ turn <= Len(sorted)
  /\ \/ turn' = turn + 1 /\ shown' = shown \cup ({sorted[turn]} \cap needs) /\ UNCHANGED <<phase, outcome>>
     \/ Finish("error") /\ UNCHANGED <<turn, shown>>
  /\ UNCHANGED <<deps, sortVars, needs, applied, failed, gated, drifts>>

ScanEnds ==
  /\ phase = "scan" /\ turn > Len(sorted) /\ phase' = "gates"
  /\ UNCHANGED <<deps, sortVars, turn, needs, shown, applied, failed, gated, outcome, drifts>>

\* applyTimeGates, then ConfirmBlast.
Gates ==
  /\ phase = "gates"
  /\ \/ phase' = "confirm" /\ UNCHANGED outcome
     \/ Finish("error")
  /\ UNCHANGED <<deps, sortVars, turn, needs, shown, applied, failed, gated, drifts>>
Confirm ==
  /\ phase = "confirm"
  /\ \/ phase' = "apply" /\ gated' = TRUE /\ turn' = 1 /\ UNCHANGED outcome
     \/ Finish("aborted") /\ UNCHANGED <<turn, gated>>
  /\ UNCHANGED <<deps, sortVars, needs, shown, applied, failed, drifts>>

\* ApplyAll, one module: it is planned again, and applied if there is something to do.
\* A plan or an apply that fails is remembered, and the next module is tried.
ApplyModule ==
  /\ phase = "apply" /\ turn <= Len(sorted) /\ phase' = "verify"
  /\ \/ sorted[turn] \notin needs /\ UNCHANGED <<needs, applied, failed>>
     \/ sorted[turn] \in needs /\ applied' = applied \cup {sorted[turn]} /\ needs' = needs \ {sorted[turn]} /\ UNCHANGED failed
     \/ sorted[turn] \in needs /\ applied' = applied \cup {sorted[turn]} /\ failed' = failed \cup {sorted[turn]} /\ UNCHANGED needs
     \/ failed' = failed \cup {sorted[turn]} /\ UNCHANGED <<needs, applied>>
  /\ UNCHANGED <<deps, sortVars, turn, shown, gated, outcome, drifts>>

\* Its Verify: an error of this one ends the command.
VerifyModule ==
  /\ phase = "verify"
  /\ \/ turn' = turn + 1 /\ phase' = "apply" /\ UNCHANGED outcome
     \/ Finish("error") /\ UNCHANGED turn
  /\ UNCHANGED <<deps, sortVars, needs, shown, applied, failed, gated, drifts>>

ApplyEnds ==
  /\ phase = "apply" /\ turn > Len(sorted) /\ Finish(IF failed = {} THEN "ok" ELSE "error")
  /\ UNCHANGED <<deps, sortVars, turn, needs, shown, applied, failed, gated, drifts>>

\* The operator leaves the live table of the scan or of the apply, whose worker is
\* cancelled before its next module; the plain run is cancelled by its context.
Leave ==
  /\ phase \in {"scan", "apply", "verify"} /\ \E r \in {"aborted", "error"} : Finish(r)
  /\ UNCHANGED <<deps, sortVars, turn, needs, shown, applied, failed, gated, drifts>>

\* Others, or another module's apply, change what a module has to do.  The sort looks at
\* none of it.
Drift(m) ==
  /\ phase # "sort" /\ drifts < MaxDrift /\ drifts' = drifts + 1
  /\ needs' = IF m \in needs THEN needs \ {m} ELSE needs \cup {m}
  /\ UNCHANGED <<deps, sortVars, phase, turn, shown, applied, failed, gated, outcome>>

UpNext ==
  \/ CountDegrees \/ PopFront \/ SortEnds \/ ScanModule \/ ScanEnds \/ Gates \/ Confirm
  \/ ApplyModule \/ VerifyModule \/ ApplyEnds \/ Leave
  \/ \E m \in Module : Drift(m)

UpSpec == UpInit /\ [][UpNext]_upVars

-----------------------------------------------------------------------------
(* Properties.                                                             *)

\* An up that reports success has been to every module and none failed; if nobody else
\* touched the machine, every module is then as planned, and nothing was applied that the
\* preview did not show.  Each module comes after those it depends on, for every graph of
\* dependencies, a cycle applies nothing, and nothing is applied without the gates and the
\* operator's consent (registry.go:55-114, runner.go:245-320, cmd_up.go:83-144).
Cyclic == \E c \in SUBSET Module : c # {} /\ \A m \in c : deps[m] \cap c # {}
UpHonest ==
  /\ outcome = "ok" => Visited = Module /\ failed = {}
  /\ drifts = 0 => applied \subseteq shown /\ (outcome = "ok" => needs = {})
  /\ applied # {} => gated /\ ~Cyclic
  /\ \A k \in DOMAIN sorted : deps[sorted[k]] \subseteq ToSet(SubSeq(sorted, 1, k - 1))
=============================================================================
