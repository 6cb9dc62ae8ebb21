------------------------------ MODULE Session -------------------------------
(***************************************************************************)
(* The tmux session registry of the daemon (internal/session): a supervisor*)
(* that attaches to tmux in control mode, polls the panes when tmux says   *)
(* they changed and attaches again, under a new epoch, when the stream     *)
(* ends; and the heuristic, a goroutine of each attach, that polls too,    *)
(* captures every pane and raises or clears needs_input.  Each lock section*)
(* is one step; a poll's answer is synced later than tmux gave it.         *)
(*                                                                         *)
(* tmux is the environment: one server with one session, whose panes show a*)
(* screen, and which clients attach to and leave.  Time is abstract: a pane*)
(* may be found idle any time after its window was restarted.  Backoff is  *)
(* only a delay and left out.                                              *)
(***************************************************************************)
EXTENDS Integers, FiniteSets

CONSTANTS
  Pane,
  Exempt,      \* panes on the alternate screen or in an ignored session
  Screen,      \* what a pane can show
  Prompts,     \* the screens that end like a prompt
  None,        \* no pane, no record, no hash
  MaxClients,
  EventsDepth, \* of the events channel (64)
  MaxFaults    \* bound on tmux commands that fail

ASSUME SessionAssumption ==
  /\ IsFiniteSet(Pane) /\ Exempt \subseteq Pane /\ Prompts \subseteq Screen /\ None \notin Screen
  /\ MaxClients \in Nat /\ EventsDepth \in Nat \ {0} /\ MaxFaults \in Nat

VARIABLES
  server, shown, clients,          \* tmux: running, each pane's screen, attached clients
  stream,                          \* the control client: "none", "open", "ended"
  pending,                         \* a structural notification awaits its re-poll
  sup, seen, lost, baselined,      \* Run: its step, the listing, the panes lost
  heur, listing, todo, cap, stop,  \* the heuristic, its listing, panes, capture; hcancel
  status, rec, idle,               \* the registry
  events, faults,                  \* events in the channel
  said,                            \* history: the last edge of each record delivered
  missed,                          \* history: panes whose last edge was dropped
  lostTold                         \* history: RestartLost of a pane since it was set,
                                   \* but those that left its old record (up to 2)

tmuxVars == <<server, shown, clients>>
supVars  == <<sup, seen, lost, baselined>>
heurVars == <<heur, listing, todo, cap>>
regVars  == <<status, rec, idle>>
tellVars == <<events, said, missed, lostTold>>
vars == <<tmuxVars, stream, pending, supVars, heurVars, stop, regVars, tellVars, faults>>

\* Of its epoch a record keeps whether it is the present one.
Record  == [current : BOOLEAN, needs : BOOLEAN, hash : Screen \cup {None},
            attached : 0..MaxClients]
Listing == [panes : SUBSET Pane, attached : 0..MaxClients]

NoListing == [panes |-> {}, attached |-> 0]

TypeOK ==
  /\ server \in BOOLEAN /\ shown \in [Pane -> Screen \cup {None}] /\ clients \in 0..MaxClients
  /\ stream \in {"none", "open", "ended"} /\ pending \in BOOLEAN
  /\ sup \in {"gate", "attach", "await", "poll", "tell", "live", "sync", "close"}
  /\ seen \in Listing /\ lost \subseteq Pane /\ baselined \in BOOLEAN
  /\ heur \in {"off", "list", "sync", "pick", "compare", "clear", "set"}
  /\ listing \in Listing /\ todo \subseteq Pane /\ cap \in (Pane \X Screen) \cup {None}
  /\ stop \in BOOLEAN
  /\ status \in {"ok", "unavailable", "unsupported"}
  /\ rec \in [Pane -> Record \cup {None}] /\ idle \subseteq Pane
  /\ events \in 0..EventsDepth /\ faults \in 0..MaxFaults
  /\ said \in [Pane -> {"nothing", "needs", "cleared"}] /\ missed \subseteq Pane
  /\ lostTold \in [Pane -> 0..2]

Init ==
  /\ server = FALSE /\ shown = [p \in Pane |-> None] /\ clients = 0
  /\ stream = "none" /\ pending = FALSE
  /\ sup = "gate" /\ seen = NoListing /\ lost = {} /\ baselined = FALSE
  /\ heur = "off" /\ listing = NoListing /\ todo = {} /\ cap = None /\ stop = FALSE
  /\ status = "unavailable" /\ rec = [p \in Pane |-> None] /\ idle = {}
  /\ events = 0 /\ faults = 0
  /\ said = [p \in Pane |-> "nothing"] /\ missed = {} /\ lostTold = [p \in Pane |-> 0]

-----------------------------------------------------------------------------
(* tmux.  A change of its structure is notified on an open stream.         *)

Notified == pending' = (pending \/ (stream = "open" /\ sup \notin {"attach", "await"}))

UnchangedByTmux == UNCHANGED <<supVars, heurVars, stop, regVars, tellVars, faults>>

ServerUp ==
  /\ ~server /\ server' = TRUE
  /\ \E P \in (SUBSET Pane) \ {{}}, s \in Screen :
       shown' = [p \in Pane |-> IF p \in P THEN s ELSE None]
  /\ clients' = 0 /\ UNCHANGED <<stream, pending>> /\ UnchangedByTmux

ServerDies ==
  /\ server /\ server' = FALSE
  /\ shown' = [p \in Pane |-> None] /\ clients' = 0
  /\ stream' = IF stream = "open" THEN "ended" ELSE stream
  /\ UNCHANGED pending /\ UnchangedByTmux

\* The control client is detached, and the server goes on.
Detach ==
  /\ stream = "open" /\ stream' = "ended"
  /\ UNCHANGED <<tmuxVars, pending>> /\ UnchangedByTmux

Output(p) ==
  /\ server /\ shown[p] # None
  /\ \E s \in Screen \ {shown[p]} : shown' = [shown EXCEPT ![p] = s]
  /\ UNCHANGED <<server, clients, stream, pending>> /\ UnchangedByTmux

PaneOpens(p) ==
  /\ server /\ shown[p] = None
  /\ \E s \in Screen : shown' = [shown EXCEPT ![p] = s]
  /\ Notified /\ UNCHANGED <<server, clients, stream>> /\ UnchangedByTmux

PaneCloses(p) ==
  /\ server /\ shown[p] # None /\ shown' = [shown EXCEPT ![p] = None]
  /\ Notified /\ UNCHANGED <<server, clients, stream>> /\ UnchangedByTmux

ClientAttaches ==
  /\ server /\ clients < MaxClients /\ clients' = clients + 1
  /\ Notified /\ UNCHANGED <<server, shown, stream>> /\ UnchangedByTmux

ClientLeaves ==
  /\ clients > 0 /\ clients' = clients - 1
  /\ Notified /\ UNCHANGED <<server, shown, stream>> /\ UnchangedByTmux

\* The idle window of a captured pane is over.
IdleOver(p) ==
  /\ p \notin idle /\ rec[p] # None /\ rec[p].hash # None /\ idle' = idle \cup {p}
  /\ UNCHANGED <<tmuxVars, stream, pending, supVars, heurVars, stop, status, rec,
                 tellVars, faults>>

\* A tmux command fails: it could not run, or timed out.
Fault == faults < MaxFaults /\ faults' = faults + 1

ListPanes == [panes |-> {p \in Pane : shown[p] # None}, attached |-> clients]

-----------------------------------------------------------------------------
(* The registry, under its mutex.                                          *)

\* The first poll of an attach has done away with a pane's old record.
Replaced(p) == rec[p] = None \/ (rec[p] # None /\ rec[p].current)

\* Mutant: a send on the channel is never refused.
EmitUnbounded(type, P, kept) ==
  /\ events' = events + Cardinality(P)
  /\ said' = [p \in Pane |-> IF p \in P /\ type # "lost" THEN type
                            ELSE IF p \in kept THEN said[p] ELSE "nothing"]
  /\ missed' = {} /\ UNCHANGED lostTold

\* emit, for one event of each of the panes P: any of them is dropped once the
\* channel is full.  History starts afresh for the records that are not kept.
Emit(type, P, kept) ==
  \E sent \in SUBSET P :
    /\ Cardinality(sent) = (IF Cardinality(P) <= EventsDepth - events THEN Cardinality(P)
                            ELSE EventsDepth - events)
    /\ events' = events + Cardinality(sent)
    /\ LET edges   == IF type = "lost" THEN {} ELSE sent
           dropped == IF type = "lost" THEN {} ELSE P \ sent
       IN /\ said' = [p \in Pane |-> IF p \in edges THEN type
                                     ELSE IF p \in kept THEN said[p] ELSE "nothing"]
          /\ missed' = ((missed \cap kept) \ edges) \cup dropped
    /\ lostTold' = [p \in Pane |->
         IF p \in P /\ type = "needs" THEN 0
         ELSE IF p \in sent /\ type = "lost" /\ Replaced(p) /\ lostTold[p] < 2 THEN lostTold[p] + 1
         ELSE lostTold[p]]

\* setNeedsInput, clearNeedsInput: edges only.
SetNeedsInput(p) ==
  IF rec[p] = None \/ (rec[p] # None /\ rec[p].needs)
  THEN UNCHANGED <<rec, tellVars>>
  ELSE /\ rec' = [rec EXCEPT ![p].needs = TRUE]
       /\ Emit("needs", {p}, Pane)

ClearNeedsInput(p) ==
  IF rec[p] = None \/ (rec[p] # None /\ ~rec[p].needs)
  THEN UNCHANGED <<rec, tellVars>>
  ELSE /\ rec' = [rec EXCEPT ![p].needs = FALSE]
       /\ Emit("cleared", {p}, Pane)

Fresh(l) == [current |-> TRUE, needs |-> FALSE, hash |-> None, attached |-> l.attached]

\* A record survives a sync within its epoch only.
Survives(p) == rec[p] # None /\ rec[p].current

\* Mutant: the attach clears without a word.
SyncPanesSilently(l) ==
  /\ rec' = [p \in Pane |->
       IF p \notin l.panes THEN None
       ELSE IF ~Survives(p) THEN Fresh(l)
       ELSE [rec[p] EXCEPT !.attached = l.attached, !.needs = @ /\ l.attached <= rec[p].attached]]
  /\ UNCHANGED idle
  /\ Emit("cleared", {}, {p \in l.panes : Survives(p)})

\* syncPanes: the listing replaces the records; a session whose clients have
\* become more clears its panes.
SyncPanes(l) ==
  LET cleared == {p \in l.panes :
                    Survives(p) /\ rec[p].needs /\ l.attached > rec[p].attached}
  IN /\ rec' = [p \in Pane |->
          IF p \notin l.panes THEN None
          ELSE IF ~Survives(p) THEN Fresh(l)
          ELSE [rec[p] EXCEPT !.attached = l.attached, !.needs = @ /\ p \notin cleared]]
     /\ idle' = {p \in idle \ cleared : p \in l.panes /\ Survives(p)}
     /\ Emit("cleared", cleared, {p \in l.panes : Survives(p)})

-----------------------------------------------------------------------------
(* Run.                                                                    *)

UnchangedBySup == UNCHANGED <<tmuxVars, heurVars, tellVars>>

\* versionGate: no usable tmux leaves a status that says so.
VersionGate ==
  /\ sup = "gate"
  /\ \/ sup' = "attach" /\ UNCHANGED <<status, faults>>
     \/ /\ Fault /\ sup' = "gate"
        /\ status' \in {"unavailable", "unsupported"}
  /\ UNCHANGED <<stream, pending, seen, lost, baselined, stop, rec, idle>>
  /\ UnchangedBySup

\* RunStream: the control client starts, and is over at once without a server.
Attach ==
  /\ sup = "attach" /\ sup' = "await"
  /\ stream' = IF server THEN "open" ELSE "ended"
  /\ pending' = FALSE
  /\ UNCHANGED <<seen, lost, baselined, stop, regVars, faults>> /\ UnchangedBySup

\* awaitAttach: the stream ends before the greeting.
NoGreeting ==
  /\ sup = "await" /\ stream = "ended"
  /\ sup' = "gate" /\ stream' = "none" /\ status' = "unavailable"
  /\ UNCHANGED <<pending, seen, lost, baselined, stop, rec, idle, faults>>
  /\ UnchangedBySup

\* bumpEpoch: the records there are belong to the old epoch from now on.
BumpEpoch ==
  rec' = [p \in Pane |-> IF rec[p] = None THEN None ELSE [rec[p] EXCEPT !.current = FALSE]]

\* Mutant: a client that has started counts as attached.
GreetingUnproven ==
  /\ sup = "await" /\ stream # "none"
  /\ lost' = {} /\ BumpEpoch /\ status' = "ok" /\ sup' = "poll"
  /\ UNCHANGED <<stream, pending, seen, baselined, stop, idle, faults>> /\ UnchangedBySup

LostNeedsInput == {p \in Pane : rec[p] # None /\ rec[p].needs}

\* The greeting: lostNeedsInput, bumpEpoch, setStatus; Run is alone by now.
Greeting ==
  /\ sup = "await" /\ stream = "open"
  /\ lost' = LostNeedsInput
  /\ BumpEpoch /\ status' = "ok" /\ sup' = "poll"
  /\ UNCHANGED <<stream, pending, seen, baselined, stop, idle, faults>> /\ UnchangedBySup

\* The first poll of the epoch, when nobody else changes the registry.
FirstPoll ==
  /\ sup = "poll" /\ sup' = "tell"
  /\ \/ server /\ SyncPanes(ListPanes) /\ UNCHANGED faults
     \/ /\ IF server THEN Fault ELSE UNCHANGED faults
        /\ UNCHANGED <<rec, idle, tellVars>>
  /\ UNCHANGED <<tmuxVars, stream, pending, seen, lost, baselined, heurVars, stop, status>>

\* RestartLost for the panes that waited, but at the first attach; then the
\* heuristic starts.
TellLost ==
  /\ sup = "tell" /\ sup' = "live"
  /\ IF baselined THEN Emit("lost", lost, Pane) ELSE UNCHANGED tellVars
  /\ lost' = {} /\ baselined' = TRUE /\ heur' = "list" /\ stop' = FALSE
  /\ UNCHANGED <<tmuxVars, stream, pending, seen, listing, todo, cap, regVars, faults>>

\* consume: the debounced poll lists the panes,
RePoll ==
  /\ sup = "live" /\ pending /\ pending' = FALSE
  /\ \/ server /\ seen' = ListPanes /\ sup' = "sync" /\ UNCHANGED faults
     \/ /\ IF server THEN Fault ELSE UNCHANGED faults
        /\ UNCHANGED <<seen, sup>>
  /\ UNCHANGED <<stream, lost, baselined, stop, regVars>> /\ UnchangedBySup

\* and syncs them.
RePollSync ==
  /\ sup = "sync" /\ sup' = "live"
  /\ SyncPanes(seen) /\ seen' = NoListing
  /\ UNCHANGED <<tmuxVars, stream, pending, lost, baselined, heurVars, stop, status, faults>>

\* The stream ended: the heuristic is cancelled,
StreamEnds ==
  /\ sup = "live" /\ stream = "ended" /\ ~stop
  /\ sup' = "close" /\ stop' = TRUE
  /\ UNCHANGED <<stream, pending, seen, lost, baselined, regVars, faults>> /\ UnchangedBySup

\* and waited for; then the status says so.
Close ==
  /\ sup = "close" /\ heur = "off"
  /\ sup' = "gate" /\ stream' = "none" /\ pending' = FALSE /\ status' = "unavailable"
  /\ UNCHANGED <<seen, lost, baselined, stop, rec, idle, faults>> /\ UnchangedBySup

-----------------------------------------------------------------------------
(* runHeuristic.                                                           *)

UnchangedByHeur ==
  UNCHANGED <<tmuxVars, stream, pending, supVars, stop, status>>

\* Between ticks, and when a cancelled command has failed, it looks at its context.
HeuristicStops ==
  /\ heur \in {"list", "pick"} /\ stop
  /\ heur' = "off" /\ todo' = {} /\ cap' = None /\ listing' = NoListing
  /\ UNCHANGED <<rec, idle, tellVars, faults>> /\ UnchangedByHeur

\* pollTick: the poll, or none when it fails,
TickList ==
  /\ heur = "list" /\ ~stop
  /\ \/ server /\ listing' = ListPanes /\ heur' = "sync" /\ UNCHANGED <<todo, faults>>
     \/ /\ IF server THEN Fault ELSE UNCHANGED faults
        /\ heur' = "pick" /\ todo' = {p \in Pane \ Exempt : rec[p] # None}
        /\ UNCHANGED listing
  /\ UNCHANGED <<cap, rec, idle, tellVars>> /\ UnchangedByHeur

\* its sync, and the candidates
TickSync ==
  /\ heur = "sync" /\ heur' = "pick"
  /\ SyncPanes(listing) /\ listing' = NoListing
  /\ todo' = {p \in Pane \ Exempt : rec'[p] # None}
  /\ UNCHANGED <<cap, faults>> /\ UnchangedByHeur

\* evalPane: the next pane is captured, or passed over,
Capture(p) ==
  /\ heur = "pick" /\ ~stop /\ p \in todo /\ todo' = todo \ {p}
  /\ \/ shown[p] # None /\ cap' = <<p, shown[p]>> /\ heur' = "compare" /\ UNCHANGED faults
     \/ /\ IF shown[p] # None THEN Fault ELSE UNCHANGED faults
        /\ UNCHANGED <<cap, heur>>
  /\ UNCHANGED <<listing, rec, idle, tellVars>> /\ UnchangedByHeur

TickEnds ==
  /\ heur = "pick" /\ todo = {} /\ heur' = "list"
  /\ UNCHANGED <<listing, todo, cap, rec, idle, tellVars, faults>> /\ UnchangedByHeur

\* Mutant of Compare: the hash is not kept.
CompareForgets ==
  /\ heur = "compare" /\ cap' = cap
  /\ heur' = "clear" /\ idle' = idle \ {cap[1]}
  /\ UNCHANGED <<rec, listing, todo, tellVars, faults>> /\ UnchangedByHeur

\* compared with the last hash under the lock,
Compare ==
  /\ heur = "compare"
  /\ LET p == cap[1]
         s == cap[2]
     IN \/ /\ rec[p] = None /\ heur' = "pick" /\ cap' = None
           /\ UNCHANGED <<rec, idle>>
        \/ /\ rec[p] # None /\ rec[p].hash # s
           /\ rec' = [rec EXCEPT ![p].hash = s] /\ idle' = idle \ {p}
           /\ heur' = "clear" /\ UNCHANGED cap
        \/ /\ rec[p] # None /\ rec[p].hash = s
           /\ heur' = IF p \in idle /\ s \in Prompts THEN "set" ELSE "pick"
           /\ cap' = IF heur' = "set" THEN cap ELSE None
           /\ UNCHANGED <<rec, idle>>
  /\ UNCHANGED <<listing, todo, tellVars, faults>> /\ UnchangedByHeur

\* and, in a section of its own, cleared or set.
Mark ==
  /\ heur \in {"clear", "set"} /\ heur' = "pick" /\ cap' = None
  /\ IF heur = "set" THEN SetNeedsInput(cap[1]) ELSE ClearNeedsInput(cap[1])
  /\ UNCHANGED <<listing, todo, idle, faults>> /\ UnchangedByHeur

-----------------------------------------------------------------------------
\* ConsumeTransitions takes the next event.
Bridge ==
  /\ events > 0 /\ events' = events - 1
  /\ UNCHANGED <<tmuxVars, stream, pending, supVars, heurVars, stop, regVars, said, missed,
                 lostTold, faults>>

SupStep ==
  \/ VersionGate \/ Attach \/ NoGreeting \/ Greeting \/ FirstPoll \/ TellLost
  \/ RePoll \/ RePollSync \/ StreamEnds \/ Close

HeurStep ==
  \/ HeuristicStops \/ TickList \/ TickSync \/ TickEnds \/ Compare \/ Mark
  \/ \E p \in Pane : Capture(p)

TmuxStep ==
  \/ ServerUp \/ ServerDies \/ Detach \/ ClientAttaches \/ ClientLeaves
  \/ \E p \in Pane : Output(p) \/ PaneOpens(p) \/ PaneCloses(p)

Next == TmuxStep \/ SupStep \/ HeurStep \/ Bridge \/ \E p \in Pane : IdleOver(p)

Spec == Init /\ [][Next]_vars

\* The daemon's goroutines run and time passes; of tmux nothing is assumed.
Fairness ==
  /\ WF_vars(SupStep) /\ WF_vars(HeurStep) /\ WF_vars(Bridge)
  /\ \A p \in Pane : WF_vars(IdleOver(p))

FairSpec == Spec /\ Fairness

-----------------------------------------------------------------------------
(* Properties.                                                             *)

\* A consumer that goes by the last event is never wedged: what it last heard of
\* a pane is what the registry holds, whichever of the two pollers and the
\* heuristic changed it - unless that very event was dropped - and a pane that was
\* reported waiting is reported lost once only; again after an attach whose first
\* poll failed and left the old record (registry.go:201-222, supervisor.go:150-167).
\* And a screen that has changed clears the pane: no record waits under the hash of a
\* screen that asks for nothing, but between the two lock sections of evalPane
\* (heuristic.go:222-247).
LastEdgeHolds ==
  \A p \in Pane :
    /\ rec[p] # None /\ p \notin missed => (rec[p].needs <=> said[p] = "needs")
    /\ lostTold[p] <= 1
    /\ rec[p] # None /\ rec[p].needs /\ ~ (heur = "clear" /\ cap[1] = p)
        => rec[p].hash \notin Screen \ Prompts

\* When tmux is gone for good the status says so for good: "ok" is claimed of an
\* attach that tmux has answered only (supervisor.go:106-186).
DegradesHonestly == <>[]~server => <>[](status # "ok")

\* A pane left at a prompt is found: with tmux up, the attach unbroken and nobody
\* attaching, it needs input in the end (heuristic.go:130-247).
Quiet(p) == server /\ stream = "open" /\ shown[p] \in Prompts /\ p \notin Exempt /\ clients = 0
PromptNoticed == \A p \in Pane : <>[]Quiet(p) => <>[](rec[p] # None /\ rec[p].needs)
=============================================================================
