--------------------------- MODULE Session_proof ---------------------------
(***************************************************************************)
(* What a consumer of the session registry's events last heard is what the *)
(* registry holds, for any number of panes, screens, clients and faults.   *)
(***************************************************************************)
EXTENDS Session, FiniteSetTheorems, TLAPS

\* What was last told of a pane is what its record says, unless the telling was dropped.
EdgeTold == \A p \in Pane : rec[p] # None /\ p \notin missed => (rec[p].needs <=> said[p] = "needs")

\* A pane that waits has not been told lost since it was set; nor has one that is about
\* to be.  In the first poll of an attach no record is present but those it makes, and
\* nobody else is at work.
LossInv ==
  /\ \A p \in Pane : lostTold[p] <= 1 /\ (rec[p] # None /\ rec[p].needs => lostTold[p] = 0)
  /\ \A p \in lost : lostTold[p] = 0
  /\ sup = "poll" => \A p \in Pane : rec[p] # None => ~rec[p].current
  /\ sup = "tell" => \A p \in Pane : rec[p] # None /\ rec[p].current => ~rec[p].needs
  /\ sup \notin {"live", "sync", "close"} => heur = "off"

\* The screen last seen of the pane is one that asks, or there is none.
Asks(p) == rec[p] # None => rec[p].hash \notin Screen \ Prompts

\* A pane waits under a screen that asks, but while the heuristic is about to clear it;
\* and the one it is about to set shows such a screen, whatever was synced meanwhile.
ScreenInv ==
  /\ heur \in {"compare", "clear", "set"} => cap \in Pane \X Screen
  /\ heur = "set" => Asks(cap[1])
  /\ \A p \in Pane : rec[p] # None /\ rec[p].needs /\ ~ (heur = "clear" /\ cap[1] = p) => Asks(p)

IInv == TypeOK /\ EdgeTold /\ LossInv /\ ScreenInv

-----------------------------------------------------------------------------
(* What the registry's operators do.                                       *)

\* Sending the events of some panes keeps the channel within its depth, and the edges
\* that were dropped are known.
LEMMA EmitTyping ==
  ASSUME SessionAssumption, TypeOK, NEW type \in {"needs", "cleared", "lost"},
         NEW P \in SUBSET Pane, NEW kept \in SUBSET Pane, Emit(type, P, kept)
  PROVE  /\ events' \in 0..EventsDepth
         /\ said' \in [Pane -> {"nothing", "needs", "cleared"}]
         /\ missed' \subseteq Pane
         /\ lostTold' \in [Pane -> 0..2]
<1> USE DEF TypeOK
<1>1. PICK sent \in SUBSET P :
        /\ Cardinality(sent) = (IF Cardinality(P) <= EventsDepth - events THEN Cardinality(P)
                                ELSE EventsDepth - events)
        /\ events' = events + Cardinality(sent)
        /\ said' = [p \in Pane |-> IF p \in (IF type = "lost" THEN {} ELSE sent) THEN type
                                   ELSE IF p \in kept THEN said[p] ELSE "nothing"]
        /\ missed' = ((missed \cap kept) \ (IF type = "lost" THEN {} ELSE sent))
                     \cup (IF type = "lost" THEN {} ELSE P \ sent)
        /\ lostTold' = [p \in Pane |->
             IF p \in P /\ type = "needs" THEN 0
             ELSE IF p \in sent /\ type = "lost" /\ Replaced(p) /\ lostTold[p] < 2
                  THEN lostTold[p] + 1 ELSE lostTold[p]]
  BY DEF Emit
<1>2. events' \in 0..EventsDepth
  <2>1. IsFiniteSet(P) /\ IsFiniteSet(sent)
    BY FS_Subset DEF SessionAssumption
  <2>2. Cardinality(P) \in Nat /\ Cardinality(sent) \in Nat
    BY <2>1, FS_CardinalityType
  <2>3. events \in 0..EventsDepth /\ EventsDepth \in Nat
    BY DEF SessionAssumption
  <2> QED
    BY <1>1, <2>2, <2>3
<1>3. said' \in [Pane -> {"nothing", "needs", "cleared"}]
  <2>1. \A p \in Pane : said[p] \in {"nothing", "needs", "cleared"}
    OBVIOUS
  <2>2. ASSUME NEW p \in Pane
        PROVE  (IF p \in (IF type = "lost" THEN {} ELSE sent) THEN type
                ELSE IF p \in kept THEN said[p] ELSE "nothing") \in {"nothing", "needs", "cleared"}
    BY <2>1
  <2> QED
    BY <1>1, <2>2
<1>4. missed' \subseteq Pane
  BY <1>1
<1>5. lostTold' \in [Pane -> 0..2]
  <2>1. \A p \in Pane : lostTold[p] \in 0..2
    OBVIOUS
  <2>2. ASSUME NEW p \in Pane
        PROVE  (IF p \in P /\ type = "needs" THEN 0
                ELSE IF p \in sent /\ type = "lost" /\ Replaced(p) /\ lostTold[p] < 2
                     THEN lostTold[p] + 1 ELSE lostTold[p]) \in 0..2
    BY <2>1
  <2> QED
    BY <1>1, <2>2
<1> QED
  BY <1>2, <1>3, <1>4, <1>5

\* An edge is told or known to be dropped; the panes it is not about keep what was told
\* of them if their records are kept, and otherwise nothing has been.
LEMMA EdgeSent ==
  ASSUME TypeOK, NEW type \in {"needs", "cleared"},
         NEW kept \in SUBSET Pane, NEW P \in SUBSET kept, Emit(type, P, kept)
  PROVE  /\ \A p \in P : said'[p] = type \/ p \in missed'
         /\ \A p \in kept \ P : said'[p] = said[p] /\ (p \in missed' <=> p \in missed)
         /\ \A p \in Pane \ kept : said'[p] = "nothing"
         /\ \A p \in P : type = "needs" => lostTold'[p] = 0
         /\ \A p \in Pane : p \notin P \/ type # "needs" => lostTold'[p] = lostTold[p]
BY DEF Emit, TypeOK

\* Telling the lost panes is no edge, and counts for a pane whose old record is gone.
LEMMA LossSent ==
  ASSUME TypeOK, NEW P \in SUBSET Pane, Emit("lost", P, Pane)
  PROVE  /\ \A p \in Pane : said'[p] = said[p]
         /\ missed' = missed
         /\ \A p \in Pane :
              lostTold'[p] = lostTold[p]
              \/ (p \in P /\ Replaced(p) /\ lostTold'[p] = lostTold[p] + 1)
<1>1. missed \subseteq Pane
  BY DEF TypeOK
<1>2. \A p \in Pane : said'[p] = said[p]
  BY DEF Emit
<1>3. missed' = missed
  BY <1>1 DEF Emit
<1>4. ASSUME NEW p \in Pane
      PROVE  lostTold'[p] = lostTold[p] \/ (p \in P /\ Replaced(p) /\ lostTold'[p] = lostTold[p] + 1)
  <2>1. PICK sent \in SUBSET P :
          lostTold' = [q \in Pane |->
            IF q \in P /\ "lost" = "needs" THEN 0
            ELSE IF q \in sent /\ "lost" = "lost" /\ Replaced(q) /\ lostTold[q] < 2
                 THEN lostTold[q] + 1 ELSE lostTold[q]]
    BY DEF Emit
  <2>2. lostTold'[p] = IF p \in sent /\ Replaced(p) /\ lostTold[p] < 2
                       THEN lostTold[p] + 1 ELSE lostTold[p]
    BY <2>1
  <2>3. CASE p \in sent /\ Replaced(p) /\ lostTold[p] < 2
    BY <2>1, <2>2, <2>3
  <2>4. CASE ~ (p \in sent /\ Replaced(p) /\ lostTold[p] < 2)
    BY <2>2, <2>4
  <2> QED
    BY <2>3, <2>4
<1> QED
  BY <1>2, <1>3, <1>4

\* The records a listing leaves: typed; a pane that still waits did before, within the
\* epoch and under the same screen, and a fresh record waits for nothing.
LEMMA SyncedRecords ==
  ASSUME SessionAssumption, TypeOK, NEW l \in Listing, SyncPanes(l)
  PROVE  /\ rec' \in [Pane -> Record \cup {None}] /\ idle' \subseteq Pane
         /\ events' \in 0..EventsDepth
         /\ said' \in [Pane -> {"nothing", "needs", "cleared"}]
         /\ missed' \subseteq Pane
         /\ lostTold' \in [Pane -> 0..2]
         /\ \A p \in Pane : lostTold'[p] = lostTold[p]
         /\ \A p \in Pane : rec'[p] # None =>
              \/ ~rec'[p].needs /\ rec'[p].hash = None
              \/ /\ rec[p] # None /\ rec[p].current /\ rec'[p].hash = rec[p].hash
                 /\ rec'[p].needs => rec[p].needs
         /\ EdgeTold => EdgeTold'
<1> DEFINE cleared == {p \in l.panes : Survives(p) /\ rec[p].needs /\ l.attached > rec[p].attached}
           kept == {p \in l.panes : Survives(p)}
<1>1. /\ rec' = [p \in Pane |->
           IF p \notin l.panes THEN None
           ELSE IF ~Survives(p) THEN Fresh(l)
           ELSE [rec[p] EXCEPT !.attached = l.attached, !.needs = @ /\ p \notin cleared]]
      /\ idle' = {p \in idle \ cleared : p \in l.panes /\ Survives(p)}
      /\ Emit("cleared", cleared, kept)
  BY Zenon DEF SyncPanes
<1>2. cleared \in SUBSET Pane /\ kept \in SUBSET Pane /\ cleared \subseteq kept
  BY DEF Listing
<1>3. \A p \in cleared : rec[p] # None /\ rec[p].needs
  BY DEF Survives
<1> HIDE DEF cleared, kept
<1>4. /\ events' \in 0..EventsDepth
      /\ said' \in [Pane -> {"nothing", "needs", "cleared"}]
      /\ missed' \subseteq Pane
      /\ lostTold' \in [Pane -> 0..2]
  BY <1>1, <1>2, EmitTyping
<1>5. /\ \A p \in cleared : said'[p] = "cleared" \/ p \in missed'
      /\ \A p \in kept \ cleared : said'[p] = said[p] /\ (p \in missed' <=> p \in missed)
      /\ \A p \in Pane \ kept : said'[p] = "nothing"
      /\ \A p \in Pane : lostTold'[p] = lostTold[p]
  <2>1. kept \in SUBSET Pane /\ cleared \in SUBSET kept
    BY <1>2
  <2>2. Emit("cleared", cleared, kept)
    BY <1>1
  <2>3. "cleared" \in {"needs", "cleared"} /\ "cleared" # "needs"
    OBVIOUS
  <2>4. /\ \A p \in cleared : said'[p] = "cleared" \/ p \in missed'
        /\ \A p \in kept \ cleared : said'[p] = said[p] /\ (p \in missed' <=> p \in missed)
        /\ \A p \in Pane \ kept : said'[p] = "nothing"
        /\ \A p \in Pane : p \notin cleared \/ "cleared" # "needs" => lostTold'[p] = lostTold[p]
    BY <2>1, <2>2, <2>3, EdgeSent
  <2> QED
    BY <2>3, <2>4
<1>6. ASSUME NEW p \in Pane
      PROVE  /\ rec'[p] \in Record \cup {None}
             /\ \/ rec'[p] = None
                \/ p \notin kept /\ ~rec'[p].needs /\ rec'[p].hash = None
                \/ /\ p \in kept /\ rec[p] # None /\ rec[p].current /\ rec'[p].hash = rec[p].hash
                   /\ rec'[p].needs = (rec[p].needs /\ p \notin cleared)
  <2>1. l.attached \in 0..MaxClients
    BY DEF Listing
  <2>2. CASE p \notin l.panes
    BY <1>1, <2>2
  <2>3. CASE p \in l.panes /\ ~Survives(p)
    <3>1. rec'[p] = Fresh(l)
      BY <1>1, <2>3
    <3>2. Fresh(l) \in Record /\ ~Fresh(l).needs /\ Fresh(l).hash = None
      BY <2>1 DEF Fresh, Record
    <3>3. p \notin kept
      BY <2>3 DEF kept
    <3> QED
      BY <3>1, <3>2, <3>3
  <2>4. CASE p \in l.panes /\ Survives(p)
    <3>1. rec'[p] = [rec[p] EXCEPT !.attached = l.attached, !.needs = @ /\ p \notin cleared]
      BY <1>1, <2>4
    <3>2. rec[p] \in Record /\ rec[p] # None /\ rec[p].current
      BY <2>4 DEF TypeOK, Survives
    <3>3. p \in kept
      BY <2>4 DEF kept
    <3>4. rec'[p] \in Record
      BY <2>1, <3>1, <3>2 DEF Record
    <3>5. rec'[p].hash = rec[p].hash
      BY <3>1, <3>2 DEF Record
    <3>6. rec'[p].needs = (rec[p].needs /\ p \notin cleared)
      BY <3>1, <3>2 DEF Record
    <3> QED
      BY <3>2, <3>3, <3>4, <3>5, <3>6
  <2> QED
    BY <2>2, <2>3, <2>4
<1>7. rec' \in [Pane -> Record \cup {None}]
  <2>1. \E f : rec' = [p \in Pane |-> f[p]]
    <3> DEFINE f == [p \in Pane |->
           IF p \notin l.panes THEN None
           ELSE IF ~Survives(p) THEN Fresh(l)
           ELSE [rec[p] EXCEPT !.attached = l.attached, !.needs = @ /\ p \notin cleared]]
    <3>1. rec' = f /\ f = [p \in Pane |-> f[p]]
      BY <1>1
    <3> QED
      BY <3>1
  <2> QED
    BY <1>6, <2>1
<1>8. idle' \subseteq Pane
  BY <1>1 DEF TypeOK
<1>9. ASSUME EdgeTold
      PROVE  EdgeTold'
  <2> SUFFICES ASSUME NEW p \in Pane, rec'[p] # None, p \notin missed'
               PROVE  rec'[p].needs <=> said'[p] = "needs"
    BY DEF EdgeTold
  <2>1. CASE p \notin kept
    BY <1>5, <1>6, <2>1
  <2>2. CASE p \in cleared
    BY <1>2, <1>5, <1>6, <2>2
  <2>3. CASE p \in kept \ cleared
    <3>1. p \notin missed /\ rec[p] # None
      BY <1>5, <1>6, <2>3
    <3>2. rec[p].needs <=> said[p] = "needs"
      BY <1>9, <3>1 DEF EdgeTold
    <3> QED
      BY <1>5, <1>6, <2>3, <3>2
  <2> QED
    BY <2>1, <2>2, <2>3
<1>10. ASSUME NEW p \in Pane, rec'[p] # None
       PROVE  \/ ~rec'[p].needs /\ rec'[p].hash = None
              \/ /\ rec[p] # None /\ rec[p].current /\ rec'[p].hash = rec[p].hash
                 /\ rec'[p].needs => rec[p].needs
  BY <1>6, <1>10
<1> QED
  BY <1>4, <1>5, <1>7, <1>8, <1>9, <1>10

\* What both pollers' syncs of a listing leave of the invariant, the rest unchanged.
LEMMA SyncKeeps ==
  ASSUME SessionAssumption, IInv, NEW l \in Listing, SyncPanes(l),
         UNCHANGED lost
  PROVE  /\ EdgeTold'
         /\ \A p \in Pane : lostTold'[p] <= 1 /\ (rec'[p] # None /\ rec'[p].needs => lostTold'[p] = 0)
         /\ \A p \in lost' : lostTold'[p] = 0
         /\ \A p \in Pane : Asks(p) => Asks(p)'
         /\ \A p \in Pane : rec'[p] # None /\ rec'[p].needs => rec[p] # None /\ rec[p].needs
         /\ \A p \in Pane : rec'[p] # None /\ rec'[p].needs => rec[p].current
<1>1. TypeOK /\ EdgeTold /\ LossInv
  BY DEF IInv
<1>2. /\ \A p \in Pane : lostTold'[p] = lostTold[p]
      /\ \A p \in Pane : rec'[p] # None =>
           \/ ~rec'[p].needs /\ rec'[p].hash = None
           \/ /\ rec[p] # None /\ rec[p].current /\ rec'[p].hash = rec[p].hash
              /\ rec'[p].needs => rec[p].needs
      /\ EdgeTold'
  BY <1>1, SyncedRecords
<1>3. lost \subseteq Pane
  BY <1>1 DEF TypeOK
<1>4. None \notin Screen
  BY DEF SessionAssumption
<1>5. \A p \in Pane : Asks(p) => Asks(p)'
  BY <1>2, <1>4 DEF Asks
<1>6. \A p \in Pane : rec'[p] # None /\ rec'[p].needs => rec[p] # None /\ rec[p].needs /\ rec[p].current
  BY <1>2
<1>7. \A p \in lost' : lostTold'[p] = 0
  BY <1>1, <1>2, <1>3 DEF LossInv
<1>8. \A p \in Pane : lostTold'[p] <= 1 /\ (rec'[p] # None /\ rec'[p].needs => lostTold'[p] = 0)
  BY <1>1, <1>2, <1>6 DEF LossInv
<1> QED
  BY <1>2, <1>5, <1>6, <1>7, <1>8

\* What tmux has is a listing.
LEMMA ListingTyping ==
  ASSUME TypeOK
  PROVE  ListPanes \in Listing
BY DEF ListPanes, Listing, TypeOK

-----------------------------------------------------------------------------
(* The invariant.                                                          *)

\* Nothing is attached at first.
LEMMA InitIInv ==
  ASSUME SessionAssumption, Init
  PROVE  IInv
<1> USE DEF Init
<1>1. TypeOK
  <2>1. NoListing \in Listing
    BY DEF SessionAssumption, NoListing, Listing
  <2>2. 0 \in 0..MaxClients /\ 0 \in 0..EventsDepth /\ 0 \in 0..MaxFaults
    BY DEF SessionAssumption
  <2>3. /\ rec \in [Pane -> Record \cup {None}] /\ shown \in [Pane -> Screen \cup {None}]
        /\ said \in [Pane -> {"nothing", "needs", "cleared"}] /\ lostTold \in [Pane -> 0..2]
    OBVIOUS
  <2> QED
    BY <2>1, <2>2, <2>3 DEF TypeOK
<1>2. EdgeTold /\ LossInv /\ ScreenInv
  BY DEF EdgeTold, LossInv, ScreenInv
<1> QED
  BY <1>1, <1>2 DEF IInv

\* What leaves the registry and the two goroutines alone leaves all but the types.
LEMMA RegistryUntouched ==
  ASSUME EdgeTold, LossInv, ScreenInv, UNCHANGED <<rec, lost, heur, cap, said, missed, lostTold>>,
         sup' = sup \/ sup' \in {"live", "sync", "close"}
         \/ (sup \notin {"live", "sync", "close"} /\ sup' \notin {"poll", "tell"})
         \/ (heur = "off" /\ sup' \notin {"poll", "tell"})
  PROVE  EdgeTold' /\ LossInv' /\ ScreenInv'
<1>1. EdgeTold'
  BY DEF EdgeTold
<1>2. LossInv'
  BY DEF LossInv
<1>3. ScreenInv'
  BY DEF ScreenInv, Asks
<1> QED
  BY <1>1, <1>2, <1>3

\* tmux does what it likes.
LEMMA TmuxKeeps ==
  ASSUME SessionAssumption, IInv, TmuxStep
  PROVE  IInv'
<1> USE DEF UnchangedByTmux, Notified, supVars, heurVars, regVars, tellVars, tmuxVars
<1>1. TypeOK /\ EdgeTold /\ LossInv /\ ScreenInv
  BY DEF IInv
<1>2. UNCHANGED <<rec, lost, heur, cap, said, missed, lostTold, sup>>
  BY DEF TmuxStep, ServerUp, ServerDies, Detach, ClientAttaches, ClientLeaves, Output,
         PaneOpens, PaneCloses
<1>3. EdgeTold' /\ LossInv' /\ ScreenInv'
  BY <1>1, <1>2, RegistryUntouched
<1>4. UNCHANGED <<supVars, heurVars, stop, regVars, tellVars, faults>>
  BY DEF TmuxStep, ServerUp, ServerDies, Detach, ClientAttaches, ClientLeaves, Output,
         PaneOpens, PaneCloses
<1>5. /\ server \in BOOLEAN /\ shown \in [Pane -> Screen \cup {None}] /\ clients \in 0..MaxClients
      /\ stream \in {"none", "open", "ended"} /\ pending \in BOOLEAN /\ MaxClients \in Nat
  BY <1>1 DEF TypeOK, SessionAssumption
<1>6. /\ server' \in BOOLEAN /\ clients' \in 0..MaxClients
      /\ stream' \in {"none", "open", "ended"} /\ pending' \in BOOLEAN
  <2>1. clients' \in {0, clients} \/ ClientAttaches \/ ClientLeaves
    BY DEF TmuxStep, ServerUp, ServerDies, Detach, Output, PaneOpens, PaneCloses
  <2>2. clients' \in 0..MaxClients
    BY <1>5, <2>1 DEF ClientAttaches, ClientLeaves
  <2>3. server' \in {server, TRUE, FALSE} /\ stream' \in {stream, "ended"}
    BY DEF TmuxStep, ServerUp, ServerDies, Detach, ClientAttaches, ClientLeaves, Output,
           PaneOpens, PaneCloses
  <2>4. pending' = pending \/ pending' = (pending \/ (stream = "open" /\ sup \notin {"attach", "await"}))
    BY DEF TmuxStep, ServerUp, ServerDies, Detach, ClientAttaches, ClientLeaves, Output,
           PaneOpens, PaneCloses
  <2> QED
    BY <1>5, <2>2, <2>3, <2>4
<1>7. shown' \in [Pane -> Screen \cup {None}]
  <2>1. CASE ServerUp
    <3>1. PICK P \in SUBSET Pane, s \in Screen : shown' = [p \in Pane |-> IF p \in P THEN s ELSE None]
      BY <2>1 DEF ServerUp
    <3> QED
      BY <3>1
  <2>2. CASE ServerDies
    BY <2>2 DEF ServerDies
  <2>3. ASSUME NEW p \in Pane, Output(p) \/ PaneOpens(p) \/ PaneCloses(p)
        PROVE  shown' \in [Pane -> Screen \cup {None}]
    <3>1. \E s \in Screen \cup {None} : shown' = [shown EXCEPT ![p] = s]
      BY <2>3 DEF Output, PaneOpens, PaneCloses
    <3> QED
      BY <1>5, <3>1
  <2>4. CASE Detach \/ ClientAttaches \/ ClientLeaves
    BY <1>5, <2>4 DEF Detach, ClientAttaches, ClientLeaves
  <2> QED
    BY <2>1, <2>2, <2>3, <2>4 DEF TmuxStep
<1>8. TypeOK'
  BY <1>1, <1>4, <1>6, <1>7 DEF TypeOK
<1> QED
  BY <1>3, <1>8 DEF IInv

\* The event taken, and the idle window over: nothing else is touched.
LEMMA BridgeKeeps ==
  ASSUME SessionAssumption, IInv, Bridge \/ \E p \in Pane : IdleOver(p)
  PROVE  IInv'
<1> USE DEF supVars, heurVars, regVars, tellVars, tmuxVars
<1>1. TypeOK /\ EdgeTold /\ LossInv /\ ScreenInv
  BY DEF IInv
<1>2. UNCHANGED <<rec, lost, heur, cap, said, missed, lostTold, sup>>
  BY DEF Bridge, IdleOver
<1>3. EdgeTold' /\ LossInv' /\ ScreenInv'
  BY <1>1, <1>2, RegistryUntouched
<1>4. idle' \subseteq Pane /\ events' \in 0..EventsDepth
  BY <1>1, SessionAssumption DEF Bridge, IdleOver, TypeOK, SessionAssumption
<1>5. UNCHANGED <<tmuxVars, stream, pending, supVars, heurVars, stop, status, rec, said, missed,
                  lostTold, faults>>
  BY DEF Bridge, IdleOver
<1>6. TypeOK'
  BY <1>1, <1>4, <1>5 DEF TypeOK
<1> QED
  BY <1>3, <1>6 DEF IInv

\* A fault is counted.
LEMMA FaultTyping ==
  ASSUME SessionAssumption, TypeOK, Fault \/ UNCHANGED faults
  PROVE  faults' \in 0..MaxFaults
BY DEF Fault, TypeOK, SessionAssumption

\* The supervisor between two attaches, and when it lists the panes: the registry is
\* not touched, and it comes to the greeting and out of it with the heuristic off.
LEMMA QuietSupKeeps ==
  ASSUME SessionAssumption, IInv,
         VersionGate \/ Attach \/ NoGreeting \/ RePoll \/ StreamEnds \/ Close
  PROVE  IInv'
<1> USE DEF UnchangedBySup, supVars, heurVars, regVars, tellVars, tmuxVars
<1>1. TypeOK /\ EdgeTold /\ LossInv /\ ScreenInv
  BY DEF IInv
<1>2. UNCHANGED <<rec, lost, heur, cap, said, missed, lostTold>>
  BY DEF VersionGate, Attach, NoGreeting, RePoll, StreamEnds, Close
<1>3. \/ sup' \in {"live", "sync", "close"}
      \/ sup \notin {"live", "sync", "close"} /\ sup' \notin {"poll", "tell"}
      \/ heur = "off" /\ sup' \notin {"poll", "tell"}
  BY DEF VersionGate, Attach, NoGreeting, RePoll, StreamEnds, Close
<1>4. EdgeTold' /\ LossInv' /\ ScreenInv'
  BY <1>1, <1>2, <1>3, RegistryUntouched
<1>5. /\ sup' \in {"gate", "attach", "await", "poll", "tell", "live", "sync", "close"}
      /\ stream' \in {"none", "open", "ended"} /\ pending' \in BOOLEAN /\ stop' \in BOOLEAN
      /\ status' \in {"ok", "unavailable", "unsupported"}
  BY <1>1 DEF VersionGate, Attach, NoGreeting, RePoll, StreamEnds, Close, TypeOK
<1>6. seen' \in Listing
  BY <1>1, ListingTyping DEF VersionGate, Attach, NoGreeting, RePoll, StreamEnds, Close, TypeOK
<1>7. Fault \/ UNCHANGED faults
  BY DEF VersionGate, Attach, NoGreeting, RePoll, StreamEnds, Close
<1>8. faults' \in 0..MaxFaults
  BY <1>1, <1>7, FaultTyping
<1>9. UNCHANGED <<tmuxVars, heurVars, rec, idle, tellVars, lost, baselined>>
  BY DEF VersionGate, Attach, NoGreeting, RePoll, StreamEnds, Close
<1>10. TypeOK'
  BY <1>1, <1>5, <1>6, <1>8, <1>9 DEF TypeOK
<1> QED
  BY <1>4, <1>10 DEF IInv

\* The greeting: the panes that wait have not been told lost, and no record is present.
LEMMA GreetingKeeps ==
  ASSUME SessionAssumption, IInv, Greeting
  PROVE  IInv'
<1> USE DEF UnchangedBySup, supVars, heurVars, regVars, tellVars, tmuxVars
<1>1. TypeOK /\ EdgeTold /\ LossInv /\ ScreenInv
  BY DEF IInv
<1>2. /\ sup = "await" /\ sup' = "poll" /\ lost' = LostNeedsInput /\ BumpEpoch /\ status' = "ok"
      /\ UNCHANGED <<tmuxVars, heurVars, tellVars, stream, pending, seen, baselined, stop, idle, faults>>
  BY DEF Greeting
<1>3. rec' = [p \in Pane |-> IF rec[p] = None THEN None ELSE [rec[p] EXCEPT !.current = FALSE]]
  BY <1>2 DEF BumpEpoch
<1>4. ASSUME NEW p \in Pane
      PROVE  \/ rec[p] = None /\ rec'[p] = None
             \/ /\ rec[p] # None /\ rec'[p] \in Record /\ ~rec'[p].current
                /\ rec'[p].needs = rec[p].needs /\ rec'[p].hash = rec[p].hash
  <2>1. CASE rec[p] = None
    BY <1>3, <2>1
  <2>2. CASE rec[p] # None
    <3>1. rec[p] \in Record /\ rec'[p] = [rec[p] EXCEPT !.current = FALSE]
      BY <1>1, <1>3, <2>2 DEF TypeOK
    <3> QED
      BY <2>2, <3>1 DEF Record
  <2> QED
    BY <2>1, <2>2
<1>5. rec' \in [Pane -> Record \cup {None}]
  <2> DEFINE f == [p \in Pane |-> IF rec[p] = None THEN None ELSE [rec[p] EXCEPT !.current = FALSE]]
  <2>1. rec' = f /\ f = [p \in Pane |-> f[p]]
    BY <1>3
  <2> HIDE DEF f
  <2> QED
    BY <1>4, <2>1
<1>6. TypeOK'
  BY <1>1, <1>2, <1>5 DEF TypeOK, LostNeedsInput
<1>7. EdgeTold'
  BY <1>1, <1>2, <1>4 DEF EdgeTold
<1>8. LossInv'
  BY <1>1, <1>2, <1>4 DEF LossInv, LostNeedsInput
<1>9. ScreenInv'
  BY <1>1, <1>2, <1>4 DEF ScreenInv, Asks
<1> QED
  BY <1>6, <1>7, <1>8, <1>9 DEF IInv

\* The two syncs of the supervisor: of its first poll, which may fail, and of a later one.
LEMMA SupSyncKeeps ==
  ASSUME SessionAssumption, IInv, FirstPoll \/ RePollSync
  PROVE  IInv'
<1> USE DEF supVars, heurVars, regVars, tellVars, tmuxVars
<1>1. TypeOK /\ EdgeTold /\ LossInv /\ ScreenInv
  BY DEF IInv
<1>2. CASE UNCHANGED <<rec, idle, tellVars>> /\ FirstPoll
  <2>1. /\ sup = "poll" /\ sup' = "tell" /\ (Fault \/ UNCHANGED faults)
        /\ UNCHANGED <<tmuxVars, stream, pending, seen, lost, baselined, heurVars, stop, status>>
    BY <1>2 DEF FirstPoll
  <2>2. TypeOK'
    BY <1>1, <1>2, <2>1, FaultTyping DEF TypeOK
  <2>3. EdgeTold' /\ ScreenInv'
    BY <1>1, <1>2, <2>1 DEF EdgeTold, ScreenInv, Asks
  <2>4. LossInv'
    BY <1>1, <1>2, <2>1 DEF LossInv
  <2> QED
    BY <2>2, <2>3, <2>4 DEF IInv
<1>3. ASSUME NEW l \in Listing, SyncPanes(l),
             UNCHANGED <<tmuxVars, stream, pending, lost, baselined, heurVars, stop, status, faults>>,
             (sup = "poll" /\ sup' = "tell") \/ (sup \in {"live", "sync", "close"} /\ sup' = "live"),
             seen' \in Listing
      PROVE  IInv'
  <2>1. TypeOK'
    BY <1>1, <1>3, SyncedRecords DEF TypeOK
  <2>2. /\ EdgeTold'
        /\ \A p \in Pane : lostTold'[p] <= 1 /\ (rec'[p] # None /\ rec'[p].needs => lostTold'[p] = 0)
        /\ \A p \in lost' : lostTold'[p] = 0
        /\ \A p \in Pane : Asks(p) => Asks(p)'
        /\ \A p \in Pane : rec'[p] # None /\ rec'[p].needs => rec[p] # None /\ rec[p].needs
        /\ \A p \in Pane : rec'[p] # None /\ rec'[p].needs => rec[p].current
    BY <1>1, <1>3, SyncKeeps
  <2>3. LossInv'
    BY <1>1, <1>3, <2>2 DEF LossInv
  <2>4. ScreenInv'
    BY <1>1, <1>3, <2>2 DEF ScreenInv
  <2> QED
    BY <2>1, <2>2, <2>3, <2>4 DEF IInv
<1>4. NoListing \in Listing
  BY DEF NoListing, Listing, SessionAssumption
<1>5. CASE RePollSync
  BY <1>1, <1>3, <1>4, <1>5 DEF RePollSync, TypeOK
<1>6. CASE FirstPoll
  <2>1. ListPanes \in Listing /\ seen \in Listing
    BY <1>1, ListingTyping DEF TypeOK
  <2>2. CASE SyncPanes(ListPanes) /\ UNCHANGED faults
    BY <1>3, <1>6, <2>1, <2>2 DEF FirstPoll
  <2>3. CASE UNCHANGED <<rec, idle, tellVars>>
    BY <1>2, <1>6, <2>3
  <2> QED
    BY <1>6, <2>2, <2>3 DEF FirstPoll
<1> QED
  BY <1>5, <1>6

\* The lost are told: a pane that is told so for good waits no more, for its record is new.
LEMMA TellLostKeeps ==
  ASSUME SessionAssumption, IInv, TellLost
  PROVE  IInv'
<1> USE DEF supVars, heurVars, regVars, tellVars, tmuxVars
<1>1. TypeOK /\ EdgeTold /\ LossInv /\ ScreenInv
  BY DEF IInv
<1>2. /\ sup = "tell" /\ sup' = "live" /\ lost' = {} /\ baselined' = TRUE /\ heur' = "list" /\ stop' = FALSE
      /\ Emit("lost", lost, Pane) \/ UNCHANGED tellVars
      /\ UNCHANGED <<tmuxVars, stream, pending, seen, listing, todo, cap, regVars, faults>>
  BY DEF TellLost
<1>3. /\ events' \in 0..EventsDepth
      /\ said' \in [Pane -> {"nothing", "needs", "cleared"}]
      /\ missed' \subseteq Pane /\ lostTold' \in [Pane -> 0..2]
  <2>1. CASE Emit("lost", lost, Pane)
    <3>1. lost \in SUBSET Pane
      BY <1>1 DEF TypeOK
    <3> QED
      BY <1>1, <2>1, <3>1, EmitTyping
  <2>2. CASE UNCHANGED tellVars
    BY <1>1, <2>2 DEF TypeOK
  <2> QED
    BY <1>2, <2>1, <2>2
<1>4. /\ \A p \in Pane : said'[p] = said[p]
      /\ missed' = missed
      /\ \A p \in Pane :
           lostTold'[p] = lostTold[p]
           \/ (p \in lost /\ Replaced(p) /\ lostTold'[p] = lostTold[p] + 1)
  <2>1. CASE Emit("lost", lost, Pane)
    <3>1. lost \in SUBSET Pane
      BY <1>1 DEF TypeOK
    <3> QED
      BY <1>1, <2>1, <3>1, LossSent
  <2>2. CASE UNCHANGED tellVars
    BY <2>2
  <2> QED
    BY <1>2, <2>1, <2>2
<1>5. TypeOK'
  BY <1>1, <1>2, <1>3 DEF TypeOK
<1>6. EdgeTold'
  BY <1>1, <1>2, <1>4 DEF EdgeTold
<1>7. LossInv'
  <2>1. ASSUME NEW p \in Pane
        PROVE  lostTold'[p] <= 1 /\ (rec[p] # None /\ rec[p].needs => lostTold'[p] = 0)
    <3>1. CASE lostTold'[p] = lostTold[p]
      BY <1>1, <3>1 DEF LossInv
    <3>2. CASE p \in lost /\ Replaced(p) /\ lostTold'[p] = lostTold[p] + 1
      <4>1. lostTold[p] = 0
        BY <1>1, <3>2 DEF LossInv
      <4>2. rec[p] = None \/ ~rec[p].needs
        BY <1>1, <1>2, <3>2 DEF LossInv, Replaced
      <4> QED
        BY <3>2, <4>1, <4>2
    <3> QED
      BY <1>4, <3>1, <3>2
  <2> QED
    BY <1>2, <2>1 DEF LossInv
<1>8. ScreenInv'
  <2>1. heur = "off"
    BY <1>1, <1>2 DEF LossInv
  <2> QED
    BY <1>1, <1>2, <2>1 DEF ScreenInv, Asks
<1> QED
  BY <1>5, <1>6, <1>7, <1>8 DEF IInv

\* Between its lock sections the heuristic touches nothing but its own.
LEMMA QuietHeurKeeps ==
  ASSUME SessionAssumption, IInv,
         HeuristicStops \/ TickList \/ TickEnds \/ \E p \in Pane : Capture(p)
  PROVE  IInv'
<1> USE DEF UnchangedByHeur, supVars, regVars, tellVars, tmuxVars
<1>1. TypeOK /\ EdgeTold /\ LossInv /\ ScreenInv
  BY DEF IInv
<1>2. /\ UNCHANGED <<tmuxVars, stream, pending, supVars, stop, regVars, tellVars>>
      /\ heur \in {"list", "pick"}
      /\ heur' \in {"off", "list", "sync", "pick", "compare"}
  BY DEF HeuristicStops, TickList, TickEnds, Capture
<1>3. /\ listing' \in Listing /\ todo' \subseteq Pane
      /\ cap' \in (Pane \X Screen) \cup {None} /\ (heur' = "compare" => cap' \in Pane \X Screen)
  <2>1. NoListing \in Listing /\ ListPanes \in Listing
    BY <1>1, ListingTyping DEF NoListing, Listing, SessionAssumption
  <2>2. listing' \in Listing /\ todo' \subseteq Pane
    BY <1>1, <2>1 DEF HeuristicStops, TickList, TickEnds, Capture, TypeOK
  <2>3. cap' \in (Pane \X Screen) \cup {None} /\ (heur' = "compare" => cap' \in Pane \X Screen)
    <3>1. CASE HeuristicStops \/ TickList \/ TickEnds
      BY <1>1, <3>1 DEF HeuristicStops, TickList, TickEnds, TypeOK
    <3>2. ASSUME NEW p \in Pane, Capture(p)
          PROVE  cap' \in (Pane \X Screen) \cup {None} /\ (heur' = "compare" => cap' \in Pane \X Screen)
      <4>1. shown[p] \in Screen \cup {None} /\ cap \in (Pane \X Screen) \cup {None}
        BY <1>1 DEF TypeOK
      <4> QED
        BY <3>2, <4>1 DEF Capture
    <3> QED
      BY <3>1, <3>2
  <2> QED
    BY <2>2, <2>3
<1>4. faults' \in 0..MaxFaults
  <2>1. Fault \/ UNCHANGED faults
    BY DEF HeuristicStops, TickList, TickEnds, Capture
  <2> QED
    BY <1>1, <2>1, FaultTyping
<1>5. TypeOK'
  BY <1>1, <1>2, <1>3, <1>4 DEF TypeOK
<1>6. EdgeTold' /\ LossInv'
  BY <1>1, <1>2 DEF EdgeTold, LossInv
<1>7. ScreenInv'
  BY <1>1, <1>2, <1>3 DEF ScreenInv, Asks
<1> QED
  BY <1>5, <1>6, <1>7 DEF IInv

\* The sync of a tick.
LEMMA TickSyncKeeps ==
  ASSUME SessionAssumption, IInv, TickSync
  PROVE  IInv'
<1> USE DEF UnchangedByHeur, supVars, tmuxVars
<1>1. TypeOK /\ EdgeTold /\ LossInv /\ ScreenInv
  BY DEF IInv
<1>2. /\ heur = "sync" /\ heur' = "pick" /\ SyncPanes(listing) /\ listing' = NoListing
      /\ todo' \subseteq Pane
      /\ UNCHANGED <<tmuxVars, stream, pending, supVars, stop, status, cap, faults>>
  BY DEF TickSync
<1>3. listing \in Listing /\ NoListing \in Listing
  BY <1>1 DEF TypeOK, NoListing, Listing, SessionAssumption
<1>4. TypeOK'
  BY <1>1, <1>2, <1>3, SyncedRecords DEF TypeOK
<1>5. /\ EdgeTold'
      /\ \A p \in Pane : lostTold'[p] <= 1 /\ (rec'[p] # None /\ rec'[p].needs => lostTold'[p] = 0)
      /\ \A p \in lost' : lostTold'[p] = 0
      /\ \A p \in Pane : Asks(p) => Asks(p)'
      /\ \A p \in Pane : rec'[p] # None /\ rec'[p].needs => rec[p] # None /\ rec[p].needs
  BY <1>1, <1>2, <1>3, SyncKeeps
<1>6. sup \in {"live", "sync", "close"}
  BY <1>1, <1>2 DEF LossInv
<1>7. LossInv'
  BY <1>2, <1>5, <1>6 DEF LossInv
<1>8. ScreenInv'
  BY <1>1, <1>2, <1>5 DEF ScreenInv
<1> QED
  BY <1>4, <1>5, <1>7, <1>8 DEF IInv

\* The comparison: a new screen is to be cleared, and a screen is to be set if it asks.
LEMMA CompareKeeps ==
  ASSUME SessionAssumption, IInv, Compare
  PROVE  IInv'
<1> USE DEF UnchangedByHeur, supVars, tellVars, tmuxVars
<1>1. TypeOK /\ EdgeTold /\ LossInv /\ ScreenInv
  BY DEF IInv
<1>2. /\ heur = "compare" /\ idle' \subseteq idle
      /\ UNCHANGED <<tmuxVars, stream, pending, supVars, stop, status, listing, todo, tellVars, faults>>
  BY DEF Compare
<1> DEFINE p == cap[1]
           s == cap[2]
<1>3. cap \in Pane \X Screen /\ p \in Pane /\ s \in Screen
  BY <1>1, <1>2 DEF ScreenInv
<1>4. \/ heur' = "pick" /\ cap' = None /\ rec' = rec
      \/ /\ rec[p] # None /\ rec' = [rec EXCEPT ![p].hash = s] /\ heur' = "clear" /\ cap' = cap
      \/ /\ rec[p] # None /\ rec[p].hash = s /\ s \in Prompts /\ rec' = rec
         /\ heur' = "set" /\ cap' = cap
  BY DEF Compare
<1> HIDE DEF p, s
<1>5. ASSUME NEW q \in Pane
      PROVE  \/ rec'[q] = rec[q]
             \/ /\ q = p /\ rec[q] # None /\ rec'[q] \in Record /\ heur' = "clear"
                /\ rec'[q].needs = rec[q].needs /\ rec'[q].current = rec[q].current
  <2>1. CASE rec' = [rec EXCEPT ![p].hash = s] /\ heur' = "clear" /\ q = p /\ rec[p] # None
    <3>1. rec[q] \in Record /\ rec'[q] = [rec[q] EXCEPT !.hash = s] /\ s \in Screen
      BY <1>1, <1>3, <2>1 DEF TypeOK
    <3> QED
      BY <2>1, <3>1 DEF Record
  <2>2. CASE rec' = [rec EXCEPT ![p].hash = s] /\ q # p
    BY <1>1, <2>2 DEF TypeOK
  <2> QED
    BY <1>4, <2>1, <2>2
<1>6. rec' \in [Pane -> Record \cup {None}]
  <2>1. rec \in [Pane -> Record \cup {None}]
    BY <1>1 DEF TypeOK
  <2>2. \A q \in Pane : rec'[q] \in Record \cup {None}
    BY <1>5, <2>1
  <2>3. CASE rec' = rec
    BY <2>1, <2>3
  <2>4. CASE rec' = [rec EXCEPT ![p].hash = s]
    BY <2>1, <2>2, <2>4
  <2> QED
    BY <1>4, <2>3, <2>4
<1>7. TypeOK'
  BY <1>1, <1>2, <1>3, <1>4, <1>6 DEF TypeOK
<1>8. EdgeTold'
  BY <1>1, <1>2, <1>5 DEF EdgeTold
<1>9. LossInv'
  <2>1. sup \in {"live", "sync", "close"}
    BY <1>1, <1>2 DEF LossInv
  <2> QED
    BY <1>1, <1>2, <1>5, <2>1 DEF LossInv
<1>10. ScreenInv'
  <2>1. heur' \in {"compare", "clear", "set"} => cap' \in Pane \X Screen
    BY <1>3, <1>4
  <2>2. heur' = "set" => Asks(cap[1])' /\ cap' = cap
    BY <1>3, <1>4 DEF Asks, p
  <2>3. ASSUME NEW q \in Pane, rec'[q] # None, rec'[q].needs, ~ (heur' = "clear" /\ cap'[1] = q)
        PROVE  Asks(q)'
    <3>1. rec'[q] = rec[q]
      BY <1>4, <1>5, <2>3 DEF p
    <3>2. Asks(q)
      BY <1>1, <1>2, <2>3, <3>1 DEF ScreenInv
    <3> QED
      BY <3>1, <3>2 DEF Asks
  <2> QED
    BY <2>1, <2>2, <2>3 DEF ScreenInv, Asks
<1> QED
  BY <1>7, <1>8, <1>9, <1>10 DEF IInv

\* One record is marked, and the edge sent; or it was marked so already.
LEMMA Marked ==
  ASSUME TypeOK, NEW p \in Pane, NEW b \in BOOLEAN, rec[p] # None, rec[p].needs # b,
         rec' = [rec EXCEPT ![p].needs = b]
  PROVE  /\ rec' \in [Pane -> Record \cup {None}]
         /\ \A q \in Pane : q # p => rec'[q] = rec[q]
         /\ rec'[p] \in Record /\ rec'[p].needs = b
         /\ rec'[p].hash = rec[p].hash /\ rec'[p].current = rec[p].current
<1>1. rec \in [Pane -> Record \cup {None}] /\ rec[p] \in Record
  BY DEF TypeOK
<1>2. rec'[p] = [rec[p] EXCEPT !.needs = b]
  BY <1>1
<1>3. [rec[p] EXCEPT !.needs = b] \in Record
  BY <1>1 DEF Record
<1>4. rec'[p].needs = b /\ rec'[p].hash = rec[p].hash /\ rec'[p].current = rec[p].current
  BY <1>1, <1>2 DEF Record
<1> QED
  BY <1>1, <1>2, <1>3, <1>4

\* The mark: the edge is told, or known to be dropped; a pane that is set has the screen
\* that asks, and is not told lost.
LEMMA MarkKeeps ==
  ASSUME SessionAssumption, IInv, Mark
  PROVE  IInv'
<1> USE DEF UnchangedByHeur, supVars, tmuxVars
<1>1. TypeOK /\ EdgeTold /\ LossInv /\ ScreenInv
  BY DEF IInv
<1>2. /\ heur \in {"clear", "set"} /\ heur' = "pick" /\ cap' = None
      /\ IF heur = "set" THEN SetNeedsInput(cap[1]) ELSE ClearNeedsInput(cap[1])
      /\ UNCHANGED <<tmuxVars, stream, pending, supVars, stop, status, listing, todo, idle, faults>>
  BY DEF Mark
<1> DEFINE p == cap[1]
           type == IF heur = "set" THEN "needs" ELSE "cleared"
<1>3. p \in Pane
  BY <1>1, <1>2 DEF ScreenInv
<1>4. sup \in {"live", "sync", "close"}
  BY <1>1, <1>2 DEF LossInv
<1>5. \/ /\ UNCHANGED <<rec, tellVars>>
         /\ rec[p] = None \/ rec[p].needs = (heur = "set")
      \/ /\ rec[p] # None /\ rec[p].needs # (heur = "set")
         /\ rec' = [rec EXCEPT ![p].needs = (heur = "set")]
         /\ Emit(type, {p}, Pane)
  <2>1. rec[p] # None => rec[p].needs \in BOOLEAN
    BY <1>1, <1>3 DEF TypeOK, Record
  <2>2. CASE heur = "set"
    BY <1>2, <2>1, <2>2 DEF SetNeedsInput
  <2>3. CASE heur = "clear"
    <3>1. heur # "set" /\ ClearNeedsInput(p)
      BY <1>2, <2>3
    <3> QED
      BY <2>1, <2>3, <3>1 DEF ClearNeedsInput
  <2> QED
    BY <1>2, <2>2, <2>3
<1>6. CASE /\ UNCHANGED <<rec, tellVars>>
           /\ rec[p] = None \/ rec[p].needs = (heur = "set")
  <2> USE DEF tellVars
  <2>1. TypeOK'
    BY <1>1, <1>2, <1>6 DEF TypeOK
  <2>2. EdgeTold' /\ LossInv'
    BY <1>1, <1>2, <1>4, <1>6 DEF EdgeTold, LossInv
  <2>3. ScreenInv'
    BY <1>1, <1>2, <1>6 DEF ScreenInv, Asks
  <2> QED
    BY <2>1, <2>2, <2>3 DEF IInv
<1>7. CASE /\ rec[p] # None /\ rec[p].needs # (heur = "set")
           /\ rec' = [rec EXCEPT ![p].needs = (heur = "set")]
           /\ Emit(type, {p}, Pane)
  <2>1. type \in {"needs", "cleared"} /\ (type = "needs" <=> heur = "set")
    OBVIOUS
  <2> HIDE DEF p, type
  <2>2. /\ rec' \in [Pane -> Record \cup {None}]
        /\ \A q \in Pane : q # p => rec'[q] = rec[q]
        /\ rec'[p] \in Record /\ rec'[p].needs = (heur = "set")
        /\ rec'[p].hash = rec[p].hash /\ rec'[p].current = rec[p].current
    BY <1>1, <1>3, <1>7, Marked
  <2>3. /\ events' \in 0..EventsDepth
        /\ said' \in [Pane -> {"nothing", "needs", "cleared"}]
        /\ missed' \subseteq Pane /\ lostTold' \in [Pane -> 0..2]
    <3>1. {p} \in SUBSET Pane /\ Pane \in SUBSET Pane /\ type \in {"needs", "cleared", "lost"}
      BY <1>3, <2>1
    <3> QED
      BY <1>1, <1>7, <3>1, EmitTyping
  <2>4. /\ said'[p] = type \/ p \in missed'
        /\ \A q \in Pane \ {p} : said'[q] = said[q] /\ (q \in missed' <=> q \in missed)
        /\ type = "needs" => lostTold'[p] = 0
        /\ \A q \in Pane : q # p \/ type # "needs" => lostTold'[q] = lostTold[q]
    <3> DEFINE P == {p}
    <3>1. P \in SUBSET Pane /\ Pane \in SUBSET Pane /\ Emit(type, P, Pane) /\ \A q : q \in P <=> q = p
      BY <1>3, <1>7
    <3> HIDE DEF P
    <3>2. /\ \A q \in P : said'[q] = type \/ q \in missed'
          /\ \A q \in Pane \ P : said'[q] = said[q] /\ (q \in missed' <=> q \in missed)
          /\ \A q \in P : type = "needs" => lostTold'[q] = 0
          /\ \A q \in Pane : q \notin P \/ type # "needs" => lostTold'[q] = lostTold[q]
      BY <1>1, <2>1, <3>1, EdgeSent
    <3> QED
      BY <1>3, <3>1, <3>2
  <2>5. TypeOK'
    BY <1>1, <1>2, <2>2, <2>3 DEF TypeOK
  <2>6. EdgeTold'
    BY <1>1, <1>2, <2>1, <2>2, <2>4 DEF EdgeTold
  <2>7. LossInv'
    <3>1. ASSUME NEW q \in Pane
          PROVE  lostTold'[q] <= 1 /\ (rec'[q] # None /\ rec'[q].needs => lostTold'[q] = 0)
      <4>1. CASE q # p
        BY <1>1, <2>2, <2>4, <4>1 DEF LossInv
      <4>2. CASE q = p
        <5>1. lostTold[p] <= 1
          BY <1>1, <1>3 DEF LossInv
        <5>2. CASE type = "needs"
          BY <2>4, <4>2, <5>2
        <5>3. CASE type # "needs"
          BY <1>3, <2>1, <2>2, <2>4, <4>2, <5>1, <5>3
        <5> QED
          BY <5>2, <5>3
      <4> QED
        BY <4>1, <4>2
    <3>2. \A q \in lost : lostTold'[q] = 0
      BY <1>1, <1>3, <2>4 DEF LossInv, TypeOK
    <3> QED
      BY <1>2, <1>4, <3>1, <3>2 DEF LossInv
  <2>8. ScreenInv'
    <3>1. heur = "set" => Asks(p)
      BY <1>1 DEF ScreenInv, p
    <3>2. ASSUME NEW q \in Pane, rec'[q] # None, rec'[q].needs
          PROVE  Asks(q)'
      <4>1. CASE q = p
        BY <1>7, <2>2, <3>1, <3>2, <4>1 DEF Asks
      <4>2. CASE q # p
        <5>1. rec'[q] = rec[q]
          BY <2>2, <4>2
        <5>2. Asks(q)
          BY <1>1, <3>2, <4>2, <5>1 DEF ScreenInv, p
        <5> QED
          BY <5>1, <5>2 DEF Asks
      <4> QED
        BY <4>1, <4>2
    <3> QED
      BY <1>2, <3>2 DEF ScreenInv
  <2> QED
    BY <2>5, <2>6, <2>7, <2>8 DEF IInv
<1> QED
  BY <1>5, <1>6, <1>7

\* Every step keeps the invariant.
LEMMA NextIInv ==
  ASSUME SessionAssumption, IInv, [Next]_vars
  PROVE  IInv'
<1>1. CASE UNCHANGED vars
  <2>1. TypeOK /\ EdgeTold /\ LossInv /\ ScreenInv
    BY DEF IInv
  <2> USE <1>1 DEF vars, tmuxVars, supVars, heurVars, regVars, tellVars
  <2>2. EdgeTold' /\ LossInv' /\ ScreenInv'
    BY <2>1, RegistryUntouched
  <2>3. TypeOK'
    BY <2>1 DEF TypeOK
  <2> QED
    BY <2>2, <2>3 DEF IInv
<1>2. CASE TmuxStep
  BY <1>2, TmuxKeeps
<1>3. CASE SupStep
  BY <1>3, QuietSupKeeps, GreetingKeeps, SupSyncKeeps, TellLostKeeps DEF SupStep
<1>4. CASE HeurStep
  BY <1>4, QuietHeurKeeps, TickSyncKeeps, CompareKeeps, MarkKeeps DEF HeurStep
<1>5. CASE Bridge \/ \E p \in Pane : IdleOver(p)
  BY <1>5, BridgeKeeps
<1> QED
  BY <1>1, <1>2, <1>3, <1>4, <1>5 DEF Next

\* The registry, its two pollers and its channel keep their types.
THEOREM SessionTyping == Spec => []TypeOK
<1>1. Init => IInv
  BY InitIInv, SessionAssumption
<1>2. IInv /\ [Next]_vars => IInv'
  BY NextIInv, SessionAssumption
<1>3. IInv => TypeOK
  BY DEF IInv
<1> QED
  BY <1>1, <1>2, <1>3, PTL DEF Spec

\* What a consumer last heard of a pane is what the registry holds, a pane is reported
\* lost once, and none waits under a screen that asks for nothing: for every number of
\* panes, screens and clients, and every depth of the channel (registry.go:201-222,
\* supervisor.go:150-167, heuristic.go:222-247).
THEOREM EdgesAreTrue == Spec => []LastEdgeHolds
<1>1. Init => IInv
  BY InitIInv, SessionAssumption
<1>2. IInv /\ [Next]_vars => IInv'
  BY NextIInv, SessionAssumption
<1>3. IInv => LastEdgeHolds
  BY DEF IInv, EdgeTold, LossInv, ScreenInv, Asks, LastEdgeHolds
<1> QED
  BY <1>1, <1>2, <1>3, PTL DEF Spec
=============================================================================
