------------------------------ MODULE Reversal ------------------------------
(***************************************************************************)
(* The way back: one file that abysslink writes through the audit log      *)
(* (write.go, signed.go), the sidecar backups the writers leave beside it, *)
(* `abysslink backup restore` and `abysslink uninstall` (reverse.go), which*)
(* takes no lock.  The user edits the file in between, and every command   *)
(* may die at any step.                                                    *)
(*                                                                         *)
(* Of the log the fold is kept that PlanReverse makes of it: the content of*)
(* the last write, the backup entries and whether there is a restore entry.*)
(***************************************************************************)
EXTENDS Integers, Sequences, FiniteSets

CONSTANTS
  Users,     \* contents the user gives the file
  Own,       \* contents abysslink gives it; some may be the user's too
  Absent,    \* no file, no write entry
  MaxSide,   \* bound on sidecars
  MaxTorn    \* bound on commands that die and removals that fail

ASSUME ReversalAssumption ==
  /\ Absent \notin Users \cup Own /\ MaxSide \in Nat /\ MaxTorn \in Nat

VARIABLES
  disk,       \* the file
  side,       \* its sidecars by stamp: content, still there, with a chain entry
  lastWrite,  \* the content of the last write entry
  restored,   \* the log has a restore entry
  writer, new, signed,  \* the writer under the flock: its step, its content, its kind
  remover, plan, sweep, \* the uninstall: its step, its plan, the sidecars to remove
  torn,       \* faults so far
  original,   \* history: what the user had made of the file when abysslink first wrote it
  untouched,  \* history: abysslink has not written it yet, or not since all was undone
  mine,       \* history: what the user made of the file last
  spoiled     \* history: somebody else wrote during a write or an uninstall, a sweep was
              \* cut short, or an uninstall was planned on a Mistakable file

diskVars    == <<disk, side, lastWrite, restored>>
writerVars  == <<writer, new, signed>>
removerVars == <<remover, plan, sweep>>
historyVars == <<original, untouched, mine, spoiled>>
undoVars == <<diskVars, writerVars, removerVars, torn, historyVars>>

File == Users \cup Own \cup {Absent}
Action == {"none", "restore", "delete", "skip", "keep"}
NoPlan == [action |-> "none", bak |-> 0]

ReversalTypeOK ==
  /\ disk \in File
  /\ side \in Seq([content : Users \cup Own, there : BOOLEAN, attested : BOOLEAN])
  /\ Len(side) <= MaxSide /\ lastWrite \in Own \cup {Absent} /\ restored \in BOOLEAN
  /\ writer \in {"idle", "backup", "record", "intent", "apply"}
  /\ new \in Own \cup {Absent} /\ signed \in BOOLEAN
  /\ remover \in {"idle", "act", "write", "sweep", "remove"}
  /\ plan \in [action : Action, bak : 0..Len(side)] /\ sweep \subseteq 1..Len(side)
  /\ torn \in 0..MaxTorn /\ original \in File /\ mine \in File
  /\ untouched \in BOOLEAN /\ spoiled \in BOOLEAN

UndoInit ==
  /\ disk \in Users \cup {Absent} /\ side = <<>> /\ lastWrite = Absent /\ restored = FALSE
  /\ writer = "idle" /\ new = Absent /\ signed = FALSE
  /\ remover = "idle" /\ plan = NoPlan /\ sweep = {} /\ torn = 0
  /\ original = disk /\ untouched = TRUE /\ mine = disk /\ spoiled = FALSE

There    == {i \in 1..Len(side) : side[i].there}
Attested == {i \in 1..Len(side) : side[i].attested}
Earliest(S) == CHOOSE i \in S : \A j \in S : i <= j

Torn == torn < MaxTorn /\ torn' = torn + 1

-----------------------------------------------------------------------------
(* The user, with an editor, rm, or `abysslink backup restore`.            *)

Edit(c) ==
  /\ c # disk /\ disk' = c /\ mine' = c
  /\ original' = IF untouched THEN c ELSE original
  /\ spoiled' = (spoiled \/ writer # "idle" \/ remover # "idle")
  /\ UNCHANGED <<side, lastWrite, restored, writerVars, removerVars, torn, untouched>>

\* RestoreGated: an unattested sidecar is taken if the user insists, under another op.
RestoreGated(i) ==
  /\ writer = "idle" /\ remover = "idle" /\ i \in There
  /\ disk' = side[i].content /\ mine' = disk'
  /\ restored' = (restored \/ side[i].attested)
  /\ UNCHANGED <<side, lastWrite, writerVars, removerVars, torn, original, untouched, spoiled>>

-----------------------------------------------------------------------------
(* The writers.  The signed one makes the sidecar with its entry, then the   *)
(* write entry; the unsigned one the write entry, then a sidecar without.    *)

WriterEnds == writer' = "idle" /\ new' = Absent /\ signed' = FALSE

Begin(c, s) ==
  /\ writer = "idle" /\ Len(side) < MaxSide
  /\ writer' = CASE disk = Absent -> "record" [] s /\ disk # Absent -> "backup"
                 [] OTHER -> "intent"
  /\ new' = c /\ signed' = s /\ spoiled' = (spoiled \/ remover # "idle")
  /\ UNCHANGED <<diskVars, removerVars, torn, original, untouched, mine>>

\* backupNoRefresh, Backup: a file that is gone by now aborts the write.
MakeSidecar ==
  /\ writer = "backup"
  /\ \/ disk = Absent /\ WriterEnds /\ UNCHANGED <<side, untouched>>
     \/ /\ disk # Absent
        /\ side' = Append(side, [content |-> disk, there |-> TRUE, attested |-> signed])
        /\ writer' = IF signed THEN "record" ELSE "apply"
        /\ untouched' = FALSE /\ UNCHANGED <<new, signed>>
  /\ UNCHANGED <<disk, lastWrite, restored, removerVars, torn, original, mine, spoiled>>

Record ==
  /\ writer \in {"record", "intent"} /\ lastWrite' = new
  /\ writer' = IF writer = "intent" THEN "backup" ELSE "apply"
  /\ untouched' = (untouched /\ writer = "intent")
  /\ UNCHANGED <<disk, side, restored, new, signed, removerVars, torn, original, mine, spoiled>>

\* atomicWriteFile
Apply ==
  /\ writer = "apply" /\ WriterEnds /\ disk' = new
  /\ UNCHANGED <<side, lastWrite, restored, removerVars, torn, historyVars>>

\* The writer dies, or its step fails.
WriterDies ==
  /\ writer # "idle" /\ Torn /\ WriterEnds
  /\ UNCHANGED <<diskVars, removerVars, historyVars>>

-----------------------------------------------------------------------------
(* uninstall.                                                              *)

To(action) == [action |-> action, bak |-> 0]
RestoreOf(S) == [action |-> "restore", bak |-> Earliest(S)]

\* Mutant: the newest backup is taken for the content before abysslink.
DecideNewest ==
  LET existing == Attested \cap There
  IN CASE existing # {} -> [action |-> "restore", bak |-> CHOOSE i \in existing : \A j \in existing : i >= j]
       [] existing = {} /\ (Attested # {} \/ restored) -> To("skip")
       [] OTHER -> CASE There # {} -> RestoreOf(There)
                     [] There = {} -> To(IF disk # Absent THEN "delete" ELSE "skip")

\* Mutant: restore entries are not looked at.
DecideForgets ==
  LET existing == Attested \cap There
  IN CASE existing # {} -> RestoreOf(existing)
       [] existing = {} /\ Attested # {} -> To("skip")
       [] OTHER -> CASE There # {} -> RestoreOf(There)
                     [] There = {} -> To(IF disk # Absent THEN "delete" ELSE "skip")

\* decideReverseAction: the earliest backup in the chain that is still there; nothing
\* for a file that was put back before; the earliest sidecar; else it is abysslink's.
Decide ==
  LET existing == Attested \cap There
  IN CASE existing # {} -> RestoreOf(existing)
       [] existing = {} /\ (Attested # {} \/ restored) -> To("skip")
       [] OTHER -> CASE There # {} -> RestoreOf(There)
                     [] There = {} -> To(IF disk # Absent THEN "delete" ELSE "skip")

\* fileDrifted
Drifted == disk # Absent /\ disk # lastWrite

\* A file of the user's own that holds what the log says abysslink wrote there last,
\* while the log knows of no backup and no restore: nothing tells it from a file that
\* abysslink made.
Mistakable == untouched /\ disk = lastWrite /\ ~restored /\ Attested = {}

\* planReverseTarget, of a file the log has a write of.
PlanReverse ==
  /\ remover = "idle" /\ lastWrite # Absent
  /\ plan' = IF Decide.action \in {"restore", "delete"} /\ Drifted THEN To("keep") ELSE Decide
  /\ remover' = IF plan'.action \in {"restore", "delete"} THEN "act" ELSE "idle"
  /\ spoiled' = (spoiled \/ writer # "idle" \/ Mistakable)
  /\ UNCHANGED <<diskVars, writerVars, sweep, torn, original, untouched, mine>>

\* The intent goes into the log, if the log takes it.
RecordIntent ==
  /\ remover = "act"
  /\ \/ Torn /\ UNCHANGED restored
     \/ restored' = (restored \/ plan.action = "restore") /\ UNCHANGED torn
  /\ remover' = IF plan.action = "restore" THEN "write" ELSE "remove"
  /\ UNCHANGED <<disk, side, lastWrite, writerVars, plan, sweep, historyVars>>

\* restoreChainVerified, Restore; then the sidecars there are now will be removed.
RestoreFile ==
  /\ remover = "write" /\ remover' = "sweep"
  /\ disk' = side[plan.bak].content /\ sweep' = There
  /\ UNCHANGED <<side, lastWrite, restored, writerVars, plan, torn, historyVars>>

\* One after the other, oldest first; that one cannot be removed goes unnoticed.
SweepOne ==
  /\ remover = "sweep" /\ sweep # {} /\ sweep' = sweep \ {Earliest(sweep)}
  /\ \/ side' = [side EXCEPT ![Earliest(sweep)].there = FALSE] /\ UNCHANGED <<torn, spoiled>>
     \/ Torn /\ spoiled' = TRUE /\ UNCHANGED side
  /\ UNCHANGED <<disk, lastWrite, restored, writerVars, remover, plan, original, untouched, mine>>

RemoverEnds == remover' = "idle" /\ plan' = NoPlan

\* All is undone: what the user makes of the file now is what abysslink will find.
Undone == untouched' = TRUE /\ UNCHANGED original

SweepEnds ==
  /\ remover = "sweep" /\ sweep = {} /\ RemoverEnds
  /\ UNCHANGED <<diskVars, writerVars, sweep, torn, mine, spoiled>> /\ Undone

RemoveFile ==
  /\ remover = "remove" /\ RemoverEnds /\ disk' = Absent /\ Undone
  /\ UNCHANGED <<side, lastWrite, restored, writerVars, sweep, torn, mine, spoiled>>

UninstallDies ==
  /\ remover # "idle" /\ Torn /\ RemoverEnds /\ sweep' = {}
  /\ spoiled' = (spoiled \/ remover = "sweep")
  /\ UNCHANGED <<diskVars, writerVars, original, untouched, mine>>

-----------------------------------------------------------------------------
WriterStep == MakeSidecar \/ Record \/ Apply \/ WriterDies
UninstallStep ==
  PlanReverse \/ RecordIntent \/ RestoreFile \/ SweepOne \/ SweepEnds \/ RemoveFile
  \/ UninstallDies

UndoNext ==
  \/ \E c \in Users \cup {Absent} : Edit(c)
  \/ \E i \in 1..Len(side) : RestoreGated(i)
  \/ \E c \in Own, s \in BOOLEAN : Begin(c, s)
  \/ WriterStep \/ UninstallStep

UndoSpec == UndoInit /\ [][UndoNext]_undoVars

-----------------------------------------------------------------------------
(* Properties.                                                             *)

\* A sidecar of the unsigned writer has been followed by one of the signed writer: the
\* earliest attested sidecar is not the earliest.
Mixed == \E i, j \in 1..Len(side) : i < j /\ ~side[i].attested /\ side[j].attested

\* The way back stays open: what the file was before abysslink is the file or one of
\* its sidecars, through rewrites, edits, restores, uninstalls that die and are run
\* again (reverse.go:366-418, 438-518).  README.md says how it is lost otherwise.
OriginalKept ==
  spoiled \/ Mixed \/ original = Absent \/ disk = original
  \/ \E i \in There : side[i].content = original

\* A re-run is harmless: once a restore is done and recorded, and however the user goes
\* on with the file, uninstall neither deletes nor overwrites it, be it even what
\* abysslink wrote there (reverse.go:391-400).
RerunHarmless ==
  [][PlanReverse /\ restored /\ untouched /\ ~spoiled' => plan'.action \in {"skip", "keep"}]_undoVars

-----------------------------------------------------------------------------
(* What a comment says and the code does not do (see README.md).           *)

\* reverse.go:246-249: an edited target is left untouched "so the user's later changes
\* are never lost".
LaterChangesKept ==
  spoiled \/ Mixed \/ mine = Absent \/ disk = mine \/ \E i \in There : side[i].content = mine
=============================================================================
