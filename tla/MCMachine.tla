----------------------------- MODULE MCMachine ------------------------------
(* What abysslink stops and undoes on a machine: the dead-man switch         *)
(* (Deadman) and the way back of a file it wrote (Reversal).  They share no  *)
(* state; a behaviour of this module moves one of them, chosen at the start. *)
(* Deadman moves in two parts, to keep the instance small: one where every   *)
(* pgid is handed out once, and one where freed pgids are.                   *)
EXTENDS MCDeadman, Reversal

VARIABLE part

\* No pgid has been handed out twice.
PgidsApart ==
  /\ \A r, s \in Run : r # s => armPgid[r] \cap armPgid[s] = {}
  /\ \A g \in Pgid : group[g] # Other
\* The seed is the daemon's: `deadman enable`, which touches no run, is in DeadmanLive.
DaemonSeeds == seedPc["cli"] = "idle"
OneLockdown == \A l \in Locker \ {"timer"} : lkPc[l] = "idle"

MachineInit ==
  /\ part \in {"lockdowns", "reuse", "undo"} /\ Init /\ UndoInit
  /\ part # "undo" => disk = Absent
MachineNext ==
  /\ UNCHANGED part
  /\ \/ /\ part = "lockdowns" /\ Next /\ DaemonSeeds' /\ UNCHANGED undoVars
        /\ PgidsApart' /\ crashes' + faults' <= 1
     \/ /\ part = "reuse" /\ Next /\ DaemonSeeds' /\ UNCHANGED undoVars
        /\ OneLockdown' \/ crashes' + faults' = 0
     \/ part = "undo" /\ UndoNext /\ UNCHANGED vars
MachineSpec == MachineInit /\ [][MachineNext]_<<part, vars, undoVars>>

\* The type invariants of both.
AllTypeOK == TypeOK /\ ReversalTypeOK
=============================================================================
