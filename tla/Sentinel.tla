------------------------------ MODULE Sentinel ------------------------------
(***************************************************************************)
(* The detector of the sentinel (internal/modules/sentinel): every command *)
(* the daemon's gated runner starts is observed; a read of something       *)
(* sensitive that is followed, within a number of commands and a time, by  *)
(* one that talks to a foreign host is a detection.  The engine's mutex    *)
(* makes one observation one step.  What the vocabulary finds in a command *)
(* line is its class here; the quarantine a detection starts is one of the *)
(* lockers of Deadman.                                                     *)
(***************************************************************************)
EXTENDS Integers, FiniteSets

CONSTANTS
  WindowExecs,     \* how many commands the two legs may be apart
  WindowSeconds,   \* and how long
  MaxSeq,          \* bound: commands observed
  MaxNow           \* bound: the clock

ASSUME SentinelAssumption ==
  /\ WindowExecs \in Nat \ {0} /\ WindowSeconds \in Nat \ {0}
  /\ MaxSeq \in Nat /\ MaxNow \in Nat

VARIABLES
  seq,       \* commands observed
  now,       \* the engine's clock
  pending,   \* the reads that wait for a second leg
  reads,     \* history: every read observed
  matched    \* history: the reads some detection was about

sentinelVars == <<seq, now, pending, reads, matched>>

Read == [seq : Nat, at : Nat]

SentinelTypeOK ==
  /\ seq \in Nat /\ now \in Nat
  /\ pending \subseteq Read /\ reads \subseteq Read /\ matched \subseteq Read

SentinelInit == seq = 0 /\ now = 0 /\ pending = {} /\ reads = {} /\ matched = {}

-----------------------------------------------------------------------------
Tick == now < MaxNow /\ now' = now + 1 /\ UNCHANGED <<seq, pending, reads, matched>>

Within(r, s, t) == s - r.seq <= WindowExecs /\ t - r.at <= WindowSeconds

\* Mutant: the window is one command short when reads are thrown out.
PrunedEarly == {r \in pending : Within(r, seq + 2, now)}

\* prune, for the command being observed.
Pruned == {r \in pending : Within(r, seq + 1, now)}

Observe == seq < MaxSeq /\ seq' = seq + 1 /\ UNCHANGED now

\* A command that is neither leg.
ObserveNone == Observe /\ pending' = Pruned /\ UNCHANGED <<reads, matched>>

\* The first leg.
ObserveRead ==
  /\ Observe
  /\ LET r == [seq |-> seq + 1, at |-> now]
     IN pending' = Pruned \cup {r} /\ reads' = reads \cup {r}
  /\ UNCHANGED matched

\* A command that reads and sends at once: a detection, which takes no read away.
ObserveBoth == Observe /\ pending' = Pruned /\ UNCHANGED <<reads, matched>>

\* Mutant: the read a detection was about stays.
EgressKeeps ==
  /\ Observe /\ pending' = Pruned
  /\ matched' = matched \cup {r \in Pruned : \A p \in Pruned : p.seq <= r.seq}
  /\ UNCHANGED reads

\* The second leg: a detection about the latest read that still waits, if there is one.
ObserveEgress ==
  /\ Observe
  /\ LET latest == {r \in Pruned : \A p \in Pruned : p.seq <= r.seq}
     IN pending' = Pruned \ latest /\ matched' = matched \cup latest
  /\ UNCHANGED reads

SentinelNext == Tick \/ ObserveNone \/ ObserveRead \/ ObserveBoth \/ ObserveEgress

SentinelSpec == SentinelInit /\ [][SentinelNext]_sentinelVars

-----------------------------------------------------------------------------
(* Properties.                                                             *)

\* Nothing that could still be the first leg of a detection has been forgotten: a read
\* that no detection was about and that lies within both windows waits, whatever was
\* thrown out or taken in between; what has had its detection waits no more; and the
\* engine's memory is bounded by the window (engine.go:193-249).
NothingMissed ==
  /\ \A r \in reads \ matched : Within(r, seq, now) => r \in pending
  /\ pending \cap matched = {}
  /\ Cardinality(pending) <= WindowExecs + 1
=============================================================================
