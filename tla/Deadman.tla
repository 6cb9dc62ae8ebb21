------------------------------ MODULE Deadman ------------------------------
(***************************************************************************)
(* The dead-man switch: the persisted operator contact, the daemon's timer *)
(* goroutine, the lockdown it (or the sentinel quarantine, or a duress     *)
(* unlock) runs, the armed-run registry and the `abysslink arm` processes  *)
(* that lockdown is meant to stop.                                         *)
(*                                                                         *)
(* Every read-modify-write of the registry, the contact file and the       *)
(* lockdown flag holds the cross-process audit flock (internal/audit       *)
(* Update), so it is one step here.  Everything between two such calls is  *)
(* not protected, and is where the interleavings of this module come from: *)
(* the preflight check and the spawn of an arm, the spawn and its          *)
(* registration, the List of a lockdown and each signal it sends, the      *)
(* read of the contact and the decision taken on it.                       *)
(***************************************************************************)
EXTENDS Integers, FiniteSets

CONSTANTS
  Run,         \* the `abysslink arm` invocations of a behaviour
  Pgid,        \* the process-group ids the operating system hands out
  Locker,      \* who may run a lockdown: "timer", "quarantine", "duress"
  Interval,    \* the no-contact window, in clock units
  MaxTime,     \* the clock stops here (bound)
  MaxBeat,     \* the operator sends no heartbeat after this moment (bound)
  MaxCrashes,  \* bound on daemon and arm processes that die (bound)
  MaxFaults,   \* bound on audit writes and signals that fail (bound)
  ReusePgids,  \* may the operating system hand out a freed pgid again?
  Free,        \* no process group holds the pgid
  Other        \* a process group that no arm started holds the pgid

ASSUME ConstantsAssumption ==
  /\ Interval \in Nat \ {0}
  /\ MaxTime \in Nat /\ MaxBeat \in Nat
  /\ MaxCrashes \in Nat /\ MaxFaults \in Nat
  /\ ReusePgids \in BOOLEAN
  /\ Locker \subseteq {"timer", "quarantine", "duress"}
  /\ Free \notin Run /\ Other \notin Run /\ Free # Other

VARIABLES
  now,       \* the wall clock
  contact,   \* deadman-contact.json: the last contact, Never if there is no file
  flag,      \* deadman-lockdown.json is present
  registry,  \* armed-run registry: pgid and the run (closure hash) registered for it
  recorded,  \* the lockers with a lockdown entry in the audit log
  group,     \* the run (or other program) with a process left in each process group
  leader,    \* the runs whose group leader, the process Spawn started, lives
  armPc,     \* where each arm process is
  armPgid,   \* ArmedHandle.PGID of each arm that has spawned
  armReg,    \* did registerArmedPGID succeed (so its deregister func does something)?
  lkPc,      \* where each lockdown is
  lkRuns,    \* the slice its List returned
  lkFailed,  \* the entries of lkRuns whose SIGKILL failed (in errs)
  lkTodo,    \* the entries of lkRuns its loop has not reached
  lkCur,     \* the entry its loop is at (a set of at most one entry)
  timerPc,   \* the timer goroutine; "off" while the daemon is down
  seen,      \* the contact the current tick read
  firedFor,  \* the contact of the most recent fire (zero time before any)
  latched,   \* single-shot latch
  seedPc,    \* the SeedContact of `deadman enable` ("cli") and of daemon start
  crashes, faults,
  exposed    \* history: the runs registered while a deregistration of their pgid,
             \* on behalf of an earlier holder of it, was still to come

netVars   == <<group, leader, armPc, armPgid, armReg>>
lockVars  == <<lkPc, lkRuns, lkFailed, lkTodo, lkCur>>
timerVars == <<timerPc, seen, firedFor, latched>>
fileVars  == <<contact, flag, registry, recorded, exposed>>
vars == <<now, fileVars, netVars, lockVars, timerVars, seedPc, crashes, faults>>

Never == -1     \* no contact file; also Go's zero time, before every contact
Time  == 0..MaxTime
Entry == [pgid : Pgid, run : Run]
Seeder == {"cli", "daemon"}

ArmPcs   == {"idle", "cleared", "refused", "spawned", "running", "exiting", "done"}
LockPcs  == {"idle", "list", "loop", "term", "kill", "dereg", "revoke", "record", "done"}
TimerPcs == {"off", "start", "wait", "check", "firing"}

TypeOK ==
  /\ now \in Time /\ contact \in Time \cup {Never}
  /\ flag \in BOOLEAN /\ latched \in BOOLEAN
  /\ registry \in SUBSET Entry
  /\ recorded \in SUBSET Locker
  /\ group \in [Pgid -> Run \cup {Free, Other}]
  /\ leader \in SUBSET Run /\ exposed \in SUBSET Run
  /\ armPc \in [Run -> ArmPcs]
  /\ armPgid \in [Run -> SUBSET Pgid]
  /\ armReg \in [Run -> BOOLEAN]
  /\ lkPc \in [Locker -> LockPcs]
  /\ lkRuns \in [Locker -> SUBSET Entry]
  /\ lkFailed \in [Locker -> SUBSET Entry]
  /\ lkTodo \in [Locker -> SUBSET Entry]
  /\ lkCur \in [Locker -> SUBSET Entry]
  /\ timerPc \in TimerPcs
  /\ seen \in Time \cup {Never} /\ firedFor \in Time \cup {Never}
  /\ seedPc \in [Seeder -> {"idle", "write"}]
  /\ crashes \in 0..MaxCrashes /\ faults \in 0..MaxFaults

Init ==
  /\ now = 0 /\ contact = Never /\ flag = FALSE
  /\ registry = {} /\ recorded = {}
  /\ group = [g \in Pgid |-> Free] /\ leader = {} /\ exposed = {}
  /\ armPc = [r \in Run |-> "idle"]
  /\ armPgid = [r \in Run |-> {}]
  /\ armReg = [r \in Run |-> FALSE]
  /\ lkPc = [l \in Locker |-> "idle"]
  /\ lkRuns = [l \in Locker |-> {}]
  /\ lkFailed = [l \in Locker |-> {}]
  /\ lkTodo = [l \in Locker |-> {}]
  /\ lkCur = [l \in Locker |-> {}]
  /\ timerPc = "off" /\ seen = Never /\ firedFor = Never /\ latched = FALSE
  /\ seedPc = [s \in Seeder |-> "idle"]
  /\ crashes = 0 /\ faults = 0

-----------------------------------------------------------------------------
(* Shared steps.                                                           *)

\* An audit-backed write, or a signal, that fails: the caller carries on.
Fault == faults < MaxFaults /\ faults' = faults + 1
NoFault == faults' = faults

\* Registry.Register replaces the entry of the same pgid; Deregister drops those of pgids gs.
Register(e) == {x \in registry : x.pgid # e.pgid} \cup {e}
Deregister(gs) == {x \in registry : x.pgid \notin gs}

Advance ==
  /\ now < MaxTime
  /\ now' = now + 1
  /\ UNCHANGED <<fileVars, netVars, lockVars, timerVars, seedPc, crashes, faults>>

-----------------------------------------------------------------------------
(* Operator: heartbeat, `deadman enable` (seed), removing the flag file.   *)

Heartbeat ==
  /\ now <= MaxBeat
  /\ contact' = now
  /\ UNCHANGED <<now, flag, registry, recorded, exposed, netVars, lockVars, timerVars,
                 seedPc, crashes, faults>>

\* SeedContact reads the contact first ...
SeedRead(s) ==
  /\ seedPc[s] = "idle"
  /\ contact = Never
  /\ seedPc' = [seedPc EXCEPT ![s] = "write"]

\* ... and writes now() through Heartbeat, in a separate critical section.
SeedWrite(s) ==
  /\ seedPc[s] = "write"
  /\ seedPc' = [seedPc EXCEPT ![s] = "idle"]
  /\ \/ contact' = now /\ NoFault
     \/ contact' = contact /\ Fault
  /\ UNCHANGED <<now, flag, registry, recorded, exposed, netVars, lockVars, crashes>>

EnableRead  == SeedRead("cli") /\ UNCHANGED <<now, fileVars, netVars, lockVars,
                                              timerVars, crashes, faults>>
EnableWrite == SeedWrite("cli") /\ UNCHANGED timerVars

ClearLockdownFlag ==
  /\ flag
  /\ flag' = FALSE
  /\ UNCHANGED <<now, contact, registry, recorded, exposed, netVars, lockVars, timerVars,
                 seedPc, crashes, faults>>

-----------------------------------------------------------------------------
(* The arm process: runArm and armSpawnWatchWait.                          *)

ArmPreflight(r) ==
  /\ armPc[r] = "idle"
  /\ armPc' = [armPc EXCEPT ![r] = IF flag THEN "refused" ELSE "cleared"]
  /\ UNCHANGED <<now, fileVars, group, leader, armPgid, armReg, lockVars, timerVars,
                 seedPc, crashes, faults>>

\* The pgid of a spawn is one the kernel considers free.
Allocatable(g) ==
  /\ group[g] = Free
  /\ ReusePgids \/ \A r \in Run : g \notin armPgid[r]

ArmSpawn(r) ==
  /\ armPc[r] = "cleared"
  /\ \E g \in Pgid :
       /\ Allocatable(g)
       /\ group' = [group EXCEPT ![g] = r]
       /\ armPgid' = [armPgid EXCEPT ![r] = {g}]
  /\ leader' = leader \cup {r}
  /\ armPc' = [armPc EXCEPT ![r] = "spawned"]
  /\ UNCHANGED <<now, fileVars, armReg, lockVars, timerVars, seedPc, crashes, faults>>

\* An arm that spawned under pgid g before, or a lockdown whose entry says g, has yet
\* to deregister g.
DeregisterDue(g, r) ==
  \/ \E s \in Run \ {r} : g \in armPgid[s] /\ armPc[s] \in {"spawned", "running", "exiting"}
  \/ \E l \in Locker : \E e \in lkTodo[l] \cup lkCur[l] : e.pgid = g

\* registerArmedPGID is fail-soft: an audit failure leaves the run unregistered.
ArmRegister(r) ==
  /\ armPc[r] = "spawned"
  /\ armPc' = [armPc EXCEPT ![r] = "running"]
  /\ \/ /\ \E g \in armPgid[r] : registry' = Register([pgid |-> g, run |-> r])
        /\ armReg' = [armReg EXCEPT ![r] = TRUE]
        /\ exposed' = exposed \cup {s \in {r} : \E g \in armPgid[s] : DeregisterDue(g, s)}
        /\ NoFault
     \/ Fault /\ UNCHANGED <<registry, armReg, exposed>>
  /\ UNCHANGED <<now, contact, flag, recorded, group, leader, armPgid, lockVars, timerVars,
                 seedPc, crashes>>

Alive(r) == \E g \in Pgid : group[g] = r

\* <-handle.Done: cmd.Wait has reaped the group leader, whoever ended it.  Other
\* processes of its group may live on.
ArmWaited(r) ==
  /\ armPc[r] = "running"
  /\ r \notin leader
  /\ armPc' = [armPc EXCEPT ![r] = "exiting"]
  /\ UNCHANGED <<now, fileVars, group, leader, armPgid, armReg, lockVars, timerVars,
                 seedPc, crashes, faults>>

\* The deferred deregister, by pgid alone; a failure leaves a stale entry.
ArmDeregister(r) ==
  /\ armPc[r] = "exiting"
  /\ armPc' = [armPc EXCEPT ![r] = "done"]
  /\ \/ /\ registry' = IF armReg[r] THEN Deregister(armPgid[r]) ELSE registry
        /\ NoFault
     \/ armReg[r] /\ Fault /\ UNCHANGED registry
  /\ UNCHANGED <<now, contact, flag, recorded, exposed, group, leader, armPgid, armReg, lockVars,
                 timerVars, seedPc, crashes>>

\* The arm process itself dies: nothing is deregistered, the agent lives on.
ArmCrash(r) ==
  /\ armPc[r] \in {"cleared", "spawned", "running", "exiting"}
  /\ crashes < MaxCrashes
  /\ crashes' = crashes + 1
  /\ armPc' = [armPc EXCEPT ![r] = "done"]
  /\ UNCHANGED <<now, fileVars, group, leader, armPgid, armReg, lockVars, timerVars,
                 seedPc, faults>>

\* A process of the group exits by itself (or by the budget ladder): the leader, alone
\* or as the last one, or the last of those that outlived it.
AgentExit(r) ==
  /\ Alive(r)
  /\ leader' = leader \ {r}
  /\ \/ r \in leader /\ group' = group
     \/ group' = [g \in Pgid |-> IF group[g] = r THEN Free ELSE group[g]]
  /\ UNCHANGED <<now, fileVars, armPc, armPgid, armReg, lockVars, timerVars,
                 seedPc, crashes, faults>>

\* The kernel gives a freed pgid to a process that has nothing to do with arm.
OtherSpawn(g) ==
  /\ ReusePgids /\ Allocatable(g)
  /\ group' = [group EXCEPT ![g] = Other]
  /\ UNCHANGED <<now, fileVars, leader, armPc, armPgid, armReg, lockVars, timerVars,
                 seedPc, crashes, faults>>

-----------------------------------------------------------------------------
(* deadman.Lockdown, run by locker l.                                      *)

\* Registry.List: a snapshot, taken without the flock; the registry cannot be
\* read or parsed, and the lockdown goes on without a run to disarm.
LockdownList(l) ==
  /\ lkPc[l] = "list"
  /\ \E runs \in {registry, {}} :
       /\ \/ runs = registry /\ NoFault
          \/ runs = {} /\ Fault
       /\ lkRuns' = [lkRuns EXCEPT ![l] = runs]
       /\ lkTodo' = [lkTodo EXCEPT ![l] = runs]
  /\ lkPc' = [lkPc EXCEPT ![l] = "loop"]
  /\ UNCHANGED <<now, fileVars, netVars, lkFailed, lkCur, timerVars, seedPc, crashes>>

\* Mutant: the loop stops after its first entry.
LockdownNextStops(l) ==
  /\ lkPc[l] = "loop"
  /\ \/ \E e \in lkTodo[l] :
          /\ lkCur' = [lkCur EXCEPT ![l] = {e}]
          /\ lkTodo' = [lkTodo EXCEPT ![l] = {}]
          /\ lkPc' = [lkPc EXCEPT ![l] = "term"]
     \/ /\ lkTodo[l] = {}
        /\ lkPc' = [lkPc EXCEPT ![l] = "revoke"]
        /\ UNCHANGED <<lkCur, lkTodo>>
  /\ UNCHANGED <<now, fileVars, netVars, lkRuns, lkFailed, timerVars, seedPc, crashes, faults>>

\* The loop head: the next entry, or on to revoke when none is left.
LockdownNext(l) ==
  /\ lkPc[l] = "loop"
  /\ \/ \E e \in lkTodo[l] :
          /\ lkCur' = [lkCur EXCEPT ![l] = {e}]
          /\ lkTodo' = [lkTodo EXCEPT ![l] = @ \ {e}]
          /\ lkPc' = [lkPc EXCEPT ![l] = "term"]
     \/ /\ lkTodo[l] = {}
        /\ lkPc' = [lkPc EXCEPT ![l] = "revoke"]
        /\ UNCHANGED <<lkCur, lkTodo>>
  /\ UNCHANGED <<now, fileVars, netVars, lkRuns, lkFailed, timerVars, seedPc, crashes, faults>>

CurPgids(l) == {e.pgid : e \in lkCur[l]}

\* A signal to -pgid reaches whatever group holds the id at that moment.
Signalled(l) == [g \in Pgid |-> IF g \in CurPgids(l) THEN Free ELSE group[g]]
Hit(l) == {r \in Run : \E g \in CurPgids(l) : group[g] = r}

\* disarm, SIGTERM: the group may end on it, or its leader only; or they ignore it, or
\* never receive it.
LockdownTerm(l) ==
  /\ lkPc[l] = "term"
  /\ leader' \in {leader \ Hit(l), leader}
  /\ \/ UNCHANGED group
     \/ group' = Signalled(l) /\ leader' = leader \ Hit(l)
  /\ lkPc' = [lkPc EXCEPT ![l] = "kill"]
  /\ UNCHANGED <<now, fileVars, armPc, armPgid, armReg, lkRuns, lkFailed, lkTodo, lkCur,
                 timerVars, seedPc, crashes, faults>>

\* disarm, SIGKILL after the grace: sent whatever the SIGTERM did.
LockdownKill(l) ==
  /\ lkPc[l] = "kill"
  /\ \/ /\ group' = Signalled(l) /\ leader' = leader \ Hit(l)
        /\ NoFault /\ UNCHANGED lkFailed
     \/ /\ UNCHANGED <<group, leader>> /\ Fault
        /\ lkFailed' = [lkFailed EXCEPT ![l] = @ \cup lkCur[l]]
  /\ lkPc' = [lkPc EXCEPT ![l] = "dereg"]
  /\ UNCHANGED <<now, fileVars, armPc, armPgid, armReg, lkRuns, lkTodo, lkCur,
                 timerVars, seedPc, crashes>>

\* Mutant: a lockdown empties the registry instead of dropping its own entry.
LockdownDeregAll(l) ==
  /\ lkPc[l] = "dereg"
  /\ registry' = {} /\ NoFault
  /\ lkCur' = [lkCur EXCEPT ![l] = {}]
  /\ lkPc' = [lkPc EXCEPT ![l] = "loop"]
  /\ UNCHANGED <<now, contact, flag, recorded, exposed, netVars, lkRuns, lkFailed, lkTodo, timerVars,
                 seedPc, crashes>>

\* "Deregister regardless: the run is being torn down."
LockdownDereg(l) ==
  /\ lkPc[l] = "dereg"
  /\ \/ registry' = Deregister(CurPgids(l)) /\ NoFault
     \/ registry' = registry /\ Fault
  /\ lkCur' = [lkCur EXCEPT ![l] = {}]
  /\ lkPc' = [lkPc EXCEPT ![l] = "loop"]
  /\ UNCHANGED <<now, contact, flag, recorded, exposed, netVars, lkRuns, lkFailed, lkTodo, timerVars,
                 seedPc, crashes>>

\* RevokeAutonomy = SetLockdownFlag; an error is only aggregated.
LockdownRevoke(l) ==
  /\ lkPc[l] = "revoke"
  /\ \/ flag' = TRUE /\ NoFault
     \/ flag' = flag /\ Fault
  /\ lkPc' = [lkPc EXCEPT ![l] = "record"]
  /\ UNCHANGED <<now, contact, registry, recorded, exposed, netVars, lkRuns, lkFailed, lkTodo, lkCur,
                 timerVars, seedPc, crashes>>

\* The "deadman-lockdown" (duress: "session-degraded") audit entry.
LockdownRecord(l) ==
  /\ lkPc[l] = "record"
  /\ \/ recorded' = recorded \cup {l} /\ NoFault
     \/ recorded' = recorded /\ Fault
  /\ lkPc' = [lkPc EXCEPT ![l] = "done"]
  /\ lkRuns' = [lkRuns EXCEPT ![l] = {}]
  /\ lkFailed' = [lkFailed EXCEPT ![l] = {}]
  /\ UNCHANGED <<now, contact, flag, registry, exposed, netVars, lkTodo, lkCur,
                 timerVars, seedPc, crashes>>

LockdownStep(l) ==
  \/ LockdownList(l) \/ LockdownNext(l) \/ LockdownTerm(l) \/ LockdownKill(l)
  \/ LockdownDereg(l) \/ LockdownRevoke(l) \/ LockdownRecord(l)

\* A sentinel detection (in the daemon) or a duress unlock (a CLI process)
\* starts a lockdown of its own; each does so once.
StartLockdown(l) ==
  /\ l # "timer" /\ lkPc[l] = "idle"
  /\ l = "quarantine" => timerPc # "off"
  /\ lkPc' = [lkPc EXCEPT ![l] = "list"]
  /\ UNCHANGED <<now, fileVars, netVars, lkRuns, lkFailed, lkTodo, lkCur, timerVars, seedPc,
                 crashes, faults>>

-----------------------------------------------------------------------------
(* The daemon: startDeadmanTimer, runTimer, process death.                 *)

\* Mutant: a restart takes an expired contact for one it has already fired for.
DaemonStartLatched ==
  /\ timerPc = "off"
  /\ firedFor' = contact /\ latched' = (contact # Never /\ now - contact >= Interval)
  /\ seen' = Never
  /\ \/ /\ SeedRead("daemon")
        /\ timerPc' = "start"
     \/ /\ contact # Never
        /\ timerPc' = "wait"
        /\ UNCHANGED seedPc
  /\ UNCHANGED <<now, fileVars, netVars, lockVars, crashes, faults>>

\* A new process: latch and firedFor start from zero; the contact is on disk.
DaemonStart ==
  /\ timerPc = "off"
  /\ firedFor' = Never /\ latched' = FALSE /\ seen' = Never
  /\ \/ /\ SeedRead("daemon")
        /\ timerPc' = "start"
     \/ /\ contact # Never
        /\ timerPc' = "wait"
        /\ UNCHANGED seedPc
  /\ UNCHANGED <<now, fileVars, netVars, lockVars, crashes, faults>>

DaemonSeed ==
  /\ timerPc = "start"
  /\ SeedWrite("daemon")
  /\ timerPc' = "wait"
  /\ UNCHANGED <<seen, firedFor, latched>>

\* Mutant: the tick keeps the deadline instead of the contact.
TimerReadDeadline ==
  /\ timerPc = "wait"
  /\ seen' = IF contact = Never THEN now ELSE contact + Interval
  /\ latched' = (latched /\ ~(seen' > firedFor))
  /\ timerPc' = IF latched' THEN "wait" ELSE "check"
  /\ UNCHANGED <<now, fileVars, netVars, lockVars, firedFor, seedPc, crashes, faults>>

\* One tick, first half: LastContact (a missing file reads as now), then the
\* re-arm test.  A latched timer goes back to waiting.
TimerRead ==
  /\ timerPc = "wait"
  /\ seen' = IF contact = Never THEN now ELSE contact
  /\ latched' = (latched /\ ~(seen' > firedFor))
  /\ timerPc' = IF latched' THEN "wait" ELSE "check"
  /\ UNCHANGED <<now, fileVars, netVars, lockVars, firedFor, seedPc, crashes, faults>>

\* Second half: the deadline test on the contact read before.
TimerCheck ==
  /\ timerPc = "check"
  /\ now - seen < Interval
  /\ timerPc' = "wait"
  /\ UNCHANGED <<now, fileVars, netVars, lockVars, seen, firedFor, latched, seedPc,
                 crashes, faults>>

TimerFire ==
  /\ timerPc = "check"
  /\ now - seen >= Interval
  /\ timerPc' = "firing"
  /\ lkPc' = [lkPc EXCEPT !["timer"] = "list"]
  /\ UNCHANGED <<now, fileVars, netVars, lkRuns, lkFailed, lkTodo, lkCur, seen, firedFor,
                 latched, seedPc, crashes, faults>>

\* Mutant: firing does not latch.
TimerLatchForgets ==
  /\ timerPc = "firing"
  /\ lkPc["timer"] = "done"
  /\ lkPc' = [lkPc EXCEPT !["timer"] = "idle"]
  /\ firedFor' = seen /\ latched' = FALSE
  /\ timerPc' = "wait"
  /\ UNCHANGED <<now, fileVars, netVars, lkRuns, lkFailed, lkTodo, lkCur, seen, seedPc,
                 crashes, faults>>

\* fireLockdown returned, with or without errors.
TimerLatch ==
  /\ timerPc = "firing"
  /\ lkPc["timer"] = "done"
  /\ lkPc' = [lkPc EXCEPT !["timer"] = "idle"]
  /\ firedFor' = seen /\ latched' = TRUE
  /\ timerPc' = "wait"
  /\ UNCHANGED <<now, fileVars, netVars, lkRuns, lkFailed, lkTodo, lkCur, seen, seedPc,
                 crashes, faults>>

InDaemon(l) == l \in {"timer", "quarantine"}

\* The daemon dies: its goroutines, and the lockdowns they were running, with it.
DaemonCrash ==
  /\ timerPc # "off"
  /\ crashes < MaxCrashes
  /\ crashes' = crashes + 1
  /\ timerPc' = "off"
  /\ seedPc' = [seedPc EXCEPT !["daemon"] = "idle"]
  /\ lkPc' = [l \in Locker |-> IF InDaemon(l) THEN "idle" ELSE lkPc[l]]
  /\ lkCur' = [l \in Locker |-> IF InDaemon(l) THEN {} ELSE lkCur[l]]
  /\ lkFailed' = [l \in Locker |-> IF InDaemon(l) THEN {} ELSE lkFailed[l]]
  /\ lkTodo' = [l \in Locker |-> IF InDaemon(l) THEN {} ELSE lkTodo[l]]
  /\ lkRuns' = [l \in Locker |-> IF InDaemon(l) THEN {} ELSE lkRuns[l]]
  /\ UNCHANGED <<now, fileVars, netVars, seen, firedFor, latched, faults>>

-----------------------------------------------------------------------------
TimerStep == TimerRead \/ TimerCheck \/ TimerFire \/ TimerLatch

Arm(r) == ArmPreflight(r) \/ ArmSpawn(r) \/ ArmRegister(r) \/ ArmWaited(r)
          \/ ArmDeregister(r) \/ ArmCrash(r) \/ AgentExit(r)

Next ==
  \/ Advance \/ Heartbeat \/ EnableRead \/ EnableWrite \/ ClearLockdownFlag
  \/ \E r \in Run : Arm(r)
  \/ \E g \in Pgid : OtherSpawn(g)
  \/ \E l \in Locker : LockdownStep(l) \/ StartLockdown(l)
  \/ DaemonStart \/ DaemonSeed \/ TimerStep \/ DaemonCrash

\* The clock moves, the service manager restarts the daemon, its goroutine is
\* scheduled, a running lockdown goes on.  Nothing is assumed of operator or agents.
Fairness ==
  /\ WF_vars(Advance)
  /\ WF_vars(DaemonStart) /\ WF_vars(DaemonSeed)
  /\ WF_vars(TimerStep)
  /\ \A l \in Locker : WF_vars(LockdownStep(l))

Spec == Init /\ [][Next]_vars
FairSpec == Spec /\ Fairness
-----------------------------------------------------------------------------
(* Properties.                                                             *)

\* A lockdown that has walked its whole list leaves none of the runs it listed
\* alive but those whose own SIGKILL failed, whatever arms, agents, other
\* lockdowns and failed writes did meanwhile (Lockdown: "one failure never
\* strands the rest").
SnapshotDisarmed ==
  \A l \in Locker : lkPc[l] \in {"revoke", "record"} =>
    \A e \in lkRuns[l] \ lkFailed[l] : group[e.pgid] # e.run

\* While nothing failed, an agent whose arm has registered it stays discoverable until
\* the arm's own wait for it is over, whatever deregistrations of earlier holders of its
\* pgid, of other arms and of lockdowns come in between.  Excepted is what the code
\* does hide (README.md, section 6): who outlives the group leader, and a run that
\* registered while a deregistration of its reused pgid was due (exposed).
RegistryCoversLive ==
  faults = 0 =>
    \A r \in leader \ exposed : \A g \in armPgid[r] :
      armReg[r] => [pgid |-> g, run |-> r] \in registry

\* In one daemon life the timer fires for strictly later and later contacts: the
\* latch is released by a fresh heartbeat and by nothing else (runTimer).
FireAdvances ==
  [][(timerPc = "check" /\ timerPc' = "firing") => seen > firedFor]_vars

\* A switch whose contact is t, before its deadline, is followed by a heartbeat
\* or by the lockdown flag at or after the deadline, and the agent of a run registered
\* before that deadline does not outlive it: daemon restarts, a crash in the middle of a
\* lockdown and an operator who clears the flag early do not lose the deadline
\* (T-32-24, CR-02).
DeadlineHolds ==
  \A t \in 0..(MaxTime - Interval) :
    /\ (contact = t /\ now < t + Interval)
         ~> (contact # t \/ (flag /\ now >= t + Interval))
    /\ \A r \in Run :
         (contact = t /\ now < t + Interval /\ \E e \in registry : e.run = r)
           ~> (contact # t \/ r \notin leader)

\* docs/agent-safety.md: "arm will not spawn an agent while a dead-man lockdown
\* is active".
NoSpawnUnderLockdown ==
  [][\A r \in Run : armPc[r] = "cleared" /\ armPc'[r] = "spawned" => ~flag]_vars
=============================================================================
