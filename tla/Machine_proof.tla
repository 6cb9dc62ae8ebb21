--------------------------- MODULE Machine_proof ---------------------------
(* Proofs about the dead-man switch, for every set of runs, pgids and lockers *)
(* and every value of the bounds; about the way back of a file, for any       *)
(* contents, sidecars and deaths; and about the two beside each other.        *)
EXTENDS MCMachine, SequenceTheorems, WellFoundedInduction, TLAPS

-----------------------------------------------------------------------------
(* Every variable keeps its type.                                          *)

\* The files, the pgids and the goroutines start empty.
LEMMA TypingInit == Init => TypeOK
<1> USE ConstantsAssumption DEF TypeOK, Time, Entry, Seeder, Never
<1> SUFFICES ASSUME Init
             PROVE  TypeOK
  OBVIOUS
<1>1. /\ now \in Time /\ contact \in Time \cup {Never} /\ seen \in Time \cup {Never}
      /\ firedFor \in Time \cup {Never} /\ crashes \in 0..MaxCrashes
      /\ faults \in 0..MaxFaults
  BY DEF Init
<1>2. flag \in BOOLEAN /\ latched \in BOOLEAN /\ armReg \in [Run -> BOOLEAN]
  BY DEF Init
<1>3. /\ registry \in SUBSET Entry /\ recorded \in SUBSET Locker
      /\ group \in [Pgid -> Run \cup {Free, Other}]
      /\ armPc \in [Run -> ArmPcs] /\ armPgid \in [Run -> SUBSET Pgid]
      /\ leader \in SUBSET Run /\ exposed \in SUBSET Run
  BY DEF Init, ArmPcs
<1>4. /\ lkPc \in [Locker -> LockPcs] /\ lkRuns \in [Locker -> SUBSET Entry]
      /\ lkFailed \in [Locker -> SUBSET Entry]
      /\ lkTodo \in [Locker -> SUBSET Entry] /\ lkCur \in [Locker -> SUBSET Entry]
      /\ timerPc \in TimerPcs /\ seedPc \in [Seeder -> {"idle", "write"}]
  BY DEF Init, LockPcs, TimerPcs
<1> QED
  BY <1>1, <1>2, <1>3, <1>4, Zenon

\* A step of a lockdown, of an arm or of the daemon writes only values of the
\* types their Go structs have (TypeOK).
THEOREM Typing == Spec => []TypeOK
<1> USE ConstantsAssumption DEF TypeOK, Time, Entry, Seeder, Never
<1>1. Init => TypeOK
  BY TypingInit
<1>2. TypeOK /\ [Next]_vars => TypeOK'
  <2> SUFFICES ASSUME TypeOK, [Next]_vars
               PROVE  TypeOK'
    OBVIOUS
  <2> USE DEF fileVars, netVars, lockVars, timerVars, NoFault, Fault
  <2>1. CASE Advance
    BY <2>1 DEF Advance
  <2>2. CASE Heartbeat
    BY <2>2 DEF Heartbeat
  <2>3. CASE EnableRead \/ EnableWrite
    <3>1. CASE EnableRead
      BY <3>1 DEF EnableRead, SeedRead
    <3>2. CASE EnableWrite
      <4>1. flag' \in BOOLEAN /\ latched' \in BOOLEAN /\ armReg' \in [Run -> BOOLEAN]
        BY <3>2 DEF EnableWrite, SeedWrite
      <4>2. faults' \in 0..MaxFaults /\ contact' \in Time \cup {Never}
        BY <3>2 DEF EnableWrite, SeedWrite
      <4> QED
        BY <3>2, <4>1, <4>2 DEF EnableWrite, SeedWrite
    <3> QED
      BY <2>3, <3>1, <3>2
  <2>4. CASE ClearLockdownFlag
    BY <2>4 DEF ClearLockdownFlag
  <2>5. ASSUME NEW r \in Run, Arm(r)
        PROVE  TypeOK'
    <3> USE DEF ArmPcs
    <3>1. CASE ArmPreflight(r)
      BY <3>1 DEF ArmPreflight
    <3>2. CASE ArmSpawn(r)
      BY <3>2 DEF ArmSpawn
    <3>3. CASE ArmRegister(r)
      <4>1. registry' \in SUBSET Entry
        BY <3>3 DEF ArmRegister, Register
      <4>2. armReg' \in [Run -> BOOLEAN] /\ flag' \in BOOLEAN /\ latched' \in BOOLEAN
        BY <3>3 DEF ArmRegister
      <4>3. faults' \in 0..MaxFaults
        BY <3>3 DEF ArmRegister
      <4> QED
        BY <3>3, <4>1, <4>2, <4>3 DEF ArmRegister
    <3>4. CASE ArmWaited(r)
      BY <3>4 DEF ArmWaited
    <3>5. CASE ArmDeregister(r)
      <4>1. registry' \in SUBSET Entry
        BY <3>5 DEF ArmDeregister, Deregister
      <4>2. flag' \in BOOLEAN /\ latched' \in BOOLEAN /\ armReg' \in [Run -> BOOLEAN]
        BY <3>5 DEF ArmDeregister
      <4>3. faults' \in 0..MaxFaults
        BY <3>5 DEF ArmDeregister
      <4> QED
        BY <3>5, <4>1, <4>2, <4>3 DEF ArmDeregister
    <3>6. CASE ArmCrash(r)
      BY <3>6 DEF ArmCrash
    <3>7. CASE AgentExit(r)
      BY <3>7 DEF AgentExit
    <3> QED
      BY <2>5, <3>1, <3>2, <3>3, <3>4, <3>5, <3>6, <3>7 DEF Arm
  <2>6. ASSUME NEW g \in Pgid, OtherSpawn(g)
        PROVE  TypeOK'
    BY <2>6 DEF OtherSpawn
  <2>7. ASSUME NEW l \in Locker, LockdownStep(l) \/ StartLockdown(l)
        PROVE  TypeOK'
    <3> USE DEF LockPcs
    <3>1. CASE LockdownList(l)
      BY <3>1 DEF LockdownList
    <3>2. CASE LockdownNext(l)
      BY <3>2 DEF LockdownNext
    <3>3. CASE LockdownTerm(l)
      BY <3>3 DEF LockdownTerm, Signalled
    <3>4. CASE LockdownKill(l)
      BY <3>4 DEF LockdownKill, Signalled
    <3>5. CASE LockdownDereg(l)
      BY <3>5 DEF LockdownDereg, Deregister
    <3>6. CASE LockdownRevoke(l)
      <4>1. flag' \in BOOLEAN /\ latched' \in BOOLEAN /\ armReg' \in [Run -> BOOLEAN]
        BY <3>6 DEF LockdownRevoke
      <4>2. faults' \in 0..MaxFaults
        BY <3>6 DEF LockdownRevoke
      <4> QED
        BY <3>6, <4>1, <4>2 DEF LockdownRevoke
    <3>7. CASE LockdownRecord(l)
      <4>1. recorded' = recorded \cup {l} \/ recorded' = recorded
        BY <3>7 DEF LockdownRecord
      <4>2. recorded' \in SUBSET Locker
        BY <4>1, Zenon
      <4>3. faults' \in 0..MaxFaults
        BY <3>7 DEF LockdownRecord
      <4> QED
        BY <3>7, <4>2, <4>3 DEF LockdownRecord
    <3>8. CASE StartLockdown(l)
      BY <3>8 DEF StartLockdown
    <3> QED
      BY <2>7, <3>1, <3>2, <3>3, <3>4, <3>5, <3>6, <3>7, <3>8 DEF LockdownStep
  <2>8. CASE DaemonStart \/ DaemonSeed
    <3> USE DEF TimerPcs
    <3>1. CASE DaemonStart
      <4>1. latched' \in BOOLEAN /\ flag' \in BOOLEAN /\ armReg' \in [Run -> BOOLEAN]
        BY <3>1 DEF DaemonStart
      <4>2. seedPc' \in [Seeder -> {"idle", "write"}] /\ timerPc' \in TimerPcs
        BY <3>1 DEF DaemonStart, SeedRead
      <4> QED
        BY <3>1, <4>1, <4>2 DEF DaemonStart
    <3>2. CASE DaemonSeed
      <4>1. flag' \in BOOLEAN /\ latched' \in BOOLEAN /\ armReg' \in [Run -> BOOLEAN]
        BY <3>2 DEF DaemonSeed, SeedWrite
      <4>2. faults' \in 0..MaxFaults /\ contact' \in Time \cup {Never}
        BY <3>2 DEF DaemonSeed, SeedWrite
      <4> QED
        BY <3>2, <4>1, <4>2 DEF DaemonSeed, SeedWrite
    <3> QED
      BY <2>8, <3>1, <3>2
  <2>9. CASE TimerStep
    <3> USE DEF TimerPcs, LockPcs
    <3>1. CASE TimerRead
      BY <3>1 DEF TimerRead
    <3>2. CASE TimerCheck
      BY <3>2 DEF TimerCheck
    <3>3. CASE TimerFire
      BY <3>3 DEF TimerFire
    <3>4. CASE TimerLatch
      BY <3>4 DEF TimerLatch
    <3> QED
      BY <2>9, <3>1, <3>2, <3>3, <3>4 DEF TimerStep
  <2>10. CASE DaemonCrash
    BY <2>10 DEF DaemonCrash, TimerPcs, LockPcs
  <2>11. CASE UNCHANGED vars
    BY <2>11 DEF vars
  <2> QED
    BY <2>1, <2>2, <2>3, <2>4, <2>5, <2>6, <2>7, <2>8, <2>9, <2>10, <2>11 DEF Next
<1> QED
  BY <1>1, <1>2, PTL DEF Spec
-----------------------------------------------------------------------------
(* The latch.                                                              *)

\* Why fires only move forward: an unlatched timer faces a contact later than
\* the one it fired for, and a fire lies a whole interval in the past, so that
\* even a contact synthesised from the clock is later.
LatchInv ==
  /\ TypeOK
  /\ firedFor = Never \/ firedFor + Interval <= now
  /\ latched \/ contact = Never \/ contact > firedFor
  /\ timerPc = "check" => seen > firedFor
  /\ timerPc = "firing" => seen + Interval <= now

LEMMA LatchInductive == Spec => []LatchInv
<1> USE ConstantsAssumption DEF Time, Never
<1>1. Init => LatchInv
  <2> SUFFICES ASSUME Init
               PROVE  LatchInv
    OBVIOUS
  <2>1. TypeOK
    BY TypingInit
  <2> QED
    BY <2>1 DEF LatchInv, Init
<1>2. LatchInv /\ TypeOK' /\ [Next]_vars => LatchInv'
  <2> SUFFICES ASSUME LatchInv, TypeOK', [Next]_vars
               PROVE  LatchInv'
    OBVIOUS
  <2>b. /\ now \in Nat /\ now' \in Nat /\ seen \in Int /\ seen' \in Int
        /\ firedFor \in Int /\ firedFor' \in Int /\ contact \in Int /\ contact' \in Int
    BY DEF LatchInv, TypeOK
  <2>a. /\ Interval \in Nat /\ Interval > 0 /\ now >= 0 /\ seen >= -1 /\ contact >= -1
    BY DEF LatchInv, TypeOK
  <2>1. CASE UNCHANGED <<now, contact, timerVars>>
    BY <2>1 DEF LatchInv, timerVars
  <2>2. CASE Advance
    BY <2>b, <2>a, <2>2 DEF LatchInv, Advance, fileVars, timerVars
  <2>3. CASE Heartbeat \/ EnableWrite
    <3>1. now' = now /\ contact' \in {now, contact} /\ UNCHANGED timerVars
      BY <2>3 DEF Heartbeat, EnableWrite, SeedWrite
    <3>2. now > firedFor
      BY <2>b, <2>a DEF LatchInv
    <3> QED
      BY <2>b, <2>a, <3>1, <3>2 DEF LatchInv, timerVars
  <2>4. CASE DaemonStart
    BY <2>b, <2>a, <2>4 DEF LatchInv, DaemonStart, fileVars
  <2>5. CASE DaemonSeed
    BY <2>b, <2>a, <2>5 DEF LatchInv, DaemonSeed, SeedWrite
  <2>6. CASE TimerStep
    <3>1. CASE TimerRead
      <4>1. now > firedFor
        BY <2>b, <2>a DEF LatchInv
      <4>2. /\ UNCHANGED <<now, contact, firedFor>>
            /\ seen' = (IF contact = Never THEN now ELSE contact)
            /\ latched' = (latched /\ ~(seen' > firedFor))
            /\ timerPc' = (IF latched' THEN "wait" ELSE "check")
        BY <3>1 DEF TimerRead, fileVars
      <4>3. latched' \/ contact = Never \/ contact > firedFor
        BY <2>b, <4>2 DEF LatchInv
      <4>4. timerPc' = "check" => seen' > firedFor
        BY <2>b, <4>1, <4>2 DEF LatchInv
      <4>5. timerPc' # "firing"
        BY <4>2
      <4> QED
        BY <4>2, <4>3, <4>4, <4>5 DEF LatchInv
    <3>2. CASE TimerCheck
      BY <2>b, <2>a, <3>2 DEF LatchInv, TimerCheck, fileVars
    <3>3. CASE TimerFire
      BY <2>b, <2>a, <3>3 DEF LatchInv, TimerFire, fileVars
    <3>4. CASE TimerLatch
      BY <2>b, <2>a, <3>4 DEF LatchInv, TimerLatch, fileVars
    <3> QED
      BY <2>6, <3>1, <3>2, <3>3, <3>4 DEF TimerStep
  <2>7. CASE DaemonCrash
    BY <2>b, <2>a, <2>7 DEF LatchInv, DaemonCrash, fileVars
  <2>8. ASSUME NEW r \in Run, Arm(r)
        PROVE  UNCHANGED <<now, contact, timerVars>>
    BY <2>8 DEF Arm, ArmPreflight, ArmSpawn, ArmRegister, ArmWaited, ArmDeregister,
                ArmCrash, AgentExit, fileVars
  <2>9. ASSUME NEW l \in Locker, LockdownStep(l) \/ StartLockdown(l)
        PROVE  UNCHANGED <<now, contact, timerVars>>
    BY <2>9 DEF LockdownStep, LockdownList, LockdownNext, LockdownTerm, LockdownKill,
                LockdownDereg, LockdownRevoke, LockdownRecord, StartLockdown, fileVars
  <2>10. CASE EnableRead \/ ClearLockdownFlag \/ UNCHANGED vars
    BY <2>1, <2>10 DEF EnableRead, ClearLockdownFlag, vars, fileVars, timerVars
  <2>11. ASSUME NEW g \in Pgid, OtherSpawn(g)
         PROVE  UNCHANGED <<now, contact, timerVars>>
    BY <2>11 DEF OtherSpawn, fileVars
  <2> QED
    BY <2>1, <2>2, <2>3, <2>4, <2>5, <2>6, <2>7, <2>8, <2>9, <2>10, <2>11 DEF Next
<1> QED
  BY <1>1, <1>2, Typing, PTL DEF Spec

\* The timer never fires twice for one contact in one daemon life, and never for
\* an older one (runTimer: the latch is released by a fresh heartbeat only).
THEOREM FiresAdvance == Spec => FireAdvances
<1>1. LatchInv /\ [Next]_vars =>
        [(timerPc = "check" /\ timerPc' = "firing") => seen > firedFor]_vars
  BY DEF LatchInv
<1> QED
  BY <1>1, LatchInductive, PTL DEF Spec, FireAdvances
-----------------------------------------------------------------------------
(* Lockdown against the arms it races with.                                *)

\* The run of e has spawned, with that pgid: it can never be the run of a later
\* spawn.
Launched(e) ==
  armPc[e.run] \notin {"idle", "cleared", "refused"} /\ e.pgid \in armPgid[e.run]

Known(l) == registry \cup lkRuns[l] \cup lkTodo[l] \cup lkCur[l]

\* Why a lockdown leaves none of its snapshot alive: an entry of the snapshot is
\* still to come, or is the one under the signals, or its SIGKILL failed, or it
\* is dead; and dead is for good, because a pgid handed out again belongs to
\* another run.
SnapshotInv ==
  /\ TypeOK
  /\ \A l \in Locker : \A e \in Known(l) : Launched(e)
  /\ \A l \in Locker : lkPc[l] \in {"revoke", "record"} => lkTodo[l] = {}
  /\ "timer" \in Locker /\ timerPc # "firing" => lkPc["timer"] = "idle"
  /\ \A l \in Locker : \A e \in lkRuns[l] \ lkFailed[l] :
       \/ e \in lkTodo[l]
       \/ e \in lkCur[l] /\ lkPc[l] \in {"term", "kill"}
       \/ group[e.pgid] # e.run

\* Why deregistration never hides a live agent: its pgid is its own while its group
\* leader lives, its arm deregisters only afterwards, whoever held the pgid before has
\* deregistered before it registered (or else it is exposed), and a lockdown comes to
\* deregister a pgid only after the SIGKILL.
CoverInv ==
  /\ \A r \in Run : armPc[r] \in {"idle", "cleared", "refused"} => armPgid[r] = {} /\ r \notin leader
  /\ \A r \in Run : armReg[r] => armPc[r] \in {"running", "exiting", "done"}
  /\ \A r \in Run : armPc[r] = "exiting" => r \notin leader
  /\ \A r \in Run : \A g, h \in armPgid[r] : g = h
  /\ \A r \in leader : \A g \in armPgid[r] : group[g] = r
  /\ faults = 0 => \A r \in leader \ exposed : \A g \in armPgid[r] : armReg[r] =>
       /\ [pgid |-> g, run |-> r] \in registry
       /\ \A s \in Run \ {r} : g \in armPgid[s] => armPc[s] \notin {"spawned", "running", "exiting"}
       /\ \A l \in Locker : lkPc[l] = "dereg" => \A e \in lkCur[l] : e.pgid # g

LEMMA SnapshotInductive == Spec => []SnapshotInv
<1> USE ConstantsAssumption
<1>1. Init => SnapshotInv
  BY TypingInit DEF Init, SnapshotInv, Known
<1>2. SnapshotInv /\ TypeOK' /\ [Next]_vars => SnapshotInv'
  <2> SUFFICES ASSUME SnapshotInv, TypeOK', [Next]_vars
               PROVE  SnapshotInv'
    OBVIOUS
  <2> USE DEF SnapshotInv, Known, Launched
  <2>t. TypeOK
    OBVIOUS
  <2>1. CASE UNCHANGED <<registry, lockVars, armPc, armPgid, timerPc, faults>>
             /\ \A g \in Pgid : group'[g] \in {group[g], Free, Other}
    <3>1. \A l \in Locker : \A e \in lkRuns[l] : group[e.pgid] # e.run => group'[e.pgid] # e.run
      BY <2>t, <2>1, ConstantsAssumption DEF TypeOK, Entry
    <3> QED
      BY <2>1, <3>1 DEF lockVars
  <2>2. ASSUME NEW r \in Run, Arm(r)
        PROVE  SnapshotInv'
    <3>1. CASE ArmPreflight(r)
      BY <2>t, <3>1 DEF ArmPreflight, lockVars, timerVars, fileVars, TypeOK, Entry
    <3>2. CASE ArmSpawn(r)
      BY <2>t, <3>2 DEF ArmSpawn, lockVars, timerVars, fileVars, TypeOK, Entry
    <3>3. CASE ArmRegister(r)
      BY <2>t, <3>3 DEF ArmRegister, Register, NoFault, Fault, lockVars, timerVars, TypeOK, Entry
    <3>4. CASE ArmWaited(r)
      BY <2>t, <3>4 DEF ArmWaited, lockVars, timerVars, fileVars, TypeOK, Entry
    <3>5. CASE ArmDeregister(r)
      BY <2>t, <3>5 DEF ArmDeregister, Deregister, NoFault, Fault, lockVars, timerVars, TypeOK, Entry
    <3>6. CASE ArmCrash(r)
      BY <2>t, <3>6 DEF ArmCrash, lockVars, timerVars, fileVars, TypeOK, Entry
    <3>7. CASE AgentExit(r)
      BY <2>t, <2>1, <3>7 DEF AgentExit, timerVars, fileVars, TypeOK
    <3> QED
      BY <2>2, <3>1, <3>2, <3>3, <3>4, <3>5, <3>6, <3>7 DEF Arm
  <2>3. ASSUME NEW l \in Locker, LockdownStep(l) \/ StartLockdown(l)
        PROVE  SnapshotInv'
    <3> USE DEF netVars, timerVars, fileVars
    <3>1. CASE LockdownList(l)
      BY <2>t, <3>1 DEF LockdownList, NoFault, Fault, TypeOK, Entry
    <3>2. CASE LockdownNext(l)
      BY <2>t, <3>2 DEF LockdownNext, TypeOK, Entry
    <3>3. CASE LockdownTerm(l)
      <4>1. \A g \in Pgid : group'[g] \in {group[g], Free}
        BY <2>t, <3>3 DEF LockdownTerm, Signalled, TypeOK
      <4>2. \A k \in Locker : \A e \in lkRuns[k] : group[e.pgid] # e.run => group'[e.pgid] # e.run
        BY <2>t, <4>1 DEF TypeOK, Entry
      <4> QED
        BY <2>t, <3>3, <4>2 DEF LockdownTerm, TypeOK
    <3>4. CASE LockdownKill(l)
      <4>1. \A g \in Pgid : group'[g] \in {group[g], Free}
        BY <2>t, <3>4 DEF LockdownKill, Signalled, TypeOK
      <4>2. \A k \in Locker : \A e \in lkRuns[k] : group[e.pgid] # e.run => group'[e.pgid] # e.run
        BY <2>t, <4>1 DEF TypeOK, Entry
      <4>3. \A e \in lkRuns[l] \cap lkCur[l] : e \in lkFailed'[l] \/ group'[e.pgid] # e.run
        BY <2>t, <3>4 DEF LockdownKill, Signalled, CurPgids, TypeOK, Entry
      <4>4. /\ lkPc[l] = "kill" /\ lkPc' = [lkPc EXCEPT ![l] = "dereg"]
            /\ lkFailed' = lkFailed \/ lkFailed' = [lkFailed EXCEPT ![l] = @ \cup lkCur[l]]
            /\ UNCHANGED <<registry, armPc, armPgid, lkRuns, lkTodo, lkCur, timerPc>>
        BY <3>4 DEF LockdownKill
      <4> QED
        BY <2>t, <4>2, <4>3, <4>4 DEF TypeOK
    <3>5. CASE LockdownDereg(l)
      BY <2>t, <3>5 DEF LockdownDereg, Deregister, NoFault, Fault, TypeOK, Entry
    <3>6. CASE LockdownRevoke(l)
      BY <2>t, <3>6 DEF LockdownRevoke, NoFault, Fault, TypeOK, Entry
    <3>7. CASE LockdownRecord(l)
      BY <2>t, <3>7 DEF LockdownRecord, NoFault, Fault, TypeOK, Entry
    <3>8. CASE StartLockdown(l)
      BY <2>t, <3>8 DEF StartLockdown, TypeOK, Entry
    <3> QED
      BY <2>3, <3>1, <3>2, <3>3, <3>4, <3>5, <3>6, <3>7, <3>8 DEF LockdownStep
  <2>4. CASE TimerStep
    <3> USE DEF netVars, lockVars, fileVars
    <3>1. CASE TimerRead \/ TimerCheck
      BY <2>t, <3>1 DEF TimerRead, TimerCheck
    <3>2. CASE TimerFire
      BY <2>t, <3>2 DEF TimerFire, TypeOK
    <3>3. CASE TimerLatch
      BY <2>t, <3>3 DEF TimerLatch, TypeOK
    <3> QED
      BY <2>4, <3>1, <3>2, <3>3 DEF TimerStep
  <2>5. CASE DaemonCrash
    BY <2>t, <2>5 DEF DaemonCrash, InDaemon, netVars, fileVars, TypeOK, Entry
  <2>6. CASE DaemonStart \/ DaemonSeed
    BY <2>t, <2>6 DEF DaemonStart, DaemonSeed, SeedWrite, NoFault, Fault, netVars, lockVars,
                      fileVars, TypeOK, Entry
  <2>7. CASE EnableWrite
    BY <2>t, <2>7 DEF EnableWrite, SeedWrite, NoFault, Fault, netVars, lockVars, timerVars,
                      TypeOK, Entry
  <2>8. CASE Advance \/ Heartbeat \/ EnableRead \/ ClearLockdownFlag \/ UNCHANGED vars
    BY <2>t, <2>1, <2>8 DEF Advance, Heartbeat, EnableRead, ClearLockdownFlag, vars, fileVars,
                            netVars, timerVars, TypeOK
  <2>9. ASSUME NEW g \in Pgid, OtherSpawn(g)
        PROVE  SnapshotInv'
    BY <2>t, <2>1, <2>9 DEF OtherSpawn, fileVars, timerVars, TypeOK
  <2> QED
    BY <2>2, <2>3, <2>4, <2>5, <2>6, <2>7, <2>8, <2>9 DEF Next
<1> QED
  BY <1>1, <1>2, Typing, PTL DEF Spec

\* A lockdown leaves no run of its snapshot alive but those whose own SIGKILL
\* failed (Lockdown).
THEOREM LockdownDisarmsItsSnapshot == Spec => []SnapshotDisarmed
<1>1. SnapshotInv => SnapshotDisarmed
  BY DEF SnapshotInv, SnapshotDisarmed
<1> QED
  BY <1>1, SnapshotInductive, PTL

LEMMA CoverInductive == Spec => []CoverInv
<1> USE ConstantsAssumption DEF CoverInv
<1>1. Init => CoverInv
  BY DEF Init
<1>2. TypeOK /\ TypeOK' /\ CoverInv /\ [Next]_vars => CoverInv'
  <2> SUFFICES ASSUME TypeOK, TypeOK', CoverInv, [Next]_vars
               PROVE  CoverInv'
    OBVIOUS
  <2>1. CASE UNCHANGED <<registry, exposed, lockVars, netVars, faults>>
    BY <2>1 DEF lockVars, netVars
  <2>2. ASSUME NEW r \in Run, Arm(r)
        PROVE  CoverInv'
    <3> USE DEF lockVars, timerVars, fileVars, TypeOK, Entry
    <3>1. CASE ArmPreflight(r)
      BY <3>1 DEF ArmPreflight
    <3>2. CASE ArmSpawn(r)
      BY <3>2 DEF ArmSpawn, Allocatable
    <3>3. CASE ArmRegister(r)
      BY <3>3 DEF ArmRegister, Register, DeregisterDue, NoFault, Fault
    <3>4. CASE ArmWaited(r)
      BY <3>4 DEF ArmWaited
    <3>5. CASE ArmDeregister(r)
      BY <3>5 DEF ArmDeregister, Deregister, NoFault, Fault
    <3>6. CASE ArmCrash(r)
      BY <3>6 DEF ArmCrash
    <3>7. CASE AgentExit(r)
      BY <3>7 DEF AgentExit
    <3> QED
      BY <2>2, <3>1, <3>2, <3>3, <3>4, <3>5, <3>6, <3>7 DEF Arm
  <2>3. ASSUME NEW l \in Locker, LockdownStep(l) \/ StartLockdown(l)
        PROVE  CoverInv'
    <3> USE DEF netVars, timerVars, fileVars, TypeOK, Entry
    <3>1. CASE LockdownList(l) \/ StartLockdown(l)
      BY <3>1 DEF LockdownList, StartLockdown, NoFault, Fault
    <3>2. CASE LockdownNext(l)
      BY <3>2 DEF LockdownNext
    <3>3. CASE LockdownTerm(l)
      BY <3>3 DEF LockdownTerm, Signalled, Hit
    <3>4. CASE LockdownKill(l)
      BY <3>4 DEF LockdownKill, Signalled, Hit, CurPgids, NoFault, Fault
    <3>5. CASE LockdownDereg(l)
      BY <3>5 DEF LockdownDereg, Deregister, CurPgids, NoFault, Fault
    <3>6. CASE LockdownRevoke(l) \/ LockdownRecord(l)
      BY <3>6 DEF LockdownRevoke, LockdownRecord, NoFault, Fault
    <3> QED
      BY <2>3, <3>1, <3>2, <3>3, <3>4, <3>5, <3>6 DEF LockdownStep
  <2>4. CASE TimerStep
    BY <2>4 DEF TimerStep, TimerRead, TimerCheck, TimerFire, TimerLatch, netVars,
                lockVars, fileVars, TypeOK
  <2>5. CASE DaemonCrash
    BY <2>5 DEF DaemonCrash, netVars, fileVars, TypeOK
  <2>6. CASE DaemonStart \/ DaemonSeed \/ EnableWrite
    BY <2>6 DEF DaemonStart, DaemonSeed, EnableWrite, SeedWrite, NoFault, Fault, netVars,
                lockVars, fileVars, TypeOK
  <2>7. CASE Advance \/ Heartbeat \/ EnableRead \/ ClearLockdownFlag \/ UNCHANGED vars
    BY <2>1, <2>7 DEF Advance, Heartbeat, EnableRead, ClearLockdownFlag, vars, fileVars
  <2>8. ASSUME NEW g \in Pgid, OtherSpawn(g)
        PROVE  CoverInv'
    BY <2>8 DEF OtherSpawn, Allocatable, lockVars, fileVars, TypeOK
  <2> QED
    BY <2>2, <2>3, <2>4, <2>5, <2>6, <2>7, <2>8 DEF Next
<1> QED
  BY <1>1, <1>2, Typing, PTL DEF Spec

\* While no write or signal has failed, every agent whose arm registered it is in the
\* registry until its arm's wait for it is over, with pgids reused or not (Register,
\* Deregister; arm_cmd.go:334-407).
THEOREM LiveAgentsAreDiscoverable == Spec => []RegistryCoversLive
<1>1. CoverInv => RegistryCoversLive
  BY DEF CoverInv, RegistryCoversLive
<1> QED
  BY <1>1, CoverInductive, PTL

-----------------------------------------------------------------------------
(* The way back.                                                           *)

Sidecar == [content : Users \cup Own, there : BOOLEAN, attested : BOOLEAN]

\* The uninstall is about to put a backup back, or to remove the file.
Restores == (remover = "act" /\ plan.action = "restore") \/ remover = "write"
Deletes == (remover = "act" /\ plan.action = "delete") \/ remover = "remove"

\* What a step of a command says of its plan, and a writer that will make a sidecar has
\* room for it.
StepInv ==
  /\ writer \in {"backup", "intent"} => Len(side) < MaxSide
  /\ remover = "act" => plan.action \in {"restore", "delete"}
  /\ remover \in {"write", "sweep"} => plan.action = "restore"
  /\ Restores => plan.bak \in 1..Len(side)

\* While nobody interferes one command is at work; a file that abysslink has not touched
\* has no sidecars; and a file is put back or written over only after abysslink has
\* touched it.
Alone ==
  /\ writer = "idle" \/ remover = "idle"
  /\ untouched => There = {}
  /\ writer = "apply" \/ Restores \/ remover = "sweep" => ~untouched
  /\ Deletes => There = {}
  /\ remover = "sweep" => sweep = There

First(i) == i \in There /\ \A j \in There : i <= j

\* A file that the user had before abysslink is as it was until abysslink touches it, and
\* its earliest sidecar is the original afterwards; a restore goes for that one, and has
\* put it back before the sidecars are removed; and it is not deleted, for nobody could
\* take it for one that abysslink made.
WayBack ==
  /\ untouched => disk = original
  /\ writer = "record" => ~untouched
  /\ ~Deletes
  /\ ~untouched /\ remover # "sweep" => \E i \in There : First(i) /\ side[i].content = original
  /\ Restores => First(plan.bak)
  /\ remover = "sweep" => disk = original

UndoInv ==
  /\ ReversalTypeOK /\ StepInv
  /\ ~spoiled => Alone
  /\ ~spoiled /\ ~Mixed /\ original # Absent => WayBack

-----------------------------------------------------------------------------
\* A set of numbers that is not empty has a least.
LEMMA LeastExists ==
  ASSUME NEW S \in SUBSET Nat, S # {}
  PROVE  Earliest(S) \in S /\ \A j \in S : Earliest(S) <= j
<1> DEFINE R == OpToRel(<, Nat)
<1>1. R = {p \in Nat \X Nat : p[1] < p[2]}
  BY Zenon DEF OpToRel
<1>2. IsWellFoundedOn(R, Nat)
  BY NatLessThanWellFounded
<1> HIDE DEF R
<1>3. PICK x \in S : \A y \in S : ~ (<<y, x>> \in R)
  <2>1. S \subseteq Nat
    OBVIOUS
  <2> QED
    BY <1>2, <2>1, WFMin
<1>4. \A y \in S : ~ (y < x)
  BY <1>1, <1>3
<1>5. \E i \in S : \A j \in S : i <= j
  BY <1>4
<1> QED
  BY <1>5, Zenon DEF Earliest

\* The sidecars there and those with an entry are numbered like the sequence.
LEMMA SideTypes ==
  ASSUME ReversalTypeOK
  PROVE  /\ side \in Seq(Sidecar) /\ Len(side) \in Nat
         /\ There \in SUBSET Nat /\ There \subseteq 1..Len(side)
         /\ Attested \in SUBSET Nat /\ Attested \subseteq 1..Len(side)
         /\ \A i \in 1..Len(side) : side[i] \in Sidecar
<1>1. side \in Seq(Sidecar)
  BY DEF ReversalTypeOK, Sidecar
<1> QED
  BY <1>1 DEF There, Attested

\* With the same sidecars the same are there, and they are mixed or not.
LEMMA SideSame ==
  ASSUME UNCHANGED side
  PROVE  There' = There /\ Attested' = Attested /\ Mixed' = Mixed
BY DEF There, Attested, Mixed

\* A restore of the first of some sidecars.
LEMMA RestoreOfFirst ==
  ASSUME ReversalTypeOK, NEW S \in SUBSET There, S # {}
  PROVE  /\ RestoreOf(S) \in [action : Action, bak : 0..Len(side)]
         /\ RestoreOf(S).action = "restore" /\ RestoreOf(S).bak \in S
         /\ \A j \in S : RestoreOf(S).bak <= j
<1>1. There \subseteq 1..Len(side) /\ Len(side) \in Nat /\ S \in SUBSET Nat
  BY SideTypes
<1>2. Earliest(S) \in S /\ \A j \in S : Earliest(S) <= j
  BY <1>1, LeastExists
<1>3. Earliest(S) \in 0..Len(side) /\ "restore" \in Action
  <2>1. Earliest(S) \in 1..Len(side)
    BY <1>1, <1>2
  <2> QED
    BY <1>1, <2>1 DEF Action
<1>4. RestoreOf(S) = [action |-> "restore", bak |-> Earliest(S)]
  BY DEF RestoreOf
<1> QED
  BY <1>2, <1>3, <1>4

\* The plan.
LEMMA Decided ==
  ASSUME ReversalTypeOK
  PROVE  /\ Decide \in [action : Action, bak : 0..Len(side)]
         /\ Decide.action \in {"restore", "delete", "skip"}
         /\ Decide.action = "restore" => Decide.bak \in There /\ There # {}
         /\ Decide.action = "restore" /\ ~Mixed => First(Decide.bak)
         /\ Decide.action = "delete" => There = {} /\ Attested = {} /\ ~restored /\ disk # Absent
         /\ There = {} /\ restored => Decide.action = "skip"
<1> DEFINE existing == Attested \cap There
<1>1. /\ There \in SUBSET Nat /\ There \subseteq 1..Len(side) /\ Len(side) \in Nat
      /\ Attested \subseteq 1..Len(side)
  BY SideTypes
<1>2. /\ To("skip") = [action |-> "skip", bak |-> 0]
      /\ To("delete") = [action |-> "delete", bak |-> 0]
  BY DEF To
<1>3. CASE existing # {}
  <2>1. Decide = RestoreOf(existing)
    BY <1>3 DEF Decide
  <2>2. existing \in SUBSET There
    OBVIOUS
  <2>3. ~Mixed => \A i \in existing, j \in There \ existing : i < j
    BY <1>1 DEF Mixed, Attested
  <2>4. /\ Decide \in [action : Action, bak : 0..Len(side)]
        /\ Decide.action = "restore" /\ Decide.bak \in existing
        /\ \A j \in existing : Decide.bak <= j
    BY <1>3, <2>1, <2>2, RestoreOfFirst
  <2> HIDE DEF existing
  <2>5. Decide.bak \in There /\ There # {}
    BY <2>2, <2>4
  <2>6. ~Mixed => \A j \in There : Decide.bak <= j
    BY <1>1, <2>2, <2>3, <2>4
  <2> QED
    BY <2>4, <2>5, <2>6 DEF First
<1>4. CASE existing = {} /\ (Attested # {} \/ restored)
  <2>1. Decide = To("skip")
    BY <1>4 DEF Decide
  <2> QED
    BY <1>1, <1>2, <2>1 DEF Action
<1>5. CASE existing = {} /\ Attested = {} /\ ~restored /\ There # {}
  <2>1. Decide = RestoreOf(There)
    BY <1>5 DEF Decide
  <2>2. /\ Decide \in [action : Action, bak : 0..Len(side)]
        /\ Decide.action = "restore" /\ Decide.bak \in There
        /\ \A j \in There : Decide.bak <= j
    BY <1>5, <2>1, RestoreOfFirst
  <2> QED
    BY <1>5, <2>2 DEF First
<1>6. CASE existing = {} /\ Attested = {} /\ ~restored /\ There = {}
  <2>1. Decide = To(IF disk # Absent THEN "delete" ELSE "skip")
    BY <1>6 DEF Decide
  <2> QED
    BY <1>1, <1>2, <1>6, <2>1 DEF Action
<1> QED
  BY <1>3, <1>4, <1>5, <1>6

-----------------------------------------------------------------------------
(* The steps.                                                              *)

\* The parts of the invariant, to be had at once.
LEMMA Parts ==
  ASSUME UndoInv
  PROVE  /\ ReversalTypeOK /\ StepInv /\ (~spoiled => Alone)
         /\ (~spoiled /\ ~Mixed /\ original # Absent => WayBack)
         /\ side \in Seq(Sidecar) /\ Len(side) \in Nat
         /\ There \subseteq 1..Len(side) /\ \A i \in 1..Len(side) : side[i] \in Sidecar
BY SideTypes DEF UndoInv

\* The user.
LEMMA EditKeeps ==
  ASSUME UndoInv, NEW c \in Users \cup {Absent}, Edit(c)
  PROVE  UndoInv'
<1> USE DEF writerVars, removerVars
<1>1. There' = There /\ Mixed' = Mixed
  BY SideSame DEF Edit
<1>2. ReversalTypeOK'
  BY Parts DEF Edit, ReversalTypeOK, File
<1>3. StepInv'
  BY Parts DEF Edit, StepInv, Restores
<1>4. ASSUME ~spoiled'
      PROVE  Alone' /\ writer = "idle" /\ remover = "idle" /\ ~spoiled /\ (untouched => There = {})
  <2>1. ~spoiled /\ writer = "idle" /\ remover = "idle"
    BY <1>4 DEF Edit
  <2> QED
    BY <1>1, <2>1, Parts DEF Edit, Alone, Restores, Deletes
<1>5. ASSUME ~spoiled', ~Mixed', original' # Absent
      PROVE  WayBack'
  <2>1. ~untouched => original' = original
    BY DEF Edit
  <2> QED
    BY <1>1, <1>4, <1>5, <2>1, Parts DEF Edit, WayBack, First, Restores, Deletes
<1> QED
  BY <1>2, <1>3, <1>4, <1>5 DEF UndoInv

LEMMA RestoreGatedKeeps ==
  ASSUME UndoInv, NEW i \in 1..Len(side), RestoreGated(i)
  PROVE  UndoInv'
<1> USE DEF writerVars, removerVars
<1>1. There' = There /\ Mixed' = Mixed
  BY SideSame DEF RestoreGated
<1>2. ReversalTypeOK'
  <2>1. side[i].content \in Users \cup Own /\ side[i].attested \in BOOLEAN
    BY Parts DEF Sidecar
  <2> QED
    BY <2>1, Parts DEF RestoreGated, ReversalTypeOK, File
<1>3. StepInv'
  BY Parts DEF RestoreGated, StepInv, Restores
<1>4. ~spoiled' => Alone'
  BY <1>1, Parts DEF RestoreGated, Alone, Restores, Deletes
<1>5. ASSUME ~spoiled', ~Mixed', original' # Absent
      PROVE  WayBack'
  <2>1. Alone /\ WayBack
    BY <1>1, <1>5, Parts DEF RestoreGated
  <2> QED
    BY <1>1, <2>1 DEF RestoreGated, Alone, WayBack, First, Restores, Deletes
<1> QED
  BY <1>2, <1>3, <1>4, <1>5 DEF UndoInv

\* The writers.
LEMMA BeginKeeps ==
  ASSUME UndoInv, NEW c \in Own, NEW s \in BOOLEAN, Begin(c, s)
  PROVE  UndoInv'
<1> USE DEF diskVars, removerVars
<1>1. There' = There /\ Mixed' = Mixed
  BY SideSame DEF Begin
<1>2. /\ writer = "idle" /\ writer' \in {"record", "backup", "intent"} /\ Len(side) < MaxSide
      /\ (writer' = "record" => disk = Absent)
      /\ new' = c /\ signed' = s /\ spoiled' = (spoiled \/ remover # "idle")
      /\ UNCHANGED <<disk, side, lastWrite, restored, remover, plan, sweep, torn, original,
                     untouched, mine>>
  BY DEF Begin
<1>3. ReversalTypeOK'
  BY <1>2, Parts DEF ReversalTypeOK
<1>4. StepInv'
  BY <1>2, Parts DEF StepInv, Restores
<1>5. ~spoiled' => Alone'
  BY <1>1, <1>2, Parts DEF Alone, Restores, Deletes
<1>6. ~spoiled' /\ ~Mixed' /\ original' # Absent => WayBack'
  BY <1>1, <1>2, Parts DEF WayBack, First, Restores, Deletes
<1> QED
  BY <1>3, <1>4, <1>5, <1>6 DEF UndoInv

LEMMA RecordKeeps ==
  ASSUME UndoInv, Record
  PROVE  UndoInv'
<1> USE DEF removerVars
<1>1. There' = There /\ Mixed' = Mixed
  BY SideSame DEF Record
<1>2. ReversalTypeOK'
  BY Parts DEF Record, ReversalTypeOK
<1>3. StepInv'
  BY Parts DEF Record, StepInv, Restores
<1>4. ~spoiled' => Alone'
  BY <1>1, Parts DEF Record, Alone, Restores, Deletes
<1>5. ASSUME ~spoiled', ~Mixed', original' # Absent
      PROVE  WayBack'
  <2>1. Alone /\ WayBack
    BY <1>1, <1>5, Parts DEF Record
  <2>2. untouched' = untouched
    BY <2>1, Parts DEF Record, WayBack, ReversalTypeOK
  <2> QED
    BY <1>1, <2>1, <2>2 DEF Record, WayBack, First, Restores, Deletes
<1> QED
  BY <1>2, <1>3, <1>4, <1>5 DEF UndoInv

LEMMA ApplyKeeps ==
  ASSUME UndoInv, Apply \/ WriterDies
  PROVE  UndoInv'
<1> USE DEF removerVars, diskVars, historyVars, WriterEnds
<1>1. There' = There /\ Mixed' = Mixed
  BY SideSame DEF Apply, WriterDies
<1>2. /\ writer' = "idle" /\ new' = Absent /\ signed' = FALSE
      /\ disk' = disk \/ (writer = "apply" /\ disk' = new)
      /\ UNCHANGED <<side, lastWrite, restored, removerVars, historyVars>>
      /\ torn' = torn \/ Torn
  BY DEF Apply, WriterDies
<1>3. ReversalTypeOK'
  <2>1. torn' \in 0..MaxTorn
    BY <1>2, Parts, ReversalAssumption DEF Torn, ReversalTypeOK
  <2>2. disk' \in File
    BY <1>2, Parts DEF ReversalTypeOK, File
  <2>3. /\ UNCHANGED <<side, lastWrite, restored, remover, plan, sweep, original, mine, untouched,
                       spoiled>>
        /\ writer' = "idle" /\ new' = Absent /\ signed' = FALSE
    BY <1>2
  <2> QED
    BY <2>1, <2>2, <2>3, Parts DEF ReversalTypeOK
<1>4. StepInv'
  BY <1>2, Parts DEF StepInv, Restores
<1>5. ~spoiled' => Alone'
  BY <1>1, <1>2, Parts DEF Alone, Restores, Deletes
<1>6. ~spoiled' /\ ~Mixed' /\ original' # Absent => WayBack'
  BY <1>1, <1>2, Parts DEF WayBack, First, Restores, Deletes, Alone
<1> QED
  BY <1>3, <1>4, <1>5, <1>6 DEF UndoInv

LEMMA MakeSidecarKeeps ==
  ASSUME UndoInv, MakeSidecar
  PROVE  UndoInv'
<1> USE DEF removerVars, WriterEnds
<1>1. CASE disk = Absent
  <2>1. /\ writer' = "idle" /\ new' = Absent /\ signed' = FALSE
        /\ UNCHANGED <<disk, side, untouched, lastWrite, restored, removerVars, torn, original, mine,
                       spoiled>>
    BY <1>1 DEF MakeSidecar
  <2>2. There' = There /\ Mixed' = Mixed
    BY <2>1, SideSame
  <2>3. ReversalTypeOK'
    BY <2>1, Parts DEF ReversalTypeOK
  <2>4. StepInv'
    BY <2>1, Parts DEF StepInv, Restores
  <2>5. ~spoiled' => Alone'
    BY <2>1, <2>2, Parts DEF Alone, Restores, Deletes
  <2>6. ~spoiled' /\ ~Mixed' /\ original' # Absent => WayBack'
    BY <2>1, <2>2, Parts DEF WayBack, First, Restores, Deletes
  <2> QED
    BY <2>3, <2>4, <2>5, <2>6 DEF UndoInv
<1>2. CASE disk # Absent
  <2> DEFINE new0 == [content |-> disk, there |-> TRUE, attested |-> signed]
             last == Len(side) + 1
  <2>1. /\ writer = "backup" /\ side' = Append(side, new0) /\ untouched' = FALSE
        /\ writer' \in {"record", "apply"}
        /\ UNCHANGED <<disk, new, signed, lastWrite, restored, removerVars, torn, original, mine, spoiled>>
    BY <1>2 DEF MakeSidecar
  <2>2. new0 \in Sidecar /\ new0.there /\ new0.content = disk
    BY <1>2, Parts DEF Sidecar, ReversalTypeOK, File
  <2> HIDE DEF new0
  <2>3. /\ side' \in Seq(Sidecar) /\ Len(side') = last /\ side'[last] = new0
        /\ \A j \in 1..Len(side) : side'[j] = side[j]
    BY <2>1, <2>2, Parts, AppendProperties
  <2>4. There' = There \cup {last} /\ last \notin There /\ \A j \in There : j < last
    BY <2>2, <2>3, Parts DEF There
  <2>5. Mixed => Mixed'
    BY <2>3, Parts DEF Mixed
  <2>6. ReversalTypeOK'
    <3>1. Len(side) < MaxSide
      BY <2>1, Parts DEF StepInv
    <3>2. Len(side') <= MaxSide
      BY <2>3, <3>1, Parts, ReversalAssumption
    <3>3. /\ plan' \in [action : Action, bak : 0..Len(side')]
          /\ sweep' \subseteq 1..Len(side')
      BY <2>1, <2>3, Parts DEF ReversalTypeOK
    <3> QED
      BY <2>1, <2>3, <3>2, <3>3, Parts DEF ReversalTypeOK, Sidecar
  <2>7. StepInv'
    BY <2>1, <2>3, Parts DEF StepInv, Restores
  <2>8. ASSUME ~spoiled'
        PROVE  Alone' /\ remover = "idle"
    <3>1. Alone /\ remover = "idle"
      BY <2>1, <2>8, Parts DEF Alone
    <3> QED
      BY <2>1, <3>1 DEF Alone, Restores, Deletes
  <2>9. ASSUME ~spoiled', ~Mixed', original' # Absent
        PROVE  WayBack'
    <3>1. Alone /\ WayBack /\ remover = "idle"
      BY <2>1, <2>5, <2>8, <2>9, Parts DEF Alone
    <3>2. \E i \in There' : First(i)' /\ side'[i].content = original'
      <4>1. CASE untouched
        <5>1. There' = {last} /\ disk = original
          BY <2>4, <3>1, <4>1 DEF Alone, WayBack
        <5>2. PICK k \in Nat : k = last
          BY Parts
        <5>3. First(k)'
          BY <5>1, <5>2 DEF First
        <5>4. side'[k].content = original'
          BY <2>1, <2>2, <2>3, <5>1, <5>2
        <5> QED
          BY <5>1, <5>2, <5>3, <5>4
      <4>2. CASE ~untouched
        <5>1. PICK i \in There : First(i) /\ side[i].content = original
          BY <3>1, <4>2 DEF WayBack
        <5>2. First(i)' /\ i \in There'
          <6>1. \A j \in There' : i <= j
            BY <2>4, <5>1, Parts DEF First
          <6> QED
            BY <2>4, <5>1, <6>1 DEF First
        <5>3. side'[i].content = original'
          BY <2>1, <2>3, <5>1, Parts
        <5> QED
          BY <5>2, <5>3
      <4> QED
        BY <4>1, <4>2
    <3> QED
      BY <2>1, <3>1, <3>2 DEF WayBack, Restores, Deletes
  <2> QED
    BY <2>6, <2>7, <2>8, <2>9 DEF UndoInv
<1> QED
  BY <1>1, <1>2

\* The plan: a restore goes for the first sidecar, and a delete finds none.
LEMMA PlanKeeps ==
  ASSUME UndoInv, PlanReverse
  PROVE  UndoInv'
<1> USE DEF diskVars, writerVars
<1>1. There' = There /\ Mixed' = Mixed
  BY SideSame DEF PlanReverse
<1>2. /\ remover = "idle" /\ spoiled' = (spoiled \/ writer # "idle" \/ Mistakable)
      /\ lastWrite # Absent
      /\ plan' = Decide => Decide.action \notin {"restore", "delete"} \/ ~Drifted
      /\ plan' = To("keep") \/ plan' = Decide
      /\ remover' = IF plan'.action \in {"restore", "delete"} THEN "act" ELSE "idle"
      /\ UNCHANGED <<disk, side, lastWrite, restored, writer, new, signed, sweep, torn, original,
                     untouched, mine>>
  BY DEF PlanReverse, To
<1>3. /\ plan' \in [action : Action, bak : 0..Len(side)]
      /\ plan'.action = "restore" => plan'.bak \in There /\ There # {}
      /\ plan'.action = "restore" /\ ~Mixed => First(plan'.bak)
      /\ plan'.action = "delete" =>
           There = {} /\ Attested = {} /\ ~restored /\ disk = lastWrite
  <2>1. /\ To("keep") \in [action : Action, bak : 0..Len(side)]
        /\ To("keep").action = "keep"
    BY Parts DEF To, Action
  <2> QED
    BY <1>2, <2>1, Parts, Decided DEF Drifted
<1>4. ReversalTypeOK'
  BY <1>2, <1>3, Parts DEF ReversalTypeOK
<1>5. StepInv'
  BY <1>2, <1>3, Parts DEF StepInv, Restores
<1>6. ASSUME ~spoiled'
      PROVE  Alone'
  <2>1. Alone /\ writer = "idle"
    BY <1>2, <1>6, Parts
  <2>2. Restores' => There # {}
    BY <1>2, <1>3 DEF Restores
  <2>3. Deletes' => There = {}
    BY <1>2, <1>3 DEF Deletes
  <2> QED
    BY <1>1, <1>2, <2>1, <2>2, <2>3 DEF Alone
<1>7. ASSUME ~spoiled', ~Mixed', original' # Absent
      PROVE  WayBack'
  <2>1. WayBack
    BY <1>1, <1>2, <1>7, Parts
  <2>2. Restores' => First(plan.bak)'
    BY <1>1, <1>2, <1>3, <1>7 DEF Restores, First
  <2>3. remover' \in {"act", "idle"}
    BY <1>2
  <2>4. ~Deletes'
    <3>1. ~untouched => There # {}
      BY <1>2, <2>1 DEF WayBack
    <3> QED
      BY <1>2, <1>3, <1>7, <3>1 DEF Deletes, Mistakable
  <2> QED
    BY <1>1, <1>2, <2>1, <2>2, <2>3, <2>4 DEF WayBack, First
<1> QED
  BY <1>4, <1>5, <1>6, <1>7 DEF UndoInv

LEMMA IntentKeeps ==
  ASSUME UndoInv, RecordIntent
  PROVE  UndoInv'
<1> USE DEF writerVars, historyVars
<1>1. There' = There /\ Mixed' = Mixed
  BY SideSame DEF RecordIntent
<1>2. /\ remover = "act" /\ remover' = IF plan.action = "restore" THEN "write" ELSE "remove"
      /\ restored' = restored \/ restored' = (restored \/ plan.action = "restore")
      /\ Torn \/ UNCHANGED torn
      /\ UNCHANGED <<disk, side, lastWrite, writerVars, plan, sweep, historyVars>>
  BY DEF RecordIntent
<1>3. ReversalTypeOK'
  <2>1. torn' \in 0..MaxTorn
    BY <1>2, Parts, ReversalAssumption DEF Torn, ReversalTypeOK
  <2> QED
    BY <1>2, <2>1, Parts DEF ReversalTypeOK
<1>4. /\ plan.action \in {"restore", "delete"} /\ (Restores' <=> Restores) /\ (Deletes' <=> Deletes)
  BY <1>2, Parts DEF StepInv, Restores, Deletes
<1>5. StepInv'
  BY <1>2, <1>4, Parts DEF StepInv
<1>6. ~spoiled' => Alone'
  BY <1>1, <1>2, <1>4, Parts DEF Alone
<1>7. ~spoiled' /\ ~Mixed' /\ original' # Absent => WayBack'
  BY <1>1, <1>2, <1>4, Parts DEF WayBack, First
<1> QED
  BY <1>3, <1>5, <1>6, <1>7 DEF UndoInv

\* The file is put back, and every sidecar there is will be removed.
LEMMA RestoreFileKeeps ==
  ASSUME UndoInv, RestoreFile
  PROVE  UndoInv'
<1> USE DEF writerVars, historyVars
<1>1. There' = There /\ Mixed' = Mixed
  BY SideSame DEF RestoreFile
<1>2. /\ remover = "write" /\ remover' = "sweep" /\ disk' = side[plan.bak].content /\ sweep' = There
      /\ UNCHANGED <<side, lastWrite, restored, writerVars, plan, torn, historyVars>>
  BY DEF RestoreFile
<1>3. plan.bak \in 1..Len(side) /\ plan.action = "restore" /\ Restores
  BY <1>2, Parts DEF StepInv, Restores
<1>4. ReversalTypeOK'
  <2>1. disk' \in File
    BY <1>2, <1>3, Parts DEF Sidecar, File
  <2> QED
    BY <1>2, <2>1, Parts DEF ReversalTypeOK
<1>5. StepInv'
  BY <1>2, <1>3, Parts DEF StepInv, Restores
<1>6. ~spoiled' => Alone'
  BY <1>1, <1>2, <1>3, Parts DEF Alone, Restores, Deletes
<1>7. ASSUME ~spoiled', ~Mixed', original' # Absent
      PROVE  WayBack'
  <2>1. Alone /\ WayBack
    BY <1>1, <1>2, <1>7, Parts
  <2>2. First(plan.bak) /\ \E i \in There : First(i) /\ side[i].content = original
    BY <1>2, <1>3, <2>1 DEF Alone, WayBack
  <2>3. side[plan.bak].content = original
    BY <2>2, Parts DEF First
  <2> QED
    BY <1>2, <1>3, <2>1, <2>3 DEF Alone, WayBack, Restores, Deletes
<1> QED
  BY <1>4, <1>5, <1>6, <1>7 DEF UndoInv

\* One sidecar goes, and out of the sweep; or is left, which spoils.
LEMMA SweepOneKeeps ==
  ASSUME UndoInv, SweepOne
  PROVE  UndoInv'
<1> USE DEF writerVars, historyVars
<1> DEFINE e == Earliest(sweep)
<1>1. /\ remover = "sweep" /\ sweep # {} /\ sweep' = sweep \ {e}
      /\ \/ side' = [side EXCEPT ![e].there = FALSE] /\ UNCHANGED <<torn, spoiled>>
         \/ Torn /\ spoiled' = TRUE /\ UNCHANGED side
      /\ UNCHANGED <<disk, lastWrite, restored, writerVars, remover, plan, original, untouched, mine>>
  BY DEF SweepOne
<1>2. e \in sweep /\ e \in 1..Len(side)
  <2>1. sweep \subseteq 1..Len(side) /\ sweep \in SUBSET Nat
    BY Parts DEF ReversalTypeOK
  <2> QED
    BY <1>1, <2>1, LeastExists
<1> HIDE DEF e
<1>3. CASE spoiled' = TRUE /\ UNCHANGED side /\ Torn
  <2>1. torn' \in 0..MaxTorn
    BY <1>3, Parts, ReversalAssumption DEF Torn, ReversalTypeOK
  <2>2. ReversalTypeOK'
    BY <1>1, <1>3, <2>1, Parts DEF ReversalTypeOK
  <2>3. StepInv'
    BY <1>1, <1>3, Parts DEF StepInv, Restores
  <2> QED
    BY <1>3, <2>2, <2>3 DEF UndoInv
<1>4. CASE side' = [side EXCEPT ![e].there = FALSE] /\ UNCHANGED <<torn, spoiled>>
  <2> DEFINE gone == [side[e] EXCEPT !.there = FALSE]
  <2>1. gone \in Sidecar /\ ~gone.there /\ gone.attested = side[e].attested
    <3>1. side[e] \in Sidecar
      BY <1>2, Parts
    <3> QED
      BY <3>1 DEF Sidecar
  <2>2. side' = [side EXCEPT ![e] = gone]
    BY <1>4
  <2> HIDE DEF gone
  <2>3. /\ side' \in Seq(Sidecar) /\ Len(side') = Len(side)
        /\ \A j \in 1..Len(side) : side'[j] = IF j = e THEN gone ELSE side[j]
    BY <1>2, <2>1, <2>2, Parts, ExceptSeq
  <2>4. There' = There \ {e}
    BY <2>1, <2>3, Parts DEF There
  <2>5. Mixed' = Mixed
    <3>1. \A j \in 1..Len(side) : side'[j].attested = side[j].attested
      BY <2>1, <2>3
    <3> QED
      BY <2>3, <3>1 DEF Mixed
  <2>6. ReversalTypeOK'
    <3>1. sweep' \subseteq 1..Len(side') /\ plan' \in [action : Action, bak : 0..Len(side')]
      BY <1>1, <2>3, Parts DEF ReversalTypeOK
    <3> QED
      BY <1>1, <1>4, <2>3, <3>1, Parts DEF ReversalTypeOK, Sidecar
  <2>7. StepInv'
    BY <1>1, <2>3, Parts DEF StepInv, Restores
  <2>8. ~spoiled' => Alone'
    BY <1>1, <1>4, <2>4, Parts DEF Alone, Restores, Deletes
  <2>9. ~spoiled' /\ ~Mixed' /\ original' # Absent => WayBack'
    BY <1>1, <1>4, <2>5, Parts DEF WayBack, Restores, Deletes
  <2> QED
    BY <2>6, <2>7, <2>8, <2>9 DEF UndoInv
<1> QED
  BY <1>1, <1>3, <1>4

\* All is undone: what the user had is the file again, and there are no sidecars; a file
\* is deleted only if the user had none.
LEMMA UndoneKeeps ==
  ASSUME UndoInv, SweepEnds \/ RemoveFile
  PROVE  UndoInv'
<1> USE DEF writerVars, diskVars, RemoverEnds, Undone
<1>1. There' = There /\ Mixed' = Mixed
  BY SideSame DEF SweepEnds, RemoveFile
<1>2. /\ remover' = "idle" /\ plan' = NoPlan /\ original' = original /\ untouched' = TRUE
      /\ \/ remover = "sweep" /\ sweep = {} /\ disk' = disk
         \/ remover = "remove" /\ disk' = Absent
      /\ UNCHANGED <<side, lastWrite, restored, writerVars, sweep, torn, mine, spoiled>>
  BY DEF SweepEnds, RemoveFile
<1>3. ReversalTypeOK'
  BY <1>2, Parts DEF ReversalTypeOK, NoPlan, Action, File
<1>4. StepInv'
  BY <1>2, Parts DEF StepInv, Restores
<1>5. ~spoiled => There = {} /\ writer = "idle"
  BY <1>2, Parts DEF Alone, Deletes
<1>6. ~spoiled' => Alone'
  BY <1>1, <1>2, <1>5 DEF Alone, Restores, Deletes
<1>7. ASSUME ~spoiled', ~Mixed', original' # Absent
      PROVE  WayBack'
  <2>1. WayBack /\ writer = "idle"
    BY <1>1, <1>2, <1>5, <1>7, Parts
  <2>2. remover = "sweep" /\ disk' = original
    BY <1>2, <2>1 DEF WayBack, Deletes
  <2> QED
    BY <1>2, <2>1, <2>2 DEF WayBack, Restores, Deletes
<1> QED
  BY <1>3, <1>4, <1>6, <1>7 DEF UndoInv

\* The uninstall dies; a sweep that is cut short spoils.
LEMMA UninstallDiesKeeps ==
  ASSUME UndoInv, UninstallDies
  PROVE  UndoInv'
<1> USE DEF writerVars, diskVars, RemoverEnds
<1>1. There' = There /\ Mixed' = Mixed
  BY SideSame DEF UninstallDies
<1>2. /\ remover' = "idle" /\ plan' = NoPlan /\ sweep' = {} /\ Torn
      /\ spoiled' = (spoiled \/ remover = "sweep")
      /\ UNCHANGED <<disk, side, lastWrite, restored, writerVars, original, untouched, mine>>
  BY DEF UninstallDies
<1>3. ReversalTypeOK'
  <2>1. torn' \in 0..MaxTorn
    BY <1>2, Parts, ReversalAssumption DEF Torn, ReversalTypeOK
  <2> QED
    BY <1>2, <2>1, Parts DEF ReversalTypeOK, NoPlan, Action
<1>4. StepInv'
  BY <1>2, Parts DEF StepInv, Restores
<1>5. ~spoiled' => Alone'
  BY <1>1, <1>2, Parts DEF Alone, Restores, Deletes
<1>6. ~spoiled' /\ ~Mixed' /\ original' # Absent => WayBack'
  BY <1>1, <1>2, Parts DEF WayBack, First, Restores, Deletes
<1> QED
  BY <1>3, <1>4, <1>5, <1>6 DEF UndoInv

-----------------------------------------------------------------------------
\* Nothing has been written at first.
LEMMA UndoInitInv ==
  ASSUME UndoInit
  PROVE  UndoInv
<1> USE DEF UndoInit
<1>1. There = {} /\ Len(side) = 0
  BY DEF There
<1>2. ReversalTypeOK
  <2>1. side \in Seq([content : Users \cup Own, there : BOOLEAN, attested : BOOLEAN])
    OBVIOUS
  <2>2. plan \in [action : Action, bak : 0..Len(side)] /\ sweep \subseteq 1..Len(side)
    BY <1>1 DEF NoPlan, Action
  <2>3. torn \in 0..MaxTorn /\ Len(side) <= MaxSide
    BY <1>1, ReversalAssumption
  <2> QED
    BY <2>1, <2>2, <2>3 DEF ReversalTypeOK, File
<1>3. StepInv /\ Alone /\ WayBack
  BY <1>1 DEF StepInv, Alone, WayBack, Restores, Deletes
<1> QED
  BY <1>2, <1>3 DEF UndoInv

\* Every step keeps the invariant.
LEMMA UndoNextInv ==
  ASSUME UndoInv, [UndoNext]_undoVars
  PROVE  UndoInv'
<1>1. CASE UNCHANGED undoVars
  <2> USE <1>1 DEF undoVars, diskVars, writerVars, removerVars, historyVars
  <2>1. There' = There /\ Mixed' = Mixed
    BY SideSame
  <2>2. ReversalTypeOK' /\ StepInv'
    BY Parts DEF ReversalTypeOK, StepInv, Restores
  <2>3. ~spoiled' => Alone'
    BY <2>1, Parts DEF Alone, Restores, Deletes
  <2>4. ~spoiled' /\ ~Mixed' /\ original' # Absent => WayBack'
    BY <2>1, Parts DEF WayBack, First, Restores, Deletes
  <2> QED
    BY <2>2, <2>3, <2>4 DEF UndoInv
<1>2. CASE WriterStep
  BY <1>2, MakeSidecarKeeps, RecordKeeps, ApplyKeeps DEF WriterStep
<1>3. CASE UninstallStep
  BY <1>3, PlanKeeps, IntentKeeps, RestoreFileKeeps, SweepOneKeeps, UndoneKeeps,
     UninstallDiesKeeps DEF UninstallStep
<1>4. ASSUME NEW c \in Users \cup {Absent}, Edit(c)
      PROVE  UndoInv'
  BY <1>4, EditKeeps
<1>5. ASSUME NEW i \in 1..Len(side), RestoreGated(i)
      PROVE  UndoInv'
  BY <1>5, RestoreGatedKeeps
<1>6. ASSUME NEW c \in Own, NEW s \in BOOLEAN, Begin(c, s)
      PROVE  UndoInv'
  BY <1>6, BeginKeeps
<1> QED
  BY <1>1, <1>2, <1>3, <1>4, <1>5, <1>6 DEF UndoNext

\* The file, its sidecars, the plan and the histories keep their types.
THEOREM ReversalTyping == UndoSpec => []ReversalTypeOK
<1>1. UndoInv => ReversalTypeOK
  BY DEF UndoInv
<1> QED
  BY <1>1, UndoInitInv, UndoNextInv, PTL DEF UndoSpec

\* What the file was before abysslink is the file or one of its sidecars, for any
\* contents, any number of sidecars and any number of commands that die
\* (reverse.go:366-418, 438-518).
THEOREM WayBackStaysOpen == UndoSpec => []OriginalKept
<1>1. ASSUME UndoInv
      PROVE  OriginalKept
  <2> SUFFICES ASSUME ~spoiled, ~Mixed, original # Absent, disk # original
               PROVE  \E i \in There : side[i].content = original
    BY DEF OriginalKept
  <2>1. Alone /\ WayBack
    BY <1>1 DEF UndoInv
  <2> QED
    BY <2>1 DEF Alone, WayBack
<1> QED
  BY <1>1, UndoInitInv, UndoNextInv, PTL DEF UndoSpec

\* Once a restore is done and recorded an uninstall leaves the file alone, for it finds
\* no sidecar and a restore entry (reverse.go:391-400).
THEOREM RerunIsHarmless == UndoSpec => RerunHarmless
<1>1. ASSUME UndoInv, PlanReverse, restored, untouched, ~spoiled'
      PROVE  plan'.action \in {"skip", "keep"}
  <2>1. There = {}
    BY <1>1 DEF UndoInv, Alone, PlanReverse
  <2>2. Decide.action = "skip" /\ To("keep").action = "keep"
    BY <1>1, <2>1, Decided DEF UndoInv, To
  <2> QED
    BY <1>1, <2>2 DEF PlanReverse
<1>2. UndoInv /\ [UndoNext]_undoVars =>
        [PlanReverse /\ restored /\ untouched /\ ~spoiled' => plan'.action \in {"skip", "keep"}]_undoVars
  BY <1>1
<1> QED
  BY <1>2, UndoInitInv, UndoNextInv, PTL DEF UndoSpec, RerunHarmless

-----------------------------------------------------------------------------
(* Both.                                                                   *)

\* Each of the two is in the machine what it is alone.
LEMMA MachineParts == MachineSpec => Spec /\ UndoSpec
<1>1. MachineInit => Init /\ UndoInit
  BY DEF MachineInit
<1>2. [MachineNext]_<<part, vars, undoVars>> => [Next]_vars /\ [UndoNext]_undoVars
  BY DEF MachineNext
<1> QED
  BY <1>1, <1>2, PTL DEF MachineSpec, Spec, UndoSpec

\* The type invariants of both hold of the machine.
THEOREM MachineTyping == MachineSpec => []AllTypeOK
BY MachineParts, Typing, ReversalTyping, PTL DEF AllTypeOK
=============================================================================
