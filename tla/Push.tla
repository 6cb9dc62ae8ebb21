-------------------------------- MODULE Push --------------------------------
(***************************************************************************)
(* Waking the phones: the device store (internal/device), which any process*)
(* changes in one read-modify-write under the audit flock; the fan-out of a*)
(* POST /notify (daemon/server.go), which lists the devices and queues a   *)
(* wake for each; and the daemon's one outbox runner (internal/push), which*)
(* sends what is due.  Outbox, dedup and ceiling are buckets of one bbolt  *)
(* file: each call is a transaction, and survives a crash of the daemon.   *)
(*                                                                         *)
(* Time is abstract: a ceiling window ends, a backoff is over, a dedup mark*)
(* lapses and an entry passes its maximal age at any moment.               *)
(***************************************************************************)
EXTENDS Integers, FiniteSets

CONSTANTS
  Device,      \* record ids
  Name,        \* names the operator gives
  Msg,         \* message ids
  Exempt,      \* those of approval requests: no dedup, no ceiling
  Unrouted,    \* devices whose platform has no gateway leg
  Call,        \* POST /notify requests
  Limit,       \* wakes per device and window (60)
  MaxAttempts, \* attempts without a gateway leg (10), and bound on the count
  MaxSerial,   \* bound on credentials minted
  MaxCrashes,  \* bound on daemon crashes
  MaxFaults    \* bound on failed reads of the store and failed transactions

ASSUME PushAssumption ==
  /\ Exempt \subseteq Msg /\ Unrouted \subseteq Device
  /\ Limit \in Nat \ {0} /\ MaxAttempts \in Nat \ {0}
  /\ MaxSerial \in Nat /\ MaxCrashes \in Nat /\ MaxFaults \in Nat

VARIABLES
  status,    \* of each record: "new" (no record yet), "active", "revoked"
  name,      \* its name
  cred,      \* the mint of its push token and certificate, 0 when blank
  revoked,   \* revoked_serials
  serial,    \* next_serial
  cached,    \* the records as the daemon's Store last loaded them
  outbox,    \* the queued wakes
  due,       \* the keys whose NextRetryUnix has come
  aged,      \* the keys older than maxOutboxAge
  seen,      \* dedup marks
  window,    \* wakes admitted in each device's current ceiling window
  callPc, callMsg, callTodo, callCur,   \* each POST /notify handler
  runPc, batch, cur,                    \* the runner: its scan and its entry
  up, crashes, faults,
  queued,    \* history: the wakes ever queued
  settled,   \* history: those sent, given up, or of an inactive device
  late       \* history: sends to a device after its revocation (up to LateCap)

storeVars == <<status, name, cred, revoked, serial>>
boxVars   == <<outbox, due, aged>>
bounds    == <<crashes, faults>>
callVars  == <<callPc, callMsg, callTodo, callCur>>
runVars   == <<runPc, batch, cur>>
histVars  == <<queued, settled, late>>
vars == <<storeVars, cached, boxVars, seen, window, callVars, runVars, up, bounds, histVars>>

Key    == Device \X Msg
Serial == 0..MaxSerial
Entry  == [key : Key, token : Serial, attempts : 0..MaxAttempts]
Target == [dev : Device, token : Serial]
Record == [status : {"new", "active", "revoked"}, cred : Serial]

LateCap == MaxFaults + 2

TypeOK ==
  /\ status \in [Device -> {"new", "active", "revoked"}] /\ name \in [Device -> Name]
  /\ cred \in [Device -> Serial] /\ revoked \subseteq Serial /\ serial \in 1..(MaxSerial + 1)
  /\ outbox \subseteq Entry /\ due \subseteq Key /\ aged \subseteq Key
  /\ seen \subseteq Msg /\ window \in [Device -> 0..Limit]
  /\ callPc \in [Call -> {"idle", "list", "admit", "enqueue", "done"}]
  /\ callMsg \in [Call -> Msg]
  /\ callTodo \in [Call -> SUBSET Target] /\ callCur \in [Call -> SUBSET Target]
  /\ runPc \in {"idle", "next", "send", "accepted", "mark", "prune", "drop", "retry"}
  /\ batch \subseteq Entry /\ cur \subseteq Entry
  /\ cached \in [Device -> Record]
  /\ up \in BOOLEAN /\ crashes \in 0..MaxCrashes /\ faults \in 0..MaxFaults
  /\ queued \subseteq Key /\ settled \subseteq Key /\ late \in [Device -> 0..LateCap]

NotLoaded == [d \in Device |-> [status |-> "new", cred |-> 0]]

Init ==
  /\ status = [d \in Device |-> "new"] /\ name \in [Device -> Name]
  /\ cred = [d \in Device |-> 0] /\ revoked = {} /\ serial = 1
  /\ outbox = {} /\ due = {} /\ aged = {} /\ seen = {}
  /\ window = [d \in Device |-> 0]
  /\ callPc = [c \in Call |-> "idle"] /\ callMsg \in [Call -> Msg]
  /\ callTodo = [c \in Call |-> {}] /\ callCur = [c \in Call |-> {}]
  /\ runPc = "idle" /\ batch = {} /\ cur = {}
  /\ cached = NotLoaded /\ up = TRUE /\ crashes = 0 /\ faults = 0
  /\ queued = {} /\ settled = {} /\ late = [d \in Device |-> 0]

-----------------------------------------------------------------------------
(* The device store.                                                       *)

Active(d) == status[d] = "active"

\* mintLocked: a fresh token and a certificate with the next serial.
Mint(d) ==
  /\ serial <= MaxSerial
  /\ serial' = serial + 1
  /\ cred' = [cred EXCEPT ![d] = serial]

\* A read or a transaction fails; the caller logs it and goes on.
Fault == faults < MaxFaults /\ faults' = faults + 1

UnchangedButStore ==
  UNCHANGED <<cached, boxVars, seen, window, callVars, runVars, up, bounds, histVars>>

\* A new record, unless the name has an active one.
Enroll(d) ==
  /\ status[d] = "new"
  /\ \A x \in Device : name[x] = name[d] => ~Active(x)
  /\ Mint(d)
  /\ status' = [status EXCEPT ![d] = "active"]
  /\ UNCHANGED <<name, revoked>> /\ UnchangedButStore

\* Mutant: the replaced certificate stays good.
RotateKeepsCert(d) ==
  /\ Active(d)
  /\ Mint(d)
  /\ UNCHANGED <<status, name, revoked>> /\ UnchangedButStore

\* New credentials under the old id.
Rotate(d) ==
  /\ Active(d)
  /\ Mint(d)
  /\ revoked' = revoked \cup {cred[d]}
  /\ UNCHANGED <<status, name>> /\ UnchangedButStore

\* revokeAt, on each record of D that is active.
RevokeAt(D) ==
  LET A == {d \in D : Active(d)}
  IN /\ status' = [d \in Device |-> IF d \in A THEN "revoked" ELSE status[d]]
     /\ revoked' = revoked \cup {cred[d] : d \in A}
     /\ cred' = [d \in Device |-> IF d \in A THEN 0 ELSE cred[d]]
     /\ UNCHANGED <<name, serial>>

\* Store.List in the daemon: the records re-read, or, when that fails, as they
\* were loaded last.
Current == [d \in Device |-> [status |-> status[d], cred |-> cred[d]]]

List ==
  \/ cached' = Current /\ UNCHANGED faults
  \/ Fault /\ UNCHANGED cached

Revoke(d) == Active(d) /\ RevokeAt({d}) /\ UnchangedButStore
RevokeAll == (\E d \in Device : Active(d)) /\ RevokeAt(Device) /\ UnchangedButStore

-----------------------------------------------------------------------------
(* The outbox.                                                             *)

Without(k) == {e \in outbox : e.key # k}

Put(e) == outbox' = Without(e.key) \cup {e}

Dequeue(k) == outbox' = Without(k) /\ due' = due \ {k} /\ aged' = aged \ {k}

\* Written back, with one attempt more, for after a backoff.
Retry(e) ==
  /\ Put([e EXCEPT !.attempts = IF @ < MaxAttempts THEN @ + 1 ELSE @])
  /\ due' = due \ {e.key} /\ UNCHANGED aged

\* A backoff is over; an entry passes maxOutboxAge.
BackoffOver(k) ==
  /\ k \in {e.key : e \in outbox} \ due
  /\ due' = due \cup {k}
  /\ UNCHANGED <<storeVars, cached, outbox, aged, seen, window, callVars, runVars, up,
                 bounds, histVars>>

GrowOld(k) ==
  /\ k \in {e.key : e \in outbox} \ aged
  /\ aged' = aged \cup {k}
  /\ UNCHANGED <<storeVars, cached, outbox, due, seen, window, callVars, runVars, up,
                 bounds, histVars>>

\* A dedup mark lapses (and SweepDedup drops it); a ceiling window ends.
DedupLapse(m) ==
  /\ m \in seen /\ seen' = seen \ {m}
  /\ UNCHANGED <<storeVars, cached, boxVars, window, callVars, runVars, up, bounds, histVars>>

WindowEnds(d) ==
  /\ window[d] # 0 /\ window' = [window EXCEPT ![d] = 0]
  /\ UNCHANGED <<storeVars, cached, boxVars, seen, callVars, runVars, up, bounds, histVars>>

-----------------------------------------------------------------------------
(* POST /notify: fanOutToDevices, enqueueDeviceWake.                       *)

\* Dedup check, in a transaction of its own; when that fails the fan-out goes on.
Notify(c) ==
  /\ callPc[c] = "idle" /\ up
  /\ \/ /\ callMsg[c] \in seen \ Exempt
        /\ callPc' = [callPc EXCEPT ![c] = "done"] /\ UNCHANGED faults
     \/ /\ IF callMsg[c] \in seen \ Exempt THEN Fault ELSE UNCHANGED faults
        /\ callPc' = [callPc EXCEPT ![c] = "list"]
  /\ UNCHANGED <<storeVars, cached, boxVars, seen, window, callMsg, callTodo, callCur,
                 runVars, up, crashes, histVars>>

\* A snapshot of the records; revoked and token-less ones are skipped.
ListDevices(c) ==
  /\ callPc[c] = "list"
  /\ List
  /\ callTodo' = [callTodo EXCEPT ![c] =
       {[dev |-> d, token |-> cached'[d].cred] :
          d \in {x \in Device : cached'[x].status = "active"}}]
  /\ callPc' = [callPc EXCEPT ![c] = "admit"]
  /\ UNCHANGED <<storeVars, boxVars, seen, window, callMsg, callCur, runVars, up,
                 crashes, histVars>>

\* Mutant: nobody looks at the limit.
AdmitUnchecked(c, t) ==
  /\ window' = [window EXCEPT ![t.dev] = @ + 1]
  /\ callPc' = [callPc EXCEPT ![c] = "enqueue"]
  /\ callCur' = [callCur EXCEPT ![c] = {t}]

\* CeilingCheckAndIncr: check and count in one transaction.
Admit(c, t) ==
  /\ \/ callMsg[c] \in Exempt /\ UNCHANGED window
     \/ /\ callMsg[c] \notin Exempt /\ window[t.dev] < Limit
        /\ window' = [window EXCEPT ![t.dev] = @ + 1]
  /\ callPc' = [callPc EXCEPT ![c] = "enqueue"]
  /\ callCur' = [callCur EXCEPT ![c] = {t}]

\* The next device: admitted, or skipped (the ceiling is reached, or the store
\* fails); or all are done.
NextDevice(c) ==
  /\ callPc[c] = "admit"
  /\ \/ \E t \in callTodo[c] :
          /\ callTodo' = [callTodo EXCEPT ![c] = @ \ {t}]
          /\ \/ Admit(c, t) /\ UNCHANGED faults
             \/ /\ callMsg[c] \notin Exempt
                /\ IF window[t.dev] < Limit THEN Fault ELSE UNCHANGED faults
                /\ UNCHANGED <<window, callPc, callCur>>
     \/ /\ callTodo[c] = {}
        /\ callPc' = [callPc EXCEPT ![c] = "done"]
        /\ UNCHANGED <<window, callTodo, callCur, faults>>
  /\ UNCHANGED <<storeVars, cached, boxVars, seen, callMsg, runVars, up, crashes, histVars>>

\* The wake is stored with the token listed before, due at once; or the
\* transaction fails and the slot is not given back.
Enqueue(c) ==
  /\ callPc[c] = "enqueue"
  /\ callPc' = [callPc EXCEPT ![c] = "admit"]
  /\ callCur' = [callCur EXCEPT ![c] = {}]
  /\ \/ \E t \in callCur[c] :
          LET k == <<t.dev, callMsg[c]>>
          IN /\ Put([key |-> k, token |-> t.token, attempts |-> 0])
             /\ due' = due \cup {k} /\ aged' = aged \ {k}
             /\ queued' = queued \cup {k} /\ UNCHANGED faults
     \/ Fault /\ UNCHANGED <<boxVars, queued>>
  /\ UNCHANGED <<storeVars, cached, seen, window, callMsg, callTodo, runVars, up, crashes,
                 settled, late>>

-----------------------------------------------------------------------------
(* The runner: drainDue, processEntry.                                     *)

UnchangedByRunner == UNCHANGED <<window, callVars, up, crashes, queued>>

\* A scan takes a copy of everything that is due.
Scan ==
  /\ runPc = "idle" /\ up /\ due # {}
  /\ batch' = {e \in outbox : e.key \in due}
  /\ runPc' = "next"
  /\ UNCHANGED <<storeVars, cached, boxVars, seen, cur, faults, settled, late>>
  /\ UnchangedByRunner

EndScan ==
  /\ runPc = "next" /\ batch = {}
  /\ runPc' = "idle"
  /\ UNCHANGED <<storeVars, cached, boxVars, seen, batch, cur, faults, settled, late>>
  /\ UnchangedByRunner

\* deviceActive, on the records just listed.
Listed(e) == cached'[e.key[1]].status = "active"

\* The device is inactive by now, as far as the runner knows: the entry goes.
SkipInactive(e) ==
  /\ ~Listed(e)
  /\ runPc' = "drop"
  /\ settled' = IF Active(e.key[1]) THEN settled ELSE settled \cup {e.key}
  /\ UNCHANGED boxVars

\* handleNoGateway: tried again later, and dropped after the last attempt.
NoGateway(e) ==
  /\ Listed(e) /\ e.key[1] \in Unrouted
  /\ \/ /\ e.attempts + 1 >= MaxAttempts
        /\ runPc' = "drop" /\ settled' = settled \cup {e.key}
     \/ e.attempts + 1 < MaxAttempts /\ runPc' = "retry" /\ UNCHANGED settled
  /\ UNCHANGED boxVars

\* Mutants of Attempt: the device is not looked up; the entry leaves the outbox
\* before the send.
AttemptAny(e) ==
  /\ e.key[1] \notin Unrouted
  /\ runPc' = "send" /\ UNCHANGED <<boxVars, settled>>

AttemptDequeues(e) ==
  /\ Listed(e) /\ e.key[1] \notin Unrouted
  /\ runPc' = "send" /\ Dequeue(e.key) /\ UNCHANGED settled

Attempt(e) ==
  /\ Listed(e) /\ e.key[1] \notin Unrouted
  /\ runPc' = "send" /\ UNCHANGED <<boxVars, settled>>

\* The head of processEntry, on the next entry of the scan.
NextEntry ==
  /\ runPc = "next"
  /\ List
  /\ \E e \in batch :
       /\ batch' = batch \ {e} /\ cur' = {e}
       /\ SkipInactive(e) \/ NoGateway(e) \/ Attempt(e)
  /\ UNCHANGED <<storeVars, seen, late>> /\ UnchangedByRunner

\* The request to the provider, with the entry's own copy of the token.
Request(e) ==
  late' = [late EXCEPT ![e.key[1]] =
             IF status[e.key[1]] = "revoked" /\ @ < LateCap THEN @ + 1 ELSE @]

\* Mutant: an entry is retried whatever its age.
TransientForever(e) == runPc' = "retry" /\ UNCHANGED settled

\* handleTransientError: an entry too old is given up.
Transient(e) ==
  \/ e.key \in aged /\ runPc' = "drop" /\ settled' = settled \cup {e.key}
  \/ e.key \notin aged /\ runPc' = "retry" /\ UNCHANGED settled

\* The provider accepts, calls the token dead, or fails.
Send ==
  /\ runPc = "send"
  /\ \E e \in cur :
       /\ Request(e)
       /\ \/ runPc' = "accepted" /\ settled' = settled \cup {e.key}
          \/ runPc' = "prune" /\ settled' = settled \cup {e.key}
          \/ Transient(e)
  /\ UNCHANGED <<storeVars, cached, boxVars, seen, batch, cur, faults>> /\ UnchangedByRunner

\* A transaction of the runner on the entry it has in hand, done or failed.
Transact(from, to, Do(_)) ==
  /\ runPc = from /\ runPc' = to
  /\ \/ (\E e \in cur : Do(e)) /\ UNCHANGED faults
     \/ Fault /\ UNCHANGED <<storeVars, cached, boxVars, seen>>
  /\ cur' = IF to = "next" THEN {} ELSE cur
  /\ UNCHANGED <<batch, settled, late>> /\ UnchangedByRunner

OutOfBox(e)  == Dequeue(e.key) /\ UNCHANGED <<storeVars, cached, seen>>
BackInBox(e) == Retry(e) /\ UNCHANGED <<storeVars, cached, seen>>
Mark(e)      == seen' = seen \cup {e.key[2]} /\ UNCHANGED <<storeVars, cached, boxVars>>
RevokeByID(e) ==
  RevokeAt({e.key[1]}) /\ cached' = Current' /\ UNCHANGED <<boxVars, seen>>

\* Accepted: out of the outbox, then marked seen.
DequeueSent == Transact("accepted", "mark", OutOfBox)
MarkSeen    == Transact("mark", "next", Mark)

\* A dead token: the device of the entry is revoked, then the entry dropped.
Prune       == Transact("prune", "drop", RevokeByID)
Drop        == Transact("drop", "next", OutOfBox)

\* The copy of the scan is written back.
WriteBack   == Transact("retry", "next", BackInBox)

RunnerStep ==
  \/ Scan \/ EndScan \/ NextEntry \/ Send
  \/ DequeueSent \/ MarkSeen \/ Prune \/ Drop \/ WriteBack

-----------------------------------------------------------------------------
\* The files stay; the handlers, the scan and a request in flight are gone.
DaemonCrash ==
  /\ up /\ crashes < MaxCrashes /\ crashes' = crashes + 1
  /\ up' = FALSE
  /\ callPc' = [c \in Call |-> IF callPc[c] = "idle" THEN "idle" ELSE "done"]
  /\ callTodo' = [c \in Call |-> {}] /\ callCur' = [c \in Call |-> {}]
  /\ runPc' = "idle" /\ batch' = {} /\ cur' = {} /\ cached' = NotLoaded
  /\ UNCHANGED <<storeVars, boxVars, seen, window, callMsg, faults, histVars>>

DaemonStart ==
  /\ ~up /\ up' = TRUE
  /\ UNCHANGED <<storeVars, cached, boxVars, seen, window, callVars, runVars, bounds, histVars>>

CallStep(c) == Notify(c) \/ ListDevices(c) \/ NextDevice(c) \/ Enqueue(c)

Next ==
  \/ \E d \in Device : Enroll(d) \/ Rotate(d) \/ Revoke(d) \/ WindowEnds(d)
  \/ RevokeAll
  \/ \E k \in Key : BackoffOver(k) \/ GrowOld(k)
  \/ \E m \in Msg : DedupLapse(m)
  \/ \E c \in Call : CallStep(c)
  \/ RunnerStep \/ DaemonCrash \/ DaemonStart

Spec == Init /\ [][Next]_vars

\* The runner ticks on, time passes, and the service manager restarts the daemon.
Fairness ==
  /\ WF_vars(RunnerStep) /\ WF_vars(DaemonStart)
  /\ \A k \in Key : WF_vars(BackoffOver(k)) /\ WF_vars(GrowOld(k))

FairSpec == Spec /\ Fairness

-----------------------------------------------------------------------------
(* Properties.                                                             *)

\* A revoked device gets at most the one wake whose send had already been
\* decided, and one for each failed read of the store: its entries outlive the
\* revocation with a copy of the token, and a fan-out may still queue more from
\* its snapshot (outbox_runner.go:195-210, device/query.go:145-153).
LateWakes == \A d \in Device : late[d] <= 1 + faults

\* No queued wake is lost: it is in the outbox until it was sent, given up, or
\* its device was gone, whatever crashes, re-queueing under the runner and
\* stale copies written back (outbox_runner.go:232-324); all but one for each
\* failed read, where a restarted daemon takes every device for absent.
NoSilentLoss ==
  Cardinality(queued \ ({e.key : e \in outbox} \cup settled)) <= faults

\* A certificate is good only while it is the current one of an active record,
\* and a name has one such record at most, prunes by id included
\* (device/lifecycle.go:188-289).
OneLiveCert ==
  /\ \A s \in 1..(serial - 1) : s \in revoked \/ \E d \in Device : Active(d) /\ cred[d] = s
  /\ \A d, x \in Device : Active(d) /\ Active(x) /\ name[d] = name[x] => d = x

\* Nothing stays in the outbox for ever: not for want of a gateway leg, nor with
\* a provider that never answers (outbox_runner.go:73-88).
OutboxDrains ==
  \A k \in Key : []<>(\A e \in outbox : e.key # k)

\* gateway.go:59-61: on a dead token callers "must prune the token from the
\* enrollment store".
PrunesOnlyDeadToken ==
  [][\A d \in Device, e \in cur :
       runPc = "prune" /\ runPc' = "drop" /\ Active(d) /\ status'[d] = "revoked"
         => cred[d] = e.token]_vars
=============================================================================
