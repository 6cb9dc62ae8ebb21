# Abysslink: verification project

Abysslink lets one operator supervise coding agents on a workstation from a
phone: a daemon (`abysslinkd`) watches agent sessions, sends wake-ups to enrolled
devices, relays approve/deny answers to the hooks of an agent, kills or locks
down runs, and records everything in a tamper-evident audit log.  This directory
holds TLA+ models of the parts of it where several processes, goroutines or
handlers meet, the TLC runs that check them on small instances, and TLAPS proofs
of what matters most for every size.

Everything is translated from `src/`; `PROJECT.json` maps each definition to the
lines it stands for.  Run a check with `tlc -config X.cfg M` and the proofs with
`tlapm M_proof.tla`.

## 1. Inventory of the system

| Component | State it keeps | Operations | Talks to | What is hard | What makes it correct |
|---|---|---|---|---|---|
| **Dead-man switch** `internal/deadman`, `cli/arm_cmd.go`, `cli/cmd_deadman.go`, `cmd/abysslinkd` | contact file, lockdown flag, armed-run registry (files, written under the audit flock); latch of the timer goroutine (memory) | heartbeat, seed, tick, fire, lockdown ladder, arm, register, deregister, clear flag | kernel (pgids, signals), audit log, sentinel, duress | timer reads then decides; a lockdown walks a snapshot; arms spawn and register in two steps; daemon restarts forget the latch | a missed deadline is followed by the lockdown; a lockdown leaves no listed run alive; a live agent stays discoverable; one fire per contact |
| **Audit log** `internal/audit` | JSONL log, anchor file, audited files; HMAC keys, epoch pointer and entry counter in the keychain; cached key per process | WriteFile (backup, record, anchor, count, rename), Append, RotateHMACKey, hourly anchor refresh, Verify | keychain, file system, every other component | cross-process flock, death between any two of five stores, half-done rotation, stale cached keys, keychain outages, lock-free Verify | the log at rest verifies; no false truncation; a rotation can be completed; record before change |
| **Reversal** `audit/reverse.go`, `cli/cmd_uninstall.go`, `cli/cmd_backup.go` | sidecar backups beside each file; the fold of the log | backup, restore, plan and execute an uninstall, sweep of the backups | audit log, the user's editor | deaths between restore, record and sweep; two writers that attest differently; edits in between | the user's first content stays within reach; a re-run does no harm |
| **Approve loop** `internal/approve`, `daemon/server.go`, `daemon/content_server.go`, `cli/cmd_approve.go` | pending requests (map, CAS per entry), one-time links, pending gauge, receipts | ask, wait, tap, terminal answer, expiry, prune | phone, terminal, hook of the agent, audit log | three answers race; the waiter prunes while a tap shows the outcome; daemon dies under a waiting hook | first answer wins everywhere; allow only on approval; one receipt; the gauge counts open requests |
| **Content store** `daemon/content.go` | capability entries of four classes, with expiry | mint, answer once on a route, reject elsewhere, prune, evict oldest | approve loop, enrolment, push | eviction under pressure, a link presented twice or on a foreign route | a link is used at most once, and nobody but its reader or a full store takes it away |
| **Push outbox and devices** `internal/push`, `internal/device` | outbox, dedup and ceiling files; device store | enqueue, drain, retry, prune dead tokens; enroll, rotate, revoke | push gateways (HTTP), notify | crash between send and dequeue, revocation while a wake is in flight, stale copies of a token, dedup window | a revoked device gets no new wake; a wake is not lost before its expiry; ceiling respected |
| **Notify dispatch** `daemon/dispatch.go` | cooldown windows, suppression counters, token bucket, flood state, retry queue | dispatch, flood notice, retry, prune | notify channels, session bridge | window taken before the send, released on failure; capacity and queue at their limits; the runner holds entries outside the queue | behind every window is a note that was delivered or is still tried; retries end |
| **Session registry** `internal/session` | panes of one tmux server by epoch, needs-input edges, events channel, status | attach, poll, sync, heuristic, emit, detach, supervise | tmux control mode, dispatch (bridge) | lost stream and resync; two pollers with stale answers; a bounded channel that drops | the last edge heard holds; a lost pane is told once; a prompt is noticed; the status is honest |
| **Budget** `internal/budget` | recording window, ladder position, own approve registry | feed, trip, freeze, ask, ask again, resume or kill | approve loop, process groups | an answer racing its deadline; the end of the run racing the ladder | only an answer decides; no agent stays frozen after its run |
| **Gate and quorum** `internal/gate`, `internal/quorum` | script hashes, ring of executions, probe cache | collect votes, combine, run, refuse, ask for an approval, shadow | shell runners, audit | verifiers that hang or fail; a script edited between hash and approval; a ring read before it is written | nothing vetoed or unapproved runs; the rate holds |
| **Sentinel detector** `modules/sentinel` | pending reads within two windows | observe, match, quarantine | gated runner, dead-man lockdown | pruning and matching at the edges of two windows | no read that could still be the first leg is forgotten |
| **Modules runner** `internal/modules`, `cli/cmd_up.go` | order, preview, consent (memory) | sort, scan, gates, consent, plan, apply, verify | modules, operator, audit | a step of one module fails; the machine changes between preview and apply; cycles | success means every module, in order, and nothing the preview did not show |
| **Stream runner** `internal/shell/stream.go` | two pipes, a bounded channel, a handle | start, read, send, Close | session supervisor | Close against readers that are blocked; a child that inherits a pipe | every line is delivered; Close returns |
| **Daemon watches** `daemon/watch.go` | offset into a tailed log | poll, scan, notify, skip | notify dispatch | partial lines, lines above the cap, rotation | a line is notified once |
| **Duress** `internal/duress` | PIN digests | unlock | dead-man lockdown | a lockdown of its own beside the timer's | as the dead-man switch |
| **Rigs and API keys** `cli/cmd_enroll.go`, `cmd_rig.go`, `cmd_panic.go`, `cmd_rotate.go`, `internal/config` | one YAML file with the list of rigs; a copy of the API key per rig in the keychain, which cannot be listed | enroll rig, rig import, other writers of the file, init, panic, rotate | keychain, operator's editor, tailnet policy | a command that breaks off between copy and list; commands side by side, none of which locks the file; a slot that cannot be read or deleted | panic and rotate reach every copy of the key |
| **Fleet** `internal/fleet` | hosts | bounded fan-out | ssh | per-host failure | every host is reported once |

The rest of config and secrets, tailscale, the two servers (headscale, netbird), backend,
platform, the user interfaces, digest, metrics, evidence, conformance and
packaging are sequential code around I/O; the component list of `PROJECT.json`
says so for each.

How they meet: the session bridge calls dispatch for each event; dispatch and the
fan-out of `POST /notify` wake the phone, which takes up links of the content
store and answers requests of the approve loop; the gate asks for an approval and
takes its token; the timer, a duress unlock and the sentinel each run the
lockdown of the dead-man switch; whoever changes a file writes through the audit
log, from which the reversal is planned.

## 2. Plan

Done: `Deadman`; `AuditChain` with the abstract `WriteAhead` and the concurrent
reader `AuditVerify`; `Approval` with the abstract `Answer`; `Push`; `Dispatch`;
`Session`; `Votes` and `Gate`; `Budget`; `Content`; `Reversal`; `Sentinel`;
`Stream`; `Watch`; `Converge`; `Rigs`.

Left, in this order:

1. `Approval` with `Content` as its link store, once the approve loop is stated
   over the store's interface instead of its own two links.
2. The delivery receipts (`POST /ack`) of `Push`.

Abstract specifications: `WriteAhead` (record, then change), `Answer` (first
answer wins).

Components that share no state are checked in one run: a module `MC...` holds the
variables of all, and a variable `part`, chosen at the start and never changed,
says which of them moves.  The behaviours of such a run are those of the
components one by one; nothing is claimed of them together, since in the code too
they meet only through values that each module has as its environment.

| Module | Holds |
|---|---|
| `MCDeadman`, `MCAuditChain` | definitions TLC needs for one component |
| `MCMachine` | `Deadman` (once with every pgid fresh, once with freed ones handed out again), `Reversal` |
| `MCGuard` | `Approval`, `Gate` (over `Votes`), `Sentinel`, `Converge` |
| `MCDaemon` | `Dispatch`, `Content`, `Budget`, `Stream`, `Watch` |
| `MCAudit` | `AuditChain` on a larger instance, or on a smaller one with several contents or beside `AuditVerify`; `Rigs` |

## 3. What is modelled

### Deadman

One action per handler or critical section: the contact, flag and registry are
read-modify-written under the cross-process flock (`audit.Update`), so each such
call is a step; everything between two calls is not.  `lkPc` walks one
`deadman.Lockdown` per locker (`list`, `loop`, `term`, `kill`, `dereg`, `revoke`,
`record`), `armPc` one `abysslink arm` per run, `timerPc` the daemon's goroutine.
`group` is the kernel: who has a process left in which process group; `leader` says
whose group leader, the process the arm started and waits for, still lives.  The leader
may end and leave others of its group behind, and the arm then deregisters.  A registry
that cannot be read, an audit write or a SIGKILL that fails is a `Fault`; the caller
carries on as the code does (errors are aggregated).  A SIGTERM may end the group or its
leader only, be ignored, or be lost.

Properties: `SnapshotDisarmed` (one failure never strands the rest of the list),
`RegistryCoversLive`, `FireAdvances`, and `DeadlineHolds` (a deadline nobody
postponed is followed by the flag, and by the end of the agents, the group leaders, of
the runs registered before it).

`RegistryCoversLive` says that a registered agent is in the registry while its group leader
lives, whether pgids are reused or not.  It has three exceptions, each of which the code
does run into.  It is stated while nothing failed, since a run is deregistered even
when its SIGKILL failed ("the run is being torn down").  It speaks of the leader, since
who outlives the leader leaves the registry with it.  And entries are dropped by pgid
number alone, so that a run that registers a reused pgid while an earlier holder's
arm, or a lockdown that listed that holder, has yet to deregister it may lose its entry:
such runs are in the history variable `exposed`, and only they.

### AuditChain, WriteAhead, AuditVerify

`AuditChain` has two kinds of processes: `SignedProc` write through a
`SignedAudit` (the CLI) and may rotate keys, `PlainProc` through an `Audit`
(daemon, arm, deadman), which delegates to a signed writer once a chain is active
and falls back to an unsigned entry when the keychain does not answer.  Inside
the flock a step ends at every store a death would leave behind: keychain key,
log entry, anchor, counter, rename; rotation: key, marker, pointer, anchor,
counter.  `Abort` is a step that fails, `Crash` the death of the process.  The
verifier's checks are operators (`Walks`, `ReachesPointer`, `AnchorExists`,
`AnchorSigned`, `VerifyOK`).  `WriteAhead` is the promise that the audited file
only ever takes the content last recorded (`RecordsFirst`).  `AuditVerify` adds a
reader that runs `Verify` without the flock, one store after another, beside all
writers (`OverlapNeverTampered`: it may find the log short, never broken or forged, nor the
anchor deleted if there was one when it began, which `began` remembers).

The hashes that link entries are not modelled: nothing here tampers, and an
append-only log always links.

### Reversal

One file that both writers write, its sidecars in the order they were made, and
what `PlanReverse` folds out of the log.  A write leaves its sidecar (unless the
file is absent) before the entry and the content; an uninstall plans, records
its intent, then restores and sweeps the sidecars one by one, or deletes; `torn` counts
the commands that die and the removals that fail.  The contents are a few values, of which `Own` are
those abysslink writes.  `OriginalKept` says that what the file held before abysslink
is the file or a sidecar of it, `RerunHarmless` that a second uninstall, after a
restore that was done and recorded, neither deletes nor overwrites.  They except the
cases of section 6 in which the code does lose it, and no others.  `Mixed`: a sidecar of the
unsigned writer is followed by one of the signed writer (only `OriginalKept` needs it).
`spoiled`: another command or the user wrote during a write or an uninstall, a
sweep was cut short, or an uninstall was planned on a `Mistakable` file, the user's own
with the content abysslink recorded last and no backup or restore in the log.  `original`
follows the user's edits while abysslink has not touched the file (or has undone all);
no step of abysslink changes it, a deletion least of all.

### Approval, Answer

`Approval` follows the handlers of one request: the hook (`runApproveCheck`) asks,
waits on `GET /approve/wait` and prompts the terminal; the phone taps one of two
one-time links.  A handler's step is everything up to the next point where
another handler can see or change the registry.  `state` is the entry's atomic
value, which handlers that hold the entry still see after a prune; `present` is
the registry's map.  `DaemonCrash` loses registry, links and handlers.  `Answer`
is the abstract specification: decided once, allowed only on an approval, pages
show the decision or nothing; `Approval` implements it (`FirstAnswerWins`).
The tier rules (which request the phone may answer at all) and the signatures of
links are not modelled.

### Content

The links in the map (`entries`), which of them was minted before which (`minted`), the class of
each (`kind`), what has expired, and how often each was answered (`served`).  Each handler holds
the store's mutex throughout, so a mint (prune, evict if full, insert) and a look-up, which
consumes the link or leaves it, are one step each; every route, with the class it asks for, is
an action. `LinkAnswersOnce`: a link is answered once, never after its time, and leaves the
store for its answer or for a mint that finds the store full, a bootstrap link only when nothing
else is there.

### Push

The device store is written by any process, in one read-modify-write under the
audit flock, so `Enroll`, `Rotate`, `Revoke`, `RevokeAll` and `RevokeByID` are one
step each.  The daemon reads it through `List`, which re-reads the file or, when
that fails, answers with what it loaded last (`cached`, empty after a restart).
`callPc` walks one `POST /notify` per call (`Notify`, `ListDevices`, then
`NextDevice` and `Enqueue` for each device of the snapshot); `runPc` walks the one
runner (`Scan` copies what is due; per entry `NextEntry` decides, `Send` asks the
provider, and the transactions that follow are `Transact` steps).  Each bbolt
transaction is a step that may fail, the caller going on as the code does.  Time
is abstract: a backoff, a window, a mark and an age may end at any moment.  An
entry is its key, the copy of the token and the attempts; the gateways are their
contract (accepted, token dead, failed).

`LateWakes` counts the wakes a revoked device still gets: the one already decided
and one per failed read.  `NoSilentLoss` counts the wakes that vanish unsettled:
at most one per failed read.  Both allowances are needed.  `OutboxDrains`: under
fairness every entry leaves the outbox, whatever the provider does.

### Dispatch

Callers (the session bridge, and `POST /notify`, whose notes are `Explicit`) and the one retry
runner.  Every critical section of the mutex is a step, the sends lie between them.  A window is
identified by the note that armed it, which is what `until` does in the code, so a release after
a failed send is conditional on the same note.  Windows lapse, the bucket refills and entries
fall due at any moment; the queue (`retry`) evicts its oldest, by the order in which notes
failed first (`firstTried`).  `WindowHasNote` (no window without a note that was delivered or is
still held), `RetriesEnd`, and, with the type invariant, the bound of the queue.

### Session

The supervisor (`sup`), the poll it makes after a notification, the heuristic of
each attach (`heur`) with its own poll and its capture of one pane after another,
the registry's lock sections as steps, the bounded events channel and the bridge that
reads it.  tmux is the environment: it starts, dies, detaches, redraws panes and gets
clients.  A poll's answer is synced later than tmux gave it, so the two pollers can
apply theirs out of order.  `LastEdgeHolds` (what a consumer heard last is what the
registry holds, unless that event was dropped, a lost pane is told once, and a screen
that has changed clears the pane), `DegradesHonestly`, `PromptNoticed`.

### Votes, Gate

`Votes` are the four verifiers as pure operators over the attributes of an
operation, and how their votes combine.  `Gate` walks each caller: floor and
verifiers, whose answers are collected under a timeout each and one for all (`Hangs`
says which may hang), the decision of `gate.Exec` in its three modes, the token that an
approval mints for the script hashed at that time, and the run.  Somebody may edit the
script in between.  V3 reads the ring of executions and enters it in two lock
sections.  `NoEscape`: what an enforcing gate lets through was not vetoed and had four
confident yeses or an approval of that very script at the right tier; `RateHolds`:
the rate of destructive runs holds but for one in flight per other caller.

### Sentinel

One `Observe` per command the gated runner starts: prune both windows, match the
newest pending read, enqueue.  `reads` and `matched` are history.  `NothingMissed`.

### Budget

The watcher (`watcher`: watch, ask, wait, heard, grace and done), the agent's process
group, the recorded hashes, the operator's answer to each request and the deadline of
the newest.  `NeverDecidesAlone`; `FreezeEnds` (an answer that counts, or the end of
the run, ends the freeze).

### Stream, Watch, Converge

`Stream`: process, a child that inherits its pipes, two readers, the channel, the consumer and
`Close`.  `StreamEnds`.  `Watch`: the file as a sequence of text and line ends, an offset, a
scan with a cap on the line, the skip, and rotations. `LinesOnce`.  `Converge`: the topological
sort over any graph of dependencies, cycles included, one module of the queue at a time
(`CountDegrees`, `PopFront`, `SortEnds`), scan, preview, gates, consent, and per module plan,
apply and verify, each of which may fail; `Drift` is somebody else who changes the machine.
`UpHonest`.

### Rigs

`enroll rig` copies the API key of this machine into a slot of the keychain named
after the rig and lists the rig in the config file; `rotate anthropic-key` writes a new
key over the copies, `panic` deletes them, each by the names it has read in the file.  A
command is a record in `cmd`: its step, the rig it is to list, the rigs it has read, the
key it carries, the slots still to visit.  The file is read at the start and written
whole at the end (`Load`, `Store`; `init` and the operator's editor in one step), every
access to a slot is a step, and a command may break off anywhere (`GivesUp`).  Keys are
numbered in the order of their making.  Of the entries that an enrolment copies only the
API key is modelled, since neither panic nor a rotation is about the others.
`KeysInReach`: no key that a finished panic was to destroy, or a finished rotation to
replace, is in any slot, and every copy is listed or about to be, but in the slots of
`astray`.  These are named when, and only when, one of six things happens to them: an
enrolment breaks off after the copy, or copies from such a slot; a kill overlaps an
enrolment or another kill; a delete or a read fails; the file is unusable for panic; or a
name is lost from the file.
A later kill that has the machine to itself takes a listed slot out of `astray` again.

## 4. Runs

| Run | Instance | Shows |
|---|---|---|
| `DeadmanRuns` | `Deadman`: 2 arms, 2 pgids, timer and quarantine lockdown: every pgid fresh with both lockdowns and 1 death or fault; or pgids reused, by other programs too, with 1 death and 1 fault beside the timer's lockdown, or none beside both; no `deadman enable`. `Reversal`: contents `u`, `v` (`v` abysslink's), 2 sidecars, 1 death or failed removal | `AllTypeOK`, `SnapshotDisarmed`, `RegistryCoversLive`; `OriginalKept`, `RerunHarmless` |
| `DeadmanLive` | 1 arm, timer and duress lockdown, pgid reuse, 1 death | `FireAdvances`; under fairness `DeadlineHolds` |
| `DeadmanArmRace` | 1 arm, 2 lockers | violation: an arm spawns its agent under lockdown |
| `AuditRotate` | 2 signed and 1 plain process, 3 epochs, 3 keys, 4 entries at which a write may start, 2 deaths or failures, 1 outage, one content; or one rotation, 3 entries and 1 death, with 2 contents, or with 1 signed and 1 plain process beside one Verify. `Rigs`: 2 rigs, one of which is enrolled and both imported, 2 commands, 2 keys | `AllTypeOK`, `RestVerifies`, `CounterNeverAhead`, `RecordsFirst`, `RotationCompletes`; `OverlapNeverTampered`; `KeysInReach` |
| `AuditMidRotation` | with one outage | violation: an append in a half-done rotation |
| `AuditStaleKey` | no failure at all | violation: a process refused although no rotation is half done |
| `GuardRuns` | `Approval`: 1 request, 2 links, 1 daemon crash. `Gate`: 2 callers, a destructive operation and one on the floor, rate 1, timeouts 2 and 5, verifiers 1 and 4 may hang, 1 edit. `Sentinel`: windows of 2 commands and 1 second, 6 commands, time 3. `Converge`: 3 modules, every graph, 1 change by others | `AllTypeOK`; `ReceiptIsDecision`, `GaugeCountsOpen`, `FirstAnswerWins`, `WaiterPrunes`; `NoEscape`, `RateHolds`; `NothingMissed`; `UpHonest` |
| `PushWakes` | 2 devices of one name, one without a gateway leg, 2 notifications of a message, 2 mints, 1 crash, 1 fault | `TypeOK` (with the ceiling), `LateWakes`, `NoSilentLoss`, `OneLiveCert`; under fairness `OutboxDrains` |
| `PushPrune` | 1 device, 1 notification, 2 mints, no failure | violation: the rejection of an old token revokes a device with a new one |
| `SessionRuns` | 1 pane, a working and an asking screen, 1 client, channel of 1, 1 failed call | `TypeOK`, `LastEdgeHolds`; under fairness `DegradesHonestly`, `PromptNoticed` |
| `DaemonRuns` | `Dispatch`: 2 callers, 3 notes of one pane in 2 epochs, queue of 1, 2 attempts, bucket of 1. `Content`: 3 links, room for 2. `Budget`: 2 hashes, trip at 2 of 3, channel of 2, 2 requests. `Stream`: pipe and channel of 1, 3 lines. `Watch`: lines of 3, 6 cells, 2 files | `AllTypeOK`; `WindowHasNote`, `RetriesEnd`; `LinkAnswersOnce`; `NeverDecidesAlone`, `FreezeEnds`; `StreamEnds`; `LinesOnce` |
| `UndoEdits` | contents `u`, `x`, `v`, no failure | violation: a later edit is lost |

The bounds.  `Interval` 1 and `MaxTime` 2 let a contact expire, a later one be
given and expire too (`DeadmanLive`); in `DeadmanRuns` one expiry is enough, the runs
matter.  Two arms, two pgids and two lockers are the smallest instance in which one
actor's deregistration can hit another's entry.  Three
epochs let a rotation follow a completed one and leave another half done; three
keys let a retry overwrite an orphan; two failures let a retry die as well.  Two contents are
what tells the newest record from an older one (`RecordsFirst`).
Requests of `Approval` share nothing but the gauge, so one suffices for TLC; the
proofs cover any number.  Two callers of the gate are what V3's two lock sections need,
and the rate of 1 is reached by one of them.  Six commands slide a window of two past
every order of two reads and a send.  Three modules have every shape of graph: chains,
forks, joins and cycles.  Two notifications of one message are what re-queues an entry
under the runner; two mints are an enrolment and a rotation, or two devices.  Three notes
over two slots with a queue and bucket of one overflow the queue, empty the bucket and
re-arm a window that an older note released.  A channel of one event drops with one pane.
Three links in a store of two evict; a third hash slides the window.  Two requests of
`Budget` let the deadline of the first race its answer and the second be answered.  Six
cells hold a line within the cap, one above it and a rotation's successor.  Of two commands
on the rigs one enrolls, so that an enrolment beside a kill and a write of the file beside
another are there, and two kills are not; a rig that is imported only has a slot without a
key.  The theorem of section 5 holds for all of them.

Symmetry is used only where no liveness property is checked.  Deadlock is checked in
the runs of `Deadman`, `Reversal` and `Session`.  It is not where the system stops once its
bounds are used up: the writers of the audit log, a gate whose callers are through, an `up`
that has ended, a dispatcher without further notes, a closed stream, an empty outbox.

Fairness.  `Deadman`: the clock moves, the service manager restarts the daemon,
its goroutine is scheduled and a running lockdown goes on; nothing is assumed of
operator, arms or agents.  `AuditChain`: a process under the flock runs on, the
operator restarts what died and keeps re-running a rotation (strong fairness:
the flock is taken by others in between).  `Approval`: a waiting handler runs on
and its context ends (`approve_timeout`).  `Push`: the runner ticks, time passes and
the service manager restarts the daemon; the provider owes nothing.  `Session`: the
supervisor, the heuristic and the bridge are scheduled, and a pane that has stopped
changing is found idle; tmux and the user owe nothing.  `Dispatch`: callers and runner
go on (their sends have timeouts), and an entry falls due; no send need succeed.
`Budget`: the watcher's ladder goes on; neither agent nor operator owe anything.
`Stream`: a SIGKILL takes effect, and the goroutines are scheduled; the consumer and a
child of the process owe nothing.

In a run whose components share a module, the fairness is the conjunction of theirs;
a weakly fair action of a component that does not move is disabled at its start or
stutters, so it constrains nothing.

## 5. Proofs

Every safety invariant and every action property the runs check is stated by a theorem,
for every value of the constants that meets the named assumptions, and for every size:
sets of runs, processes, notes and rigs may be infinite.  Only the requests of the gauge, the
callers of the gate, the panes of a session and the modules (which a sequence lists) are finite,
as they are in the code.  Where a run checks several components side by side, a lemma
says that each of them moves as its own specification allows, and the type invariant of the run
(`MachineTyping`, `AuditAllTyping`, `GuardTyping`, `DaemonTyping`) follows from theirs.

`Machine_proof`, the dead-man switch, for any number of runs, pgids and lockers: `Typing`;
`FiresAdvance`, from `LatchInv` (a fire lies a whole interval in the past, so that even a
contact synthesised from the clock is later than it); `LockdownDisarmsItsSnapshot`, from
`SnapshotInv` (an entry of the snapshot is to come, under the signals, failed, or dead; dead is
for good since whatever takes the pgid later is another run); `LiveAgentsAreDiscoverable`,
from `CoverInv` on top of it.  Nothing is assumed of pgids: a leader holds its pgid, no
earlier holder's arm and no lockdown at its entry is about to deregister it unless the run
is `exposed`, and so its entry goes only with the leader.

The same module, the way back of a file, for any contents and number of sidecars:
`ReversalTyping`, `WayBackStaysOpen` and `RerunIsHarmless`.  `OriginalKept` alone is not
inductive: an uninstall may have planned to restore a sidecar that is not the original, or
sweep the last one.  With one command at work at a time (`Alone`) and no signed sidecar behind
an unsigned one, the file is the original until abysslink touches it, and from then on the
earliest sidecar is (`WayBack`).  The planned restore goes for that one, the sweep begins with
the original in the file, and a deletion is only planned when the user had no file: with
neither sidecar nor restore, a file that has not drifted is `Mistakable` otherwise.

`AuditChain_proof`, for any number of writers, epochs, keys and entries:
`AuditTyping`, and `NoFalseTruncation`: the counter plus the entries the lock holder
has appended and not yet counted never exceeds the log.  `NeverCriesWolf` needs
`RestInv`: a key in a cache or under the anchor is the keychain's, of an epoch the
pointer has reached (`Kept`), since the keychain only overwrites a key nobody has used
yet; whoever is to sign has a key, and a rotation's key and marker are there before the
step that relies on them (`InHand`); an entry is signed by the key of its epoch
(`EntrySound`); and but for a misdated entry every entry is of the epoch in force, every
marker leads one on under that epoch's key, and the pointer is not ahead (`Dated`).  An
append that passes the check of `appendNoRefresh` is then of the pointer's epoch, which
keeps `Dated`.  That every prefix of such a log walks (`PrefixWalks`) gives `OverlapIsSafe`
too, with the reader's types (`ReaderTyping`) and an anchor that stays once it is there
(`AnchorThere`).  `RecordedFirst` is the refinement of
`WriteAhead`: what is recorded stays the last entry until the file takes it (`Recorded`),
because the flock is held from the record to the rename.

`Approval_proof`, for any set of requests: from `IInv` (what a handler that has won,
or lost, the compare-and-swap knows of decision, receipt and page until it returns;
that a request is opened once and never comes back after the prune) follow
`ApprovalTyping`, `OneReceipt` and `ImplementsAnswer`, the refinement of `Answer`:
the compare-and-swap maps to `Decide`, the exit of the hook to `Allow` or `Block`,
the render of a page to `Show` or `ShowMiss`, all else to a stutter.  `TypeOK`
alone is not inductive: a page of type decision or miss needs to know that a
handler that lost finds the entry decided, or gone.

The same module proves `GaugeIsRight`.  Every request is on the
gauge while it is open, and from its decision until the one handler that made it has
counted it off (`OnGauge`).  The invariant adds to `IInv` that at most one handler
owes (`OneOwes`), and that a request somebody waits for is still in the registry
(`Waited`), without which the waiter's expiry would count off a request twice; `Counts`
then says that the gauge is the number of requests on it.

`Guard_proof`, the gate, for any operations, overrides and timeouts and any finite number of
callers: `GateTyping`, `NothingEscapes` and `RateIsKept`.  `NoEscape` follows from what a caller
knows between its evaluation and its run (`Knows`): the decision is a refusal, or what
`Combine` makes of the votes it holds, whose tier is no lower than that of any vote that
is no confident yes (`Combined`).  `RateHolds` alone is not inductive, since an allowed
operation enters the ring after the look at it: the executions in the window and the
allowed calls in flight together keep to the bound (`Room`), because V3 agrees only
while the window has room (`AllowedHasRoom`).

The sentinel, for any two windows: `SentinelMissesNothing`, with the bound on the
memory of the engine.  A pending read is within the window of commands and no two have
one number, so that there are at most as many as the window is long.

The modules runner, for any modules and any graph of dependencies: `UpTyping` and
`UpIsHonest`.  The sort is correct by `SortInv`: a module is in the queue or in the order exactly
when all its dependencies are in the order, and its degree counts those that are not yet.
An order that holds every module leads each dependency before its dependents, so that
there is no cycle: the module of a cycle that comes first in the order would depend on one that
comes later.  `WalkInv` adds where in the order the
command is, and `QuietInv` what the preview has shown and what is left to do while nobody else
changes the machine.

`Push_proof`, for any devices, messages, crashes and failed reads: `PushTyping`, with
the ceiling, since check and count are one transaction; `OnlyCurrentCerts`, which the
steps of the device store alone can disturb; `RevokedHardlyWoken`, from the count of
late wakes plus the one in flight (`WakesCounted`); and `NoWakeLost`, from the count of
lost wakes plus the one that the runner is about to drop (`LossCounted`).  What is queued
may be infinite; what is lost is finite, one for each read that failed.

`Session_proof`, for any finite number of panes, any screens, clients and depth of the
channel: `SessionTyping` and `EdgesAreTrue`.  `LastEdgeHolds` alone is not inductive.  It needs
that what was last told of a pane is what its record says, unless that event was dropped
(`EdgeTold`); that a waiting pane has not been told lost since it was set, and that the first
poll of an attach finds only records it made (`LossInv`); and that a pane waits under a screen
that asks, but while the heuristic is about to clear it (`ScreenInv`).

`Daemon_proof`, dispatch, for any number of callers, panes, epochs and notes, any queue and
bucket: `NothingSilentlyLost`.  `WindowHasNote` alone is not inductive: a caller that
comes back from a send lets go of its note, which is delivered by then if a window names
it (`CallerHolds`), and the runner lets go of its batch only when it is empty.
`QueueKeepsItsDepth`: the queue is bounded although entries come from callers and come back from
the runner's batch.  A note is in one place at a time (`OnePlace`), all that wait are
ordered by their first try (`TriedOrder`), and a finite set so ordered has an oldest, so that
evicting down to the depth leaves exactly the depth.

The other parts of the daemon in the same module, each for any value of its constants:
`LinksAnswerOnce`, with `ContentTyping` (a link in the store has been minted and not been answered,
`ServedInv`); `OperatorDecides`, with `BudgetTyping` (an answer the watcher has heard is the operator's
unless a deadline or the end of the run made it up, `HeardInv`); `NoLineLost`, with `StreamTyping`,
the first half of `StreamEnds`: lines are conserved between pipe, goroutine, channel and consumer
(`LinesInv`); `EveryLineOnce`, with `WatchTyping` (the offset is within the file last scanned, and
what is not written has not been told, `ScanInv`).

`Rigs_proof`, for any rigs, commands and number of keys: `KeysStayInReach`, with the type
invariant (`RigsTyping`).  `KeysInReach` alone is not inductive.  It needs that a command
remembers what it can have read (`Memory`); that a copy outside the file is owed by an enrolment
that is about to list it (`Findable`), so that a kill which reads the file knows every
copy but those of enrolments in its way; that no enrolment carries a key that is done away with
(`Current`); that all that runs beside a kill is astray (`Overlap`); and that a slot a
kill has behind it holds no doomed key (`Visited`).

The proofs assume the named assumptions on the constants and nothing else.

Only model-checked: what is temporal under fairness, which is out of reach of the installed
provers, namely `DeadlineHolds`, `RotationCompletes`, `WaiterPrunes`, `OutboxDrains`,
`DegradesHonestly`, `PromptNoticed`, `RetriesEnd`, `FreezeEnds` and the second half of `StreamEnds`
(`Close` returns).

## 6. Where code and documentation disagree

Shown by a run:

- `docs/agent-safety.md:106` says an arm does not spawn under a lockdown; the flag
  is read once in the preflight (`DeadmanArmRace`).
- `docs/security/hardening.md:114` says appends fail closed after an interrupted
  rotation; the unsigned fallback does not look (`AuditMidRotation`).
- `rotate.go:143` says that after the pointer every writer signs under the new
  key; a process that cached the old key is refused until it restarts
  (`AuditStaleKey`).
- `gateway.go:59-61` says a dead token is pruned; the runner revokes the device of the
  entry, whose token may be another by then (`PushPrune`).
- `reverse.go:246-249` says an edited target is left untouched so that later changes are
  never lost; once abysslink has written the file again the edit is in a sidecar only, and
  the uninstall restores the first one and sweeps the rest (`UndoEdits`).

Met while modelling, not shown by a run of its own.

Dead-man switch and budget:

- `timer.go:127-131` says a redundant seed never resets a deadline; two concurrent
  seeds, or a seed and a heartbeat, do (the read is outside the lock of the write).
- `registry.go:36-40`: a lockdown finds "nothing it should not"; an entry of an arm
  that died names a pgid the kernel may have given to another group.
- `docs/agent-safety.md:85` says the registry lets the switch find the armed process group.
  The arm deregisters when the group leader is reaped (`armed.go:104-115`,
  `arm_cmd.go:334-335, 396`); processes of the group that live on are not found any more.
- `registry.go:124-144` deregisters by pgid alone.  A lockdown (`lockdown.go:141`) or an arm that
  is late with it drops the entry of a newer run that was given the same pgid in between.
- `budget.go:455-472`: the operator's no that races the deadline is taken for a time-out,
  and asked again.
- `docs/agent-safety.md:104` promises an answer from the phone; the arm's approve registry
  is in its own process and the notice carries no URL.
- An arm that dies while its agent is frozen leaves it stopped; one that is interrupted
  leaves it running unwatched.  The loop window is not reset when the operator resumes, so
  the same commands may trip at once again.
- `arm_cmd.go:560-620`: a rollback without a stash of its own resets a work tree hard
  that was dirty when the run began.

Audit log and reversal:

- `audit.go:153-154` says the unsigned fallback keeps the chain walkable; after a
  rotation the entry reads as epoch 1 and breaks the walk.  A re-run of a
  half-done rotation behind such an entry replaces a key its marker binds.
- `verify.go:329-332` infers deletion from a key without an anchor; a death right
  after the first key is stored leaves just that, and so does a Verify that begins before
  the first anchor and overlaps the write that makes it.
- `anchor.go:289-291` says the counter always equals the number of entries; a death
  between append and count leaves it behind for good.
- `verify.go:32-34`: a Verify that overlaps a writer can report a truncation of a
  log that has grown.
- `reverse.go:259-261, 388-389`: a file abysslink created and rewrote has its own first
  content as earliest backup; the uninstall restores that instead of deleting.
- Backups of the unsigned writer followed by those of the signed one: the uninstall takes the
  earliest attested one, which holds abysslink's content, and sweeps the original.
- A sweep that is interrupted, an `up` after it and an uninstall after that lose the
  original; so may an edit in the middle of an uninstall, which takes no lock.
- A file of the user's that holds what abysslink recorded last, while the log has neither a
  backup nor a restore of it, is deleted by an uninstall as one abysslink made
  (`Mistakable`): the unsigned writer died between entry and backup over a file that already
  held what it was to write, or the user made a file by hand that an uninstall had deleted.

Notifications, devices and sessions:

- `outbox_runner.go:195-196`: a revoked device "must NEVER receive its pending wakes";
  it does for a send under way and while the records cannot be read
  (`LateWakes` says how many).  After a restart with unreadable records the runner
  drops the wakes of active devices instead.
- `server.go:388-389` says a device's push token is its endpoint URL; the token minted
  by `device/tokens.go:51-52` is an opaque `ablk_p_` string, which
  `UnifiedPushGateway.Send` posts to as it stands.
- `dispatch.go`: a success that comes late ends a flood episode, so that one flood may
  be announced twice; an announcement that fails is not tried again.
- `registry.go:338-341` and `heuristic.go:241-246`: the idle check and the mark are in
  different lock sections; a pane that a client's attach cleared in between is marked again.
- A pane is reported lost as after a restart when only the stream was lost, and again after
  an attach whose first poll failed.
- `content.go:243-247` says that within a class the earliest mint wins; the victim is the
  oldest of whichever evictable class the iteration over the map meets first.
- `watch.go:107-109` says the offset is always at a line boundary; the skip after a line
  above the cap goes to the end of the file, in the middle of a line that is being written,
  whose rest is then taken for a line.  A rotation to a file already longer than the offset
  is not noticed, and a change whose send fails is lost.

Rigs, keys and the config:

- `cmd_panic.go:317-321` says panic destroys every rig-scoped copy of the key, and
  `cmd_rotate.go:177-179` that none survives a rotation.  Both know the copies by the
  config only.  An enrolment that fails or dies after the migration
  (`cmd_enroll.go:165-186`: a topic in use, a policy refused, a write that fails), or a rig
  taken out of the file by hand, which `cmd_enroll.go:194` advises, leaves a copy neither
  reaches; so does a kill beside an enrolment.
- `panic` with a config that does not load goes on with the defaults, thus without rigs,
  and says nothing of their copies; `updateRigScopedAnthropicKeys` takes a copy that cannot be read
  for "never migrated", and the rotation reports success.
- `config.Write` writes the whole of what was loaded earlier, without a lock: of two
  commands side by side one loses its change.  `init` writes a file without rigs.
- Two concurrent enrolments of one name both pass the guard that is there to keep the
  printed signing key from being overwritten (`cmd_enroll.go:156-162`).
- `cmd_rig.go:318` advises `enroll rig <name> --apply` for an imported rig;
  `enrollRigCheckDuplicateName` refuses a listed name.
- `enforceRigToRigACLDeny` parses the policy as an object with grants; the netbird backend
  answers with an array of policies, so that an enrolment is refused there after it has
  copied the keys.

Gate, sentinel, runner:

- No caller threads the approval tokens yet (`cmd/abysslinkd/main.go:184-200`); the rate
  of V3 allows one more run for each other caller between look and entry (`RateHolds`).
- The sentinel matches the newest read first, so an older one may expire and a second
  egress go unflagged.
- `runner.go:233-241` says that apply never exceeds the preview; a module that the machine, or
  another module, has put out of date in between is applied unseen, and so are the dependents of a
  module that failed.
- `cmd_up.go:545-618`: an operator who leaves the table of a running apply reads "Aborted."
  and exit code 0, whatever has been applied or has failed.
- `stream.go:79-177` says Close unblocks the readers; a descendant that holds a pipe keeps
  them, and Close, waiting.

Servers, read but not modelled: an init or upgrade of headscale that fails leaves the service
stopped; exit codes of the service manager are ignored; a re-run installs the pinned version over a
newer one without a copy of the database; the copy an upgrade makes is taken while the service
runs; an expired API key cannot be replaced since its replacement authenticates with it
(`cmd_server_headscale.go:878-900, 1049-1093`).

`RestVerifies` speaks of logs without a misdated unsigned entry (`Misdated`) that have been
anchored once.

## 7. Not modelled

- Tampering, cryptography, formatting, HTTP decoding, rendering.
- `internal/config` (1.9 k lines) but for `Load` and `Write` (`Rigs`): one file parsed and
  validated in sequence.
- The servers (`cmd_server_headscale.go`, `cmd_server_netbird.go`): scripts over a service
  manager and a REST interface, each step of which the operator sees; they share no state with the
  daemon.  Their faults are order and ignored results of external tools, which a model
  would have to assume (section 6).
- `cmd_enroll.go` beyond `enroll rig`, `cmd_init.go`, `cmd_doctor.go`, `cmd_up.go` beyond its
  runner: forms, tables and command lines around the components above.
- `panic` beyond the keys: it disconnects, revokes phones and devices in sequence, best
  effort (the devices are `RevokeAll` of `Push`).
- The modules themselves: each writes files through the audit log and calls command-line tools;
  `Converge` sees a plan and an apply that may fail.
- The fleet's fan-out: workers that write an index each of one slice.
- Of modelled components: the bearer check and last-seen of devices, `POST /ack` and the
  counters of the outbox; the PIN checks of duress; the vocabulary of the sentinel; the tier
  rules of the approve loop; the rules V1 to V4 match an argument vector with (they are attributes
  of the operation); the grammar of tmux's control mode; the HTTP watcher, which compares
  one status with the last; `Runner.Up` and `Runner.Doctor`, which are `Converge` without the second plan;
  `audit purge`.
- User interfaces, digest, metrics, evidence, conformance, packaging.
