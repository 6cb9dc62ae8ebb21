----------------------------- MODULE AuditChain -----------------------------
(***************************************************************************)
(* The audit log of internal/audit as several processes write it: the      *)
(* JSONL log, the anchor file beside it, the HMAC keys, the epoch pointer  *)
(* and the entry counter in the keychain, and one audited file.            *)
(*                                                                         *)
(* SignedProc are processes that hold a SignedAudit (NewSigned: the CLI);  *)
(* PlainProc hold an Audit (New, NewWithKeychain: arm, deadman, the        *)
(* daemon), which signs through a delegate only once a chain is active.    *)
(* Every writer takes the cross-process flock and releases it on return;   *)
(* the kernel releases it when the process dies.  Inside the lock a step   *)
(* is everything up to the next thing a crash would leave behind.          *)
(*                                                                         *)
(* Not modelled: tampering.  The prev_hash links and the anchor's          *)
(* last_hash say nothing about a log that is only ever appended to.        *)
(***************************************************************************)
EXTENDS Integers, Sequences, FiniteSets, FiniteSetsExt

CONSTANTS
  SignedProc,  \* processes that write through a SignedAudit and may rotate
  PlainProc,   \* processes that write through an Audit
  Nobody,      \* no process holds the flock
  Version,     \* contents the audited file may be given (0: no file)
  MaxEpoch,    \* bound on rotations
  MaxKeys,     \* bound on generated keys
  MaxLog,      \* bound on the entries at which a write may still start
  MaxFails,    \* bound on process deaths and failed steps
  MaxOutages   \* bound on moments the keychain does not answer

Proc == SignedProc \cup PlainProc

ASSUME ConstantsAssumption ==
  /\ SignedProc \cap PlainProc = {} /\ Nobody \notin Proc
  /\ Version \subseteq Nat \ {0}
  /\ MaxEpoch \in Nat \ {0} /\ MaxKeys \in Nat /\ MaxLog \in Nat
  /\ MaxFails \in Nat /\ MaxOutages \in Nat

VARIABLES
  log,         \* the entries, oldest first
  anchor,      \* NoAnchor, or what audit.anchor.json says
  counter,     \* the keychain entry counter (absent reads as 0)
  pointer,     \* the keychain epoch pointer (absent reads as 1)
  keys,        \* the keychain HMAC key of each epoch, 0 when absent
  keysMade,    \* the keys generated so far are 1..keysMade
  file,        \* the content of the audited file, 0 when it does not exist
  holder,      \* who holds the flock
  pc,          \* where each process is
  val,         \* the content of its current write
  added,       \* the entries its current operation has appended
  cache,       \* its cached key and the epoch of it, NoKey when none
  fails, outages

logVars    == <<log, anchor, file>>
chainVars  == <<counter, pointer, keys, keysMade>>
procVars   == <<holder, pc, val, added, cache>>
boundVars  == <<fails, outages>>
vars == <<logVars, chainVars, procVars, boundVars>>

Epoch    == 1..MaxEpoch
Key      == 0..MaxKeys                    \* 0: no key, no signature
NoKey    == [epoch |-> 1, key |-> 0]
NoAnchor == [count |-> 0, epoch |-> 1, key |-> 0]

Entry == [kind : {"legacy", "write", "backup", "rotate"},
          epoch : Epoch,                  \* key_epoch as the entry declares it
          key : Key,                      \* the key that signed it
          val : Nat,                      \* content, or fingerprint of the new key
          target : 0..MaxEpoch]           \* the epoch a rotation marker leads to

\* Where a process that holds the flock can be: in WriteFile, in RotateHMACKey.
WritePcs  == {"key", "backup", "append", "anchor", "counter", "rename"}
RotatePcs == {"rotate", "marker", "pointer", "ranchor", "rcounter", "cpointer"}

Pcs == {"down", "idle"} \cup WritePcs \cup RotatePcs

CachedKey == [epoch : Epoch, key : Key]

ProcTypes ==
  /\ holder \in Proc \cup {Nobody} /\ pc \in [Proc -> Pcs]
  /\ val \in [Proc -> Version \cup {0}] /\ added \in [Proc -> Nat]

TypeOK ==
  /\ log \in Seq(Entry)
  /\ anchor \in [count : Nat, epoch : Epoch, key : Key]
  /\ counter \in Nat
  /\ pointer \in Epoch /\ keys \in [Epoch -> Key] /\ keysMade \in Key
  /\ file \in Version \cup {0}
  /\ ProcTypes /\ cache \in [Proc -> CachedKey]
  /\ fails \in 0..MaxFails /\ outages \in 0..MaxOutages

Init ==
  /\ log = <<>> /\ anchor = NoAnchor /\ counter = 0
  /\ pointer = 1 /\ keys = [e \in Epoch |-> 0] /\ keysMade = 0
  /\ file = 0 /\ holder = Nobody
  /\ pc = [p \in Proc |-> "down"] /\ val = [p \in Proc |-> 0]
  /\ added = [p \in Proc |-> 0] /\ cache = [p \in Proc |-> NoKey]
  /\ fails = 0 /\ outages = 0

-----------------------------------------------------------------------------
(* What the writers and the verifier read off a log.                       *)

Chained(e) == e.kind # "legacy"           \* PrevHash is set

\* chainActive: the last entry carries a prev_hash.
ChainActive == log # <<>> /\ Chained(log[Len(log)])

\* tailEpoch: the epoch in force after the last entry, as that entry tells it.
TailEpoch ==
  LET last == log[Len(log)]
  IN IF log = <<>> THEN 1
     ELSE IF last.kind = "rotate" THEN last.target ELSE last.epoch

\* The key of the pointer's epoch, as hmacKey fetches it.
Fetched == [epoch |-> pointer, key |-> keys[pointer]]

-----------------------------------------------------------------------------
(* Processes come and go, and take and release the flock.                  *)

\* NewSigned caches the pointer epoch's key when there is one.
StartProc(p) ==
  /\ pc[p] = "down"
  /\ pc' = [pc EXCEPT ![p] = "idle"]
  /\ cache' = [cache EXCEPT ![p] =
                 IF p \in SignedProc /\ keys[pointer] # 0 THEN Fetched ELSE NoKey]
  /\ UNCHANGED <<logVars, chainVars, holder, val, added, boundVars>>

\* WriteFile takes the flock: the signed writer resolves its key next, the
\* plain one appends.
BeginWrite(p, v) ==
  /\ pc[p] = "idle" /\ holder = Nobody /\ Len(log) < MaxLog
  /\ holder' = p
  /\ pc' = [pc EXCEPT ![p] = IF p \in SignedProc THEN "key" ELSE "append"]
  /\ val' = [val EXCEPT ![p] = v] /\ added' = [added EXCEPT ![p] = 0]
  /\ UNCHANGED <<logVars, chainVars, cache, boundVars>>

\* The operation returns: unlock.
Return(p) ==
  /\ holder' = Nobody /\ pc' = [pc EXCEPT ![p] = "idle"]
  /\ val' = [val EXCEPT ![p] = 0] /\ added' = [added EXCEPT ![p] = 0]

Goto(p, l) ==
  pc' = [pc EXCEPT ![p] = l] /\ UNCHANGED <<holder, val, added>>

\* A step fails (disk, keychain) and the operation returns its error.
Abort(p) ==
  /\ holder = p /\ fails < MaxFails
  /\ fails' = fails + 1
  /\ Return(p)
  /\ UNCHANGED <<logVars, chainVars, cache, outages>>

\* The process dies, with the flock and the cached key it may hold.
Crash(p) ==
  /\ pc[p] # "down" /\ fails < MaxFails
  /\ fails' = fails + 1
  /\ holder' = IF holder = p THEN Nobody ELSE holder
  /\ pc' = [pc EXCEPT ![p] = "down"]
  /\ val' = [val EXCEPT ![p] = 0] /\ added' = [added EXCEPT ![p] = 0]
  /\ cache' = [cache EXCEPT ![p] = NoKey]
  /\ UNCHANGED <<logVars, chainVars, outages>>

-----------------------------------------------------------------------------
(* SignedAudit.WriteFile                                                   *)

\* A fresh random key goes to the keychain as the key of epoch e.
MakeKey(e) ==
  /\ keysMade < MaxKeys
  /\ keysMade' = keysMade + 1
  /\ keys' = [keys EXCEPT ![e] = keysMade + 1]

\* ensureKeyLocked: the cached key, else the stored one, else (the very first
\* signed append) a new one, never a replacement for a rotated key.
EnsureKey(p) ==
  /\ pc[p] = "key"
  /\ Goto(p, IF file # 0 THEN "backup" ELSE "append")
  /\ \/ /\ cache[p].key # 0
        /\ UNCHANGED <<cache, keys, keysMade>>
     \/ /\ cache[p].key = 0 /\ keys[pointer] # 0
        /\ cache' = [cache EXCEPT ![p] = Fetched]
        /\ UNCHANGED <<keys, keysMade>>
     \/ /\ cache[p].key = 0 /\ keys[pointer] = 0 /\ pointer = 1
        /\ MakeKey(1)
        /\ cache' = [cache EXCEPT ![p] = [epoch |-> 1, key |-> keysMade']]
  /\ UNCHANGED <<logVars, counter, pointer, boundVars>>

\* Mutant: no check that the chain is at the key's epoch.
SignedAppendAnyEpoch(p, k, kind, v, target, next) ==
  /\ log' = Append(log, [kind |-> kind, epoch |-> k.epoch, key |-> k.key,
                         val |-> v, target |-> target])
  /\ added' = [added EXCEPT ![p] = @ + 1]
  /\ pc' = [pc EXCEPT ![p] = next]
  /\ UNCHANGED <<holder, val>>

\* appendNoRefresh: one entry signed with key k, unless the chain has already
\* moved to a later epoch than k's (then the operation returns the error).
SignedAppend(p, k, kind, v, target, next) ==
  \/ /\ TailEpoch > k.epoch
     /\ Return(p)
     /\ UNCHANGED log
  \/ /\ TailEpoch <= k.epoch
     /\ log' = Append(log, [kind |-> kind, epoch |-> k.epoch, key |-> k.key,
                            val |-> v, target |-> target])
     /\ added' = [added EXCEPT ![p] = @ + 1]
     /\ pc' = [pc EXCEPT ![p] = next]
     /\ UNCHANGED <<holder, val>>

\* backupNoRefresh: the old content is copied aside and recorded.
AppendBackup(p) ==
  /\ pc[p] = "backup"
  /\ SignedAppend(p, cache[p], "backup", file, 0, "append")
  /\ UNCHANGED <<anchor, file, chainVars, cache, boundVars>>

\* Mutant: one record of a write is taken to do for the later ones.
AppendWriteOnce(p) ==
  /\ pc[p] = "append" /\ p \in SignedProc
  /\ \/ ~(\E i \in 1..Len(log) : log[i].kind = "write")
        /\ SignedAppend(p, cache[p], "write", val[p], 0, "anchor")
     \/ (\E i \in 1..Len(log) : log[i].kind = "write") /\ Goto(p, "anchor") /\ UNCHANGED log
  /\ UNCHANGED <<anchor, file, chainVars, cache, boundVars>>

\* The write is recorded before it is done.
AppendWrite(p) ==
  /\ pc[p] = "append" /\ p \in SignedProc
  /\ SignedAppend(p, cache[p], "write", val[p], 0, "anchor")
  /\ UNCHANGED <<anchor, file, chainVars, cache, boundVars>>

\* writeAnchorWithKey counts the log and signs the count.
AnchorWith(k) == anchor' = [count |-> Len(log), epoch |-> k.epoch, key |-> k.key]

WriteAnchor(p) ==
  /\ pc[p] = "anchor"
  /\ AnchorWith(cache[p])
  /\ Goto(p, "counter")
  /\ UNCHANGED <<log, file, chainVars, cache, boundVars>>

\* Mutant: the overwrite's two entries are counted for every write.
AddCounterTwo(p) ==
  \/ counter' = counter + 2 /\ UNCHANGED outages
  \/ outages < MaxOutages /\ outages' = outages + 1 /\ UNCHANGED counter

\* addCounter and IncrementCounter; a keychain that does not answer is logged
\* and leaves the counter behind.
AddCounter(p) ==
  \/ counter' = counter + added[p] /\ UNCHANGED outages
  \/ /\ outages < MaxOutages /\ outages' = outages + 1
     /\ UNCHANGED counter

BumpCounter(p) ==
  /\ pc[p] = "counter"
  /\ AddCounter(p)
  /\ Goto(p, "rename")
  /\ UNCHANGED <<logVars, pointer, keys, keysMade, cache, fails>>

\* atomicWriteFile, and the flock is released.
Rename(p) ==
  /\ pc[p] = "rename"
  /\ file' = val[p]
  /\ Return(p)
  /\ UNCHANGED <<log, anchor, chainVars, cache, boundVars>>

-----------------------------------------------------------------------------
(* Audit.WriteFile                                                         *)

\* An entry nobody signs: it declares no key_epoch, which reads as 1.
UnsignedAppend(p, kind) ==
  /\ log' = Append(log, [kind |-> kind, epoch |-> 1, key |-> 0,
                         val |-> val[p], target |-> 0])
  /\ added' = [added EXCEPT ![p] = @ + 1]
  /\ pc' = [pc EXCEPT ![p] = "rename"]
  /\ UNCHANGED <<holder, val>>

\* appendLocked on a log with no chain: the v1/v2 entry.
AppendLegacy(p) ==
  /\ pc[p] = "append" /\ p \in PlainProc /\ ~ChainActive
  /\ UnsignedAppend(p, "legacy")
  /\ UNCHANGED <<anchor, file, chainVars, cache, boundVars>>

\* appendLocked on a chain: the delegate's cached key, fetched once and for all.
AppendDelegated(p) ==
  /\ pc[p] = "append" /\ p \in PlainProc /\ ChainActive
  /\ LET k == IF cache[p].key # 0 THEN cache[p] ELSE Fetched
     IN /\ k.key # 0
        /\ cache' = [cache EXCEPT ![p] = k]
        /\ SignedAppend(p, k, "write", val[p], 0, "anchor")
  /\ UNCHANGED <<anchor, file, chainVars, boundVars>>

\* ... or, with no key in hand and a keychain that does not answer, the
\* chained-unsigned entry.
AppendUnreachable(p) ==
  /\ pc[p] = "append" /\ p \in PlainProc /\ ChainActive /\ cache[p].key = 0
  /\ outages < MaxOutages /\ outages' = outages + 1
  /\ UnsignedAppend(p, "write")
  /\ UNCHANGED <<anchor, file, chainVars, cache, fails>>

\* WriteAnchorLocked, the daemon's hourly refresh: under the flock, with the
\* pointer epoch's key, and a no-op before any key exists.
RefreshAnchor(p) ==
  /\ pc[p] = "idle" /\ p \in PlainProc /\ holder = Nobody
  /\ keys[pointer] # 0
  /\ AnchorWith(Fetched)
  /\ UNCHANGED <<log, file, chainVars, procVars, boundVars>>

-----------------------------------------------------------------------------
(* SignedAudit.RotateHMACKey                                               *)

\* Mutant: a half-done rotation is not noticed and started afresh.
BeginRotateAfresh(p) ==
  /\ pc[p] = "idle" /\ p \in SignedProc /\ holder = Nobody
  /\ keys[pointer] # 0
  /\ pointer < MaxEpoch /\ keysMade < MaxKeys /\ Len(log) < MaxLog
  /\ holder' = p /\ pc' = [pc EXCEPT ![p] = "rotate"]
  /\ UNCHANGED <<logVars, chainVars, val, added, cache, boundVars>>

\* Under the flock: is there a key, and is a rotation half done?
BeginRotate(p) ==
  /\ pc[p] = "idle" /\ p \in SignedProc /\ holder = Nobody
  /\ keys[pointer] # 0
  /\ holder' = p
  /\ \/ TailEpoch > pointer /\ pc' = [pc EXCEPT ![p] = "cpointer"]
     \/ /\ TailEpoch <= pointer
        /\ pointer < MaxEpoch /\ keysMade < MaxKeys /\ Len(log) < MaxLog
        /\ pc' = [pc EXCEPT ![p] = "rotate"]
  /\ UNCHANGED <<logVars, chainVars, val, added, cache, boundVars>>

\* (1) Store the new key, over an orphan an earlier attempt may have left.
StoreKey(p) ==
  /\ pc[p] = "rotate"
  /\ MakeKey(pointer + 1)
  /\ Goto(p, "marker")
  /\ UNCHANGED <<logVars, counter, pointer, cache, boundVars>>

\* hmacKey: the cached key, or the stored one.
HmacKey(p) == IF cache[p].key # 0 THEN cache[p] ELSE Fetched

\* Mutant: the marker names an epoch one too far.
AppendMarkerSkips(p) ==
  /\ pc[p] = "marker"
  /\ cache' = [cache EXCEPT ![p] = HmacKey(p)]
  /\ SignedAppend(p, HmacKey(p), "rotate", keys[pointer + 1], pointer + 2, "pointer")
  /\ UNCHANGED <<anchor, file, chainVars, boundVars>>

\* (2) The marker, signed with the process's own key, binds the new one.
AppendMarker(p) ==
  /\ pc[p] = "marker"
  /\ cache' = [cache EXCEPT ![p] = HmacKey(p)]
  /\ SignedAppend(p, HmacKey(p), "rotate", keys[pointer + 1], pointer + 1, "pointer")
  /\ UNCHANGED <<anchor, file, chainVars, boundVars>>

\* (3) Advance the pointer and cache the new key.
AdvanceTo(p, e, next) ==
  /\ pointer' = e
  /\ cache' = [cache EXCEPT ![p] = [epoch |-> e, key |-> keys[e]]]
  /\ Goto(p, next)
  /\ UNCHANGED <<logVars, counter, keys, keysMade, boundVars>>

AdvancePointer(p) ==
  /\ pc[p] = "pointer"
  /\ AdvanceTo(p, pointer + 1, "ranchor")

\* (4) Anchor under the new key; a fresh rotation then counts its marker, a
\* completed one does not.
Reanchor(p) ==
  /\ pc[p] = "ranchor"
  /\ AnchorWith(cache[p])
  /\ IF added[p] = 0 THEN Return(p) ELSE Goto(p, "rcounter")
  /\ UNCHANGED <<log, file, chainVars, cache, boundVars>>

CountMarker(p) ==
  /\ pc[p] = "rcounter"
  /\ AddCounter(p)
  /\ Return(p)
  /\ UNCHANGED <<logVars, pointer, keys, keysMade, cache, fails>>

\* completeRotationLocked: exactly one epoch ahead, and the stored key is the
\* one the marker binds; otherwise the error is returned.
CompletePointer(p) ==
  /\ pc[p] = "cpointer"
  /\ LET sound == /\ TailEpoch = pointer + 1
                  /\ log[Len(log)].val = keys[TailEpoch]
     IN \/ sound /\ AdvanceTo(p, TailEpoch, "ranchor")
        \/ ~sound /\ Return(p) /\ UNCHANGED <<logVars, chainVars, cache, boundVars>>

-----------------------------------------------------------------------------

Step(p) ==
  \/ EnsureKey(p) \/ AppendBackup(p) \/ AppendWrite(p)
  \/ AppendLegacy(p) \/ AppendDelegated(p) \/ AppendUnreachable(p)
  \/ WriteAnchor(p) \/ BumpCounter(p) \/ Rename(p)
  \/ StoreKey(p) \/ AppendMarker(p) \/ AdvancePointer(p)
  \/ Reanchor(p) \/ CountMarker(p) \/ CompletePointer(p)

Next ==
  \E p \in Proc :
    \/ StartProc(p) \/ Crash(p) \/ Abort(p)
    \/ \E v \in Version : BeginWrite(p, v)
    \/ BeginRotate(p) \/ RefreshAnchor(p)
    \/ Step(p)

Spec == Init /\ [][Next]_vars

\* The operator restarts what died and, told "rotation incomplete", re-runs
\* the rotation; a process that holds the flock runs on.
Fairness ==
  \A p \in Proc :
    WF_vars(StartProc(p)) /\ WF_vars(Step(p)) /\ SF_vars(BeginRotate(p))

FairSpec == Spec /\ Fairness

-----------------------------------------------------------------------------
(* Verify: what it makes of a log l under pointer ptr, the keys, an anchor a *)
(* and a counter n.  hasKeys: the pointer epoch has a key.                   *)

\* The epoch in force at position i: 1, or what the last marker before leads to.
EpochAt(l, i) ==
  LET markers == {j \in 1..(i-1) : l[j].kind = "rotate"}
  IN IF markers = {} THEN 1 ELSE l[Max(markers)].target

\* walkChain: legacy entries only as a prefix; every chained entry declares the
\* epoch in force and is signed by its key, if signed; a marker leads one epoch
\* on and bears the fingerprint of that epoch's key.
Walks(l, hasKeys) ==
  \A i \in 1..Len(l) :
    IF ~Chained(l[i]) THEN \A j \in 1..i : ~Chained(l[j])
    ELSE LET e == EpochAt(l, i)
         IN /\ l[i].epoch = e
            /\ hasKeys /\ l[i].key # 0 => l[i].key = keys[e]
            /\ l[i].kind = "rotate" =>
                 l[i].target = e + 1 /\ (hasKeys => l[i].val = keys[e + 1])

\* V5: the pointer is not past the last marker, else the log was cut there.
ReachesPointer(l, ptr, hasKeys) == hasKeys => ptr <= EpochAt(l, Len(l) + 1)

\* verifyAnchor: once there is a key there is an anchor ...
AnchorExists(hasKeys, a) == hasKeys => a # NoAnchor

\* ... signed by the key of the epoch it names.
AnchorSigned(hasKeys, a) == hasKeys => a.key = keys[a.epoch]

\* Verify in one go, on the log at rest.
VerifyOK ==
  LET hasKeys == keys[pointer] # 0
  IN /\ Walks(log, hasKeys) /\ ReachesPointer(log, pointer, hasKeys)
     /\ AnchorSigned(hasKeys, anchor)
     /\ anchor.count <= Len(log) /\ counter <= Len(log)

\* The file and the log as the write-ahead discipline sees them.
Writes == {i \in 1..Len(log) : log[i].kind \in {"write", "legacy"}}

Newest == IF Writes = {} THEN 0 ELSE log[Max(Writes)].val

WA == INSTANCE WriteAhead WITH records <- Cardinality(Writes), newest <- Newest

-----------------------------------------------------------------------------
(* Properties.                                                             *)

\* The unsigned fallback of appendLocked declares epoch 1 whatever the epoch in
\* force: used after a rotation marker it misdates its entry (README.md lists what
\* follows; the properties below are about logs without such an entry).
Misdated ==
  \E i \in 1..Len(log) : log[i].key = 0 /\ log[i].epoch # EpochAt(log, i)

\* Whatever crashes, failed steps, retried and half-done rotations the log has
\* been through, Verify on the log at rest does not cry wolf: the chain walks
\* under the keys the keychain still has, it reaches the epoch pointer, and the
\* anchor and the counter promise nothing the log does not hold (verify.go).
\* Left out: the time before the very first anchor, and a misdated entry.
RestVerifies ==
  holder = Nobody /\ anchor # NoAnchor /\ ~Misdated => VerifyOK

\* The counter never gets ahead of the log, at any kill point of any writer: a
\* counter that is ahead is what Verify reports as tail truncation
\* (verify.go:406-413), so a crash must only ever leave it behind.
CounterNeverAhead == counter <= Len(log)

\* A half-done rotation is completed, under the key its marker binds, once the
\* operator re-runs it (rotate.go:73-77); but for a misdated entry, after which the
\* log no longer walks and no re-run gets past it.
RotationCompletes == TailEpoch > pointer ~> (TailEpoch = pointer \/ Misdated)

\* Write-ahead: the file only ever takes the content most recently recorded in
\* the log, whatever crashed between the record and the rename (signed.go:375-443,
\* write.go:90-121).
RecordsFirst == WA!Spec

-----------------------------------------------------------------------------
(* What the documentation says and the code does not do (see README.md).   *)

\* docs/security/hardening.md:114: after an interrupted rotation "subsequent
\* appends fail closed".
AppendsFailClosed == [][Len(log') > Len(log) => TailEpoch <= pointer]_vars

\* rotate.go:143: once the pointer is advanced "every writer signs under the new
\* key": no append is refused as "rotation incomplete" when none is.
RefusedOnlyMidRotation ==
  \A p \in Proc : pc[p] \in {"backup", "append"} /\ cache[p].key # 0
                    /\ TailEpoch > cache[p].epoch
                  => TailEpoch > pointer

=============================================================================
