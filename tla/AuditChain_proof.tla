-------------------------- MODULE AuditChain_proof --------------------------
(* Proofs about the audit log's writers, for every set of processes and      *)
(* every value of the bounds.                                                 *)
EXTENDS AuditVerify, SequenceTheorems, FiniteSetTheorems, TLAPS

-----------------------------------------------------------------------------
(* The inductive invariant: types need that a rotation under way stays within *)
(* the epochs, which needs that the flock excludes; so does the counter.      *)

\* Only the process that holds the flock is inside an operation.
Exclusive ==
  \A p \in Proc :
    /\ pc[p] \in {"down", "idle"} <=> holder # p
    /\ holder # p => added[p] = 0

\* A rotation under way has an epoch to go to.
RotationBounded ==
  \A p \in Proc : pc[p] \in {"rotate", "marker", "pointer"} => pointer < MaxEpoch

\* What an operation has appended and not yet counted is in the log.
Counted ==
  /\ counter <= Len(log)
  /\ \A p \in Proc : pc[p] # "rename" => counter + added[p] <= Len(log)

ChainInv == TypeOK /\ Exclusive /\ RotationBounded /\ Counted

LEMMA ChainInit == Init => ChainInv
<1> USE ConstantsAssumption
<1> SUFFICES ASSUME Init
             PROVE  ChainInv
  OBVIOUS
<1>1. TypeOK
  BY DEF Init, TypeOK, ProcTypes, Pcs, CachedKey, Entry, Epoch, Key, NoKey, NoAnchor
<1>2. Exclusive /\ RotationBounded /\ Counted
  BY DEF Init, Exclusive, RotationBounded, Counted
<1> QED
  BY <1>1, <1>2 DEF ChainInv

-----------------------------------------------------------------------------
(* Types.                                                                  *)

\* What hmacKey hands out, cached or fetched, is a key with its epoch.
LEMMA KeyTypes ==
  ASSUME TypeOK, NEW p \in Proc
  PROVE  Fetched \in CachedKey /\ HmacKey(p) \in CachedKey /\ cache[p] \in CachedKey
BY DEF TypeOK, Fetched, HmacKey, CachedKey

\* The log's last entry is an entry, and the epoch it tells is no later than the
\* last there is.
LEMMA TailTypes ==
  ASSUME TypeOK, log # <<>>
  PROVE  log[Len(log)] \in Entry /\ TailEpoch \in 0..MaxEpoch
<1> USE ConstantsAssumption
<1>1. log \in Seq(Entry) /\ Len(log) \in 1..Len(log)
  BY DEF TypeOK
<1>2. log[Len(log)] \in Entry
  BY <1>1, ElementOfSeq
<1> QED
  BY <1>2 DEF TailEpoch, Entry, Epoch

\* The content of the current write is a number, like a fingerprint.
LEMMA ValTypes ==
  ASSUME ProcTypes, NEW p \in Proc
  PROVE  val[p] \in Nat /\ 0 \in 0..MaxEpoch
<1>1. val[p] \in Version \cup {0}
  BY DEF ProcTypes
<1>2. \A v \in Version : v \in Nat
  BY ConstantsAssumption
<1>3. 0 \in 0..MaxEpoch
  BY ConstantsAssumption
<1> QED
  BY <1>1, <1>2, <1>3

\* The flock and the processes after an operation goes on ...
LEMMA GotoTypes ==
  ASSUME ProcTypes, NEW p \in Proc, NEW l \in Pcs, Goto(p, l)
  PROVE  ProcTypes'
BY DEF ProcTypes, Goto

\* ... and after it returns.
LEMMA ReturnTypes ==
  ASSUME ProcTypes, NEW p \in Proc, Return(p)
  PROVE  ProcTypes'
BY DEF ProcTypes, Return, Pcs

\* An append leaves a log of entries, one longer or as it was.
LEMMA AppendTypes ==
  ASSUME log \in Seq(Entry), NEW e \in Entry, log' = Append(log, e)
  PROVE  log' \in Seq(Entry) /\ Len(log') = Len(log) + 1
OBVIOUS

\* appendNoRefresh, refused or not.
LEMMA SignedAppendTypes ==
  ASSUME log \in Seq(Entry), ProcTypes, NEW p \in Proc, NEW k \in CachedKey,
         NEW kind \in {"write", "backup", "rotate"}, NEW v \in Nat,
         NEW target \in 0..MaxEpoch, NEW next \in Pcs,
         SignedAppend(p, k, kind, v, target, next)
  PROVE  log' \in Seq(Entry) /\ ProcTypes'
<1>1. CASE Return(p) /\ UNCHANGED log
  BY <1>1, ReturnTypes
<1>2. CASE TailEpoch <= k.epoch
  <2> DEFINE e == [kind |-> kind, epoch |-> k.epoch, key |-> k.key,
                   val |-> v, target |-> target]
  <2>1. e \in Entry
    BY DEF Entry, CachedKey
  <2>2. CASE log' = Append(log, e) /\ added' = [added EXCEPT ![p] = @ + 1]
             /\ pc' = [pc EXCEPT ![p] = next] /\ UNCHANGED <<holder, val>>
    <3>1. log' \in Seq(Entry)
      BY <2>1, <2>2, AppendTypes
    <3>2. ProcTypes'
      BY <2>2 DEF ProcTypes
    <3> QED
      BY <3>1, <3>2
  <2> QED
    BY <1>1, <2>2 DEF SignedAppend
<1> QED
  BY <1>1, <1>2 DEF SignedAppend

\* writeEntryLocked, with an entry nobody signs.
LEMMA UnsignedAppendTypes ==
  ASSUME log \in Seq(Entry), ProcTypes, NEW p \in Proc,
         NEW kind \in {"write", "legacy"}, UnsignedAppend(p, kind)
  PROVE  log' \in Seq(Entry) /\ ProcTypes'
<1> DEFINE e == [kind |-> kind, epoch |-> 1, key |-> 0, val |-> val[p], target |-> 0]
<1>1. e \in Entry
  <2>1. 1 \in Epoch /\ 0 \in Key
    BY ConstantsAssumption DEF Epoch, Key
  <2> QED
    BY <2>1, ValTypes DEF Entry
<1>2. log' \in Seq(Entry)
  BY <1>1, AppendTypes DEF UnsignedAppend
<1>3. ProcTypes'
  BY DEF UnsignedAppend, ProcTypes, Pcs, WritePcs
<1> QED
  BY <1>2, <1>3

\* writeAnchorWithKey.
LEMMA AnchorTypes ==
  ASSUME log \in Seq(Entry), NEW k \in CachedKey, AnchorWith(k)
  PROVE  anchor' \in [count : Nat, epoch : Epoch, key : Key]
BY DEF AnchorWith, CachedKey

\* A new key is a key, stored under an epoch or nowhere.
LEMMA MakeKeyTypes ==
  ASSUME TypeOK, NEW e \in Int, MakeKey(e)
  PROVE  keys' \in [Epoch -> Key] /\ keysMade' \in Key \ {0}
<1>1. keysMade + 1 \in Key \ {0}
  BY ConstantsAssumption DEF TypeOK, MakeKey, Key
<1> QED
  BY <1>1 DEF TypeOK, MakeKey

\* addCounter and IncrementCounter.
LEMMA CounterTypes ==
  ASSUME TypeOK, NEW p \in Proc, AddCounter(p)
  PROVE  counter' \in Nat /\ outages' \in 0..MaxOutages
BY ConstantsAssumption DEF TypeOK, ProcTypes, AddCounter

\* What appendNoRefresh does to the log, the process and the lock.
AppendsOrReturns(p, next) ==
  \/ Return(p) /\ UNCHANGED log
  \/ /\ Len(log') = Len(log) + 1
     /\ added' = [added EXCEPT ![p] = @ + 1]
     /\ pc' = [pc EXCEPT ![p] = next] /\ UNCHANGED holder

LEMMA SignedAppendGrows ==
  ASSUME TypeOK, NEW p \in Proc, NEW k, NEW kind, NEW v, NEW target,
         NEW next, SignedAppend(p, k, kind, v, target, next)
  PROVE  AppendsOrReturns(p, next)
BY DEF TypeOK, SignedAppend, AppendsOrReturns

\* Every step keeps the types.
LEMMA TypeStep == TypeOK /\ RotationBounded /\ [Next]_vars => TypeOK'
<1> USE ConstantsAssumption DEF logVars, chainVars, procVars, boundVars
<1> SUFFICES ASSUME TypeOK, RotationBounded, [Next]_vars
             PROVE  TypeOK'
  OBVIOUS
<1>0. ProcTypes /\ log \in Seq(Entry)
  BY DEF TypeOK
<1>1. ASSUME NEW p \in Proc, StartProc(p)
      PROVE  TypeOK'
  <2>1. ProcTypes'
    BY <1>0, <1>1 DEF StartProc, ProcTypes, Pcs
  <2>2. cache' \in [Proc -> CachedKey]
    <3>1. Fetched \in CachedKey
      BY KeyTypes DEF TypeOK, Fetched, CachedKey
    <3>2. NoKey \in CachedKey
      BY KeyTypes DEF NoKey, CachedKey, Epoch, Key
    <3> QED
      BY <1>1, <3>1, <3>2 DEF StartProc, TypeOK
  <2> QED
    BY <1>1, <2>1, <2>2 DEF StartProc, TypeOK
<1>2. ASSUME NEW p \in Proc, Crash(p)
      PROVE  TypeOK'
  <2>1. ProcTypes'
    BY <1>0, <1>2 DEF Crash, ProcTypes, Pcs
  <2>2. cache' \in [Proc -> CachedKey]
    BY <1>2 DEF Crash, TypeOK, CachedKey, NoKey, Epoch, Key
  <2> QED
    BY <1>2, <2>1, <2>2 DEF Crash, TypeOK
<1>3. ASSUME NEW p \in Proc, Abort(p)
      PROVE  TypeOK'
  BY <1>0, <1>3, ReturnTypes DEF Abort, TypeOK
<1>4. ASSUME NEW p \in Proc, NEW v \in Version, BeginWrite(p, v)
      PROVE  TypeOK'
  <2>1. ProcTypes'
    BY <1>0, <1>4 DEF BeginWrite, ProcTypes, Pcs, WritePcs
  <2> QED
    BY <1>4, <2>1 DEF BeginWrite, TypeOK
<1>5. ASSUME NEW p \in Proc, BeginRotate(p)
      PROVE  TypeOK'
  <2>1. ProcTypes'
    BY <1>0, <1>5 DEF BeginRotate, ProcTypes, Pcs, RotatePcs
  <2> QED
    BY <1>5, <2>1 DEF BeginRotate, TypeOK
<1>6. ASSUME NEW p \in Proc, RefreshAnchor(p)
      PROVE  TypeOK'
  <2>1. anchor' \in [count : Nat, epoch : Epoch, key : Key]
    BY <1>0, <1>6, KeyTypes, AnchorTypes DEF RefreshAnchor
  <2>2. ProcTypes'
    BY <1>0, <1>6 DEF RefreshAnchor, ProcTypes
  <2> QED
    BY <1>6, <2>1, <2>2 DEF RefreshAnchor, TypeOK
<1>7. ASSUME NEW p \in Proc, EnsureKey(p)
      PROVE  TypeOK'
  <2>1. ProcTypes'
    BY <1>0, <1>7, GotoTypes DEF EnsureKey, Pcs, WritePcs
  <2>2. keys' \in [Epoch -> Key] /\ keysMade' \in Key /\ cache' \in [Proc -> CachedKey]
    <3>1. CASE UNCHANGED <<cache, keys, keysMade>>
      BY <3>1 DEF TypeOK
    <3>2. CASE cache' = [cache EXCEPT ![p] = Fetched] /\ UNCHANGED <<keys, keysMade>>
      BY <3>2, KeyTypes DEF TypeOK
    <3>3. CASE /\ MakeKey(1)
               /\ cache' = [cache EXCEPT ![p] = [epoch |-> 1, key |-> keysMade']]
      <4>1. keys' \in [Epoch -> Key] /\ keysMade' \in Key
        BY <3>3, MakeKeyTypes
      <4>2. [epoch |-> 1, key |-> keysMade'] \in CachedKey
        BY <4>1 DEF CachedKey, Epoch
      <4> QED
        BY <3>3, <4>1, <4>2 DEF TypeOK
    <3> QED
      BY <1>7, <3>1, <3>2, <3>3 DEF EnsureKey
  <2> QED
    BY <1>7, <2>1, <2>2 DEF EnsureKey, TypeOK
<1>8. ASSUME NEW p \in Proc, AppendBackup(p)
      PROVE  TypeOK'
  <2>1. file \in Nat /\ 0 \in 0..MaxEpoch /\ "append" \in Pcs /\ cache[p] \in CachedKey
    BY KeyTypes DEF TypeOK, Pcs, WritePcs
  <2>2. log' \in Seq(Entry) /\ ProcTypes'
    BY <1>0, <1>8, <2>1, SignedAppendTypes DEF AppendBackup
  <2> QED
    BY <1>8, <2>2 DEF AppendBackup, TypeOK
<1>9. ASSUME NEW p \in Proc, AppendWrite(p)
      PROVE  TypeOK'
  <2>1. val[p] \in Nat /\ 0 \in 0..MaxEpoch /\ "anchor" \in Pcs /\ cache[p] \in CachedKey
    BY <1>0, KeyTypes, ValTypes DEF Pcs, WritePcs
  <2>2. log' \in Seq(Entry) /\ ProcTypes'
    BY <1>0, <1>9, <2>1, SignedAppendTypes DEF AppendWrite
  <2> QED
    BY <1>9, <2>2 DEF AppendWrite, TypeOK
<1>10. ASSUME NEW p \in Proc, AppendLegacy(p)
       PROVE  TypeOK'
  <2>1. log' \in Seq(Entry) /\ ProcTypes'
    BY <1>0, <1>10, UnsignedAppendTypes DEF AppendLegacy
  <2> QED
    BY <1>10, <2>1 DEF AppendLegacy, TypeOK
<1>11. ASSUME NEW p \in Proc, AppendDelegated(p)
       PROVE  TypeOK'
  <2> DEFINE k == IF cache[p].key # 0 THEN cache[p] ELSE Fetched
  <2>1. val[p] \in Nat /\ 0 \in 0..MaxEpoch /\ "anchor" \in Pcs /\ k \in CachedKey
    BY <1>0, KeyTypes, ValTypes DEF Pcs, WritePcs
  <2>2. /\ cache' = [cache EXCEPT ![p] = k]
        /\ SignedAppend(p, k, "write", val[p], 0, "anchor")
    BY <1>11 DEF AppendDelegated
  <2>3. log' \in Seq(Entry) /\ ProcTypes'
    <3> HIDE DEF k
    <3> QED
      BY <1>0, <2>1, <2>2, SignedAppendTypes
  <2>4. cache' \in [Proc -> CachedKey]
    <3> HIDE DEF k
    <3> QED
      BY <2>1, <2>2 DEF TypeOK
  <2> QED
    BY <1>11, <2>3, <2>4 DEF AppendDelegated, TypeOK
<1>12. ASSUME NEW p \in Proc, AppendUnreachable(p)
       PROVE  TypeOK'
  <2>1. log' \in Seq(Entry) /\ ProcTypes'
    BY <1>0, <1>12, UnsignedAppendTypes DEF AppendUnreachable
  <2> QED
    BY <1>12, <2>1 DEF AppendUnreachable, TypeOK
<1>13. ASSUME NEW p \in Proc, WriteAnchor(p)
       PROVE  TypeOK'
  <2>1. anchor' \in [count : Nat, epoch : Epoch, key : Key]
    BY <1>0, <1>13, KeyTypes, AnchorTypes DEF WriteAnchor
  <2>2. ProcTypes'
    BY <1>0, <1>13, GotoTypes DEF WriteAnchor, Pcs, WritePcs
  <2> QED
    BY <1>13, <2>1, <2>2 DEF WriteAnchor, TypeOK
<1>14. ASSUME NEW p \in Proc, BumpCounter(p)
       PROVE  TypeOK'
  <2>1. counter' \in Nat /\ outages' \in 0..MaxOutages
    BY <1>14, CounterTypes DEF BumpCounter
  <2>2. ProcTypes'
    BY <1>0, <1>14, GotoTypes DEF BumpCounter, Pcs, WritePcs
  <2> QED
    BY <1>14, <2>1, <2>2 DEF BumpCounter, TypeOK
<1>15. ASSUME NEW p \in Proc, Rename(p)
       PROVE  TypeOK'
  <2>1. ProcTypes' /\ val[p] \in Version \cup {0}
    BY <1>0, <1>15, ReturnTypes DEF Rename, ProcTypes
  <2> QED
    BY <1>15, <2>1 DEF Rename, TypeOK
<1>16. ASSUME NEW p \in Proc, StoreKey(p)
       PROVE  TypeOK'
  <2>1. keys' \in [Epoch -> Key] /\ keysMade' \in Key
    <3>1. pointer + 1 \in Int
      BY DEF TypeOK, Epoch
    <3> QED
      BY <1>16, <3>1, MakeKeyTypes DEF StoreKey
  <2>2. ProcTypes'
    BY <1>0, <1>16, GotoTypes DEF StoreKey, Pcs, RotatePcs
  <2> QED
    BY <1>16, <2>1, <2>2 DEF StoreKey, TypeOK
<1>17. ASSUME NEW p \in Proc, AppendMarker(p)
       PROVE  TypeOK'
  <2>1. pointer + 1 \in Epoch
    BY <1>17 DEF AppendMarker, RotationBounded, TypeOK, Epoch
  <2>2. keys[pointer + 1] \in Nat /\ pointer + 1 \in 0..MaxEpoch /\ "pointer" \in Pcs
    BY <2>1 DEF TypeOK, Epoch, Key, Pcs, RotatePcs
  <2>3. HmacKey(p) \in CachedKey
    BY KeyTypes
  <2>4. log' \in Seq(Entry) /\ ProcTypes'
    BY <1>0, <1>17, <2>2, <2>3, SignedAppendTypes DEF AppendMarker
  <2> QED
    BY <1>17, <2>3, <2>4 DEF AppendMarker, TypeOK
<1>18. ASSUME NEW p \in Proc, NEW e \in Epoch, NEW next \in Pcs, AdvanceTo(p, e, next)
       PROVE  TypeOK'
  <2>1. ProcTypes'
    BY <1>0, <1>18, GotoTypes DEF AdvanceTo
  <2>2. [epoch |-> e, key |-> keys[e]] \in CachedKey
    BY DEF TypeOK, CachedKey
  <2> QED
    BY <1>18, <2>1, <2>2 DEF AdvanceTo, TypeOK
<1>19. ASSUME NEW p \in Proc, AdvancePointer(p)
       PROVE  TypeOK'
  <2>1. pointer + 1 \in Epoch /\ "ranchor" \in Pcs
    BY <1>19 DEF AdvancePointer, RotationBounded, TypeOK, Epoch, Pcs, RotatePcs
  <2> QED
    BY <1>18, <1>19, <2>1 DEF AdvancePointer
<1>20. ASSUME NEW p \in Proc, Reanchor(p)
       PROVE  TypeOK'
  <2>1. anchor' \in [count : Nat, epoch : Epoch, key : Key]
    BY <1>0, <1>20, KeyTypes, AnchorTypes DEF Reanchor
  <2>2. ProcTypes'
    BY <1>0, <1>20, GotoTypes, ReturnTypes DEF Reanchor, Pcs, RotatePcs
  <2> QED
    BY <1>20, <2>1, <2>2 DEF Reanchor, TypeOK
<1>21. ASSUME NEW p \in Proc, CountMarker(p)
       PROVE  TypeOK'
  <2>1. counter' \in Nat /\ outages' \in 0..MaxOutages
    BY <1>21, CounterTypes DEF CountMarker
  <2>2. ProcTypes'
    BY <1>0, <1>21, ReturnTypes DEF CountMarker
  <2> QED
    BY <1>21, <2>1, <2>2 DEF CountMarker, TypeOK
<1>22. ASSUME NEW p \in Proc, CompletePointer(p)
       PROVE  TypeOK'
  <2>1. CASE TailEpoch = pointer + 1 /\ AdvanceTo(p, TailEpoch, "ranchor")
    <3>1. log # <<>>
      BY <2>1 DEF TailEpoch, TypeOK, Epoch
    <3>2. TailEpoch \in Epoch /\ "ranchor" \in Pcs
      BY <2>1, <3>1, TailTypes DEF TypeOK, Epoch, Pcs, RotatePcs
    <3> QED
      BY <1>18, <2>1, <3>2
  <2>2. CASE Return(p) /\ UNCHANGED <<logVars, chainVars, cache, boundVars>>
    BY <1>0, <2>2, ReturnTypes DEF TypeOK
  <2> QED
    BY <1>22, <2>1, <2>2 DEF CompletePointer
<1>23. CASE UNCHANGED vars
  BY <1>23 DEF vars, TypeOK, ProcTypes
<1> QED
  BY <1>1, <1>2, <1>3, <1>4, <1>5, <1>6, <1>7, <1>8, <1>9, <1>10, <1>11, <1>12, <1>13,
     <1>14, <1>15, <1>16, <1>17, <1>19, <1>20, <1>21, <1>22, <1>23 DEF Next, Step

\* The flock admits one operation at a time.
LEMMA ExclusiveStep == TypeOK /\ Exclusive /\ [Next]_vars => Exclusive'
<1> USE ConstantsAssumption DEF Exclusive, TypeOK, ProcTypes, Pcs, WritePcs, RotatePcs
<1> SUFFICES ASSUME TypeOK, Exclusive, [Next]_vars
             PROVE  Exclusive'
  OBVIOUS
<1> USE DEF logVars, chainVars, procVars, boundVars
<1>1. ASSUME NEW p \in Proc, StartProc(p)
      PROVE  Exclusive'
  BY <1>1 DEF StartProc, Fetched
<1>2. ASSUME NEW p \in Proc, Crash(p)
      PROVE  Exclusive'
  BY <1>2 DEF Crash
<1>3. ASSUME NEW p \in Proc, Abort(p)
      PROVE  Exclusive'
  BY <1>3 DEF Abort, Return
<1>4. ASSUME NEW p \in Proc, NEW v \in Version, BeginWrite(p, v)
      PROVE  Exclusive'
  BY <1>4 DEF BeginWrite
<1>5. ASSUME NEW p \in Proc, BeginRotate(p)
      PROVE  Exclusive'
  BY <1>5 DEF BeginRotate
<1>6. ASSUME NEW p \in Proc, RefreshAnchor(p)
      PROVE  Exclusive'
  BY <1>6 DEF RefreshAnchor, AnchorWith, Fetched
<1>7. ASSUME NEW p \in Proc, EnsureKey(p)
      PROVE  Exclusive'
  BY <1>7 DEF EnsureKey, Goto, MakeKey, Fetched
<1>8. ASSUME NEW p \in Proc, AppendBackup(p)
      PROVE  Exclusive'
  <2>1. AppendsOrReturns(p, "append")
    BY <1>8, SignedAppendGrows DEF AppendBackup
  <2>2. UNCHANGED counter /\ pc[p] \notin {"down", "idle", "rename"}
    BY <1>8 DEF AppendBackup
  <2>3. CASE Return(p) /\ UNCHANGED log
    BY <2>2, <2>3 DEF Return
  <2>4. CASE /\ Len(log') = Len(log) + 1
             /\ added' = [added EXCEPT ![p] = @ + 1]
             /\ pc' = [pc EXCEPT ![p] = "append"] /\ UNCHANGED holder
    BY <2>2, <2>4
  <2> QED
    BY <2>1, <2>3, <2>4 DEF AppendsOrReturns
<1>9. ASSUME NEW p \in Proc, AppendWrite(p)
      PROVE  Exclusive'
  <2>1. AppendsOrReturns(p, "anchor")
    BY <1>9, SignedAppendGrows DEF AppendWrite
  <2>2. UNCHANGED counter /\ pc[p] \notin {"down", "idle", "rename"}
    BY <1>9 DEF AppendWrite
  <2>3. CASE Return(p) /\ UNCHANGED log
    BY <2>2, <2>3 DEF Return
  <2>4. CASE /\ Len(log') = Len(log) + 1
             /\ added' = [added EXCEPT ![p] = @ + 1]
             /\ pc' = [pc EXCEPT ![p] = "anchor"] /\ UNCHANGED holder
    BY <2>2, <2>4
  <2> QED
    BY <2>1, <2>3, <2>4 DEF AppendsOrReturns
<1>10. ASSUME NEW p \in Proc, AppendLegacy(p)
      PROVE  Exclusive'
  BY <1>10 DEF AppendLegacy, UnsignedAppend
<1>11. ASSUME NEW p \in Proc, AppendDelegated(p)
      PROVE  Exclusive'
  <2>1. AppendsOrReturns(p, "anchor")
    BY <1>11, SignedAppendGrows DEF AppendDelegated
  <2>2. UNCHANGED counter /\ pc[p] \notin {"down", "idle", "rename"}
    BY <1>11 DEF AppendDelegated
  <2>3. CASE Return(p) /\ UNCHANGED log
    BY <2>2, <2>3 DEF Return
  <2>4. CASE /\ Len(log') = Len(log) + 1
             /\ added' = [added EXCEPT ![p] = @ + 1]
             /\ pc' = [pc EXCEPT ![p] = "anchor"] /\ UNCHANGED holder
    BY <2>2, <2>4
  <2> QED
    BY <2>1, <2>3, <2>4 DEF AppendsOrReturns
<1>12. ASSUME NEW p \in Proc, AppendUnreachable(p)
      PROVE  Exclusive'
  BY <1>12 DEF AppendUnreachable, UnsignedAppend
<1>13. ASSUME NEW p \in Proc, WriteAnchor(p)
      PROVE  Exclusive'
  BY <1>13 DEF WriteAnchor, AnchorWith, Goto
<1>14. ASSUME NEW p \in Proc, BumpCounter(p)
      PROVE  Exclusive'
  BY <1>14 DEF BumpCounter, AddCounter, Goto
<1>15. ASSUME NEW p \in Proc, Rename(p)
      PROVE  Exclusive'
  BY <1>15 DEF Rename, Return
<1>16. ASSUME NEW p \in Proc, StoreKey(p)
      PROVE  Exclusive'
  BY <1>16 DEF StoreKey, MakeKey, Goto
<1>17. ASSUME NEW p \in Proc, AppendMarker(p)
      PROVE  Exclusive'
  <2>1. AppendsOrReturns(p, "pointer")
    BY <1>17, SignedAppendGrows DEF AppendMarker
  <2>2. UNCHANGED counter /\ pc[p] \notin {"down", "idle", "rename"}
    BY <1>17 DEF AppendMarker
  <2>3. CASE Return(p) /\ UNCHANGED log
    BY <2>2, <2>3 DEF Return
  <2>4. CASE /\ Len(log') = Len(log) + 1
             /\ added' = [added EXCEPT ![p] = @ + 1]
             /\ pc' = [pc EXCEPT ![p] = "pointer"] /\ UNCHANGED holder
    BY <2>2, <2>4
  <2> QED
    BY <2>1, <2>3, <2>4 DEF AppendsOrReturns
<1>18. ASSUME NEW p \in Proc, AdvancePointer(p)
      PROVE  Exclusive'
  BY <1>18 DEF AdvancePointer, AdvanceTo, Goto
<1>19. ASSUME NEW p \in Proc, Reanchor(p)
      PROVE  Exclusive'
  <2>1. CASE Return(p)
    BY <1>19, <2>1 DEF Reanchor, Return
  <2>2. CASE Goto(p, "rcounter")
    BY <1>19, <2>2 DEF Reanchor, Goto
  <2> QED
    BY <1>19, <2>1, <2>2 DEF Reanchor
<1>20. ASSUME NEW p \in Proc, CountMarker(p)
      PROVE  Exclusive'
  BY <1>20 DEF CountMarker, AddCounter, Return
<1>21. ASSUME NEW p \in Proc, CompletePointer(p)
      PROVE  Exclusive'
  BY <1>21 DEF CompletePointer, AdvanceTo, Goto, Return
<1>22. CASE UNCHANGED vars
  BY <1>22 DEF vars
<1> QED
  BY <1>1, <1>2, <1>3, <1>4, <1>5, <1>6, <1>7, <1>8, <1>9, <1>10, <1>11, <1>12, <1>13, <1>14, <1>15, <1>16, <1>17, <1>18, <1>19, <1>20, <1>21, <1>22 DEF Next, Step

\* The pointer moves only under the flock, by the rotation that checked it.
LEMMA BoundedStep == ChainInv /\ [Next]_vars => RotationBounded'
<1> USE ConstantsAssumption DEF ChainInv, Exclusive, RotationBounded, TypeOK, ProcTypes, Pcs, WritePcs, RotatePcs
<1> SUFFICES ASSUME ChainInv, [Next]_vars
             PROVE  RotationBounded'
  OBVIOUS
<1> USE DEF logVars, chainVars, procVars, boundVars
<1>1. ASSUME NEW p \in Proc, StartProc(p)
      PROVE  RotationBounded'
  BY <1>1 DEF StartProc, Fetched
<1>2. ASSUME NEW p \in Proc, Crash(p)
      PROVE  RotationBounded'
  BY <1>2 DEF Crash
<1>3. ASSUME NEW p \in Proc, Abort(p)
      PROVE  RotationBounded'
  BY <1>3 DEF Abort, Return
<1>4. ASSUME NEW p \in Proc, NEW v \in Version, BeginWrite(p, v)
      PROVE  RotationBounded'
  BY <1>4 DEF BeginWrite
<1>5. ASSUME NEW p \in Proc, BeginRotate(p)
      PROVE  RotationBounded'
  BY <1>5 DEF BeginRotate
<1>6. ASSUME NEW p \in Proc, RefreshAnchor(p)
      PROVE  RotationBounded'
  BY <1>6 DEF RefreshAnchor, AnchorWith, Fetched
<1>7. ASSUME NEW p \in Proc, EnsureKey(p)
      PROVE  RotationBounded'
  BY <1>7 DEF EnsureKey, Goto, MakeKey, Fetched
<1>8. ASSUME NEW p \in Proc, AppendBackup(p)
      PROVE  RotationBounded'
  BY <1>8 DEF AppendBackup, SignedAppend, Return
<1>9. ASSUME NEW p \in Proc, AppendWrite(p)
      PROVE  RotationBounded'
  BY <1>9 DEF AppendWrite, SignedAppend, Return
<1>10. ASSUME NEW p \in Proc, AppendLegacy(p)
      PROVE  RotationBounded'
  BY <1>10 DEF AppendLegacy, UnsignedAppend
<1>11. ASSUME NEW p \in Proc, AppendDelegated(p)
      PROVE  RotationBounded'
  BY <1>11 DEF AppendDelegated, SignedAppend, Return, Fetched
<1>12. ASSUME NEW p \in Proc, AppendUnreachable(p)
      PROVE  RotationBounded'
  BY <1>12 DEF AppendUnreachable, UnsignedAppend
<1>13. ASSUME NEW p \in Proc, WriteAnchor(p)
      PROVE  RotationBounded'
  BY <1>13 DEF WriteAnchor, AnchorWith, Goto
<1>14. ASSUME NEW p \in Proc, BumpCounter(p)
      PROVE  RotationBounded'
  BY <1>14 DEF BumpCounter, AddCounter, Goto
<1>15. ASSUME NEW p \in Proc, Rename(p)
      PROVE  RotationBounded'
  BY <1>15 DEF Rename, Return
<1>16. ASSUME NEW p \in Proc, StoreKey(p)
      PROVE  RotationBounded'
  BY <1>16 DEF StoreKey, MakeKey, Goto
<1>17. ASSUME NEW p \in Proc, AppendMarker(p)
      PROVE  RotationBounded'
  BY <1>17 DEF AppendMarker, SignedAppend, Return, HmacKey, Fetched
<1>18. ASSUME NEW p \in Proc, AdvancePointer(p)
      PROVE  RotationBounded'
  BY <1>18 DEF AdvancePointer, AdvanceTo, Goto
<1>19. ASSUME NEW p \in Proc, Reanchor(p)
      PROVE  RotationBounded'
  BY <1>19 DEF Reanchor, AnchorWith, Return, Goto
<1>20. ASSUME NEW p \in Proc, CountMarker(p)
      PROVE  RotationBounded'
  BY <1>20 DEF CountMarker, AddCounter, Return
<1>21. ASSUME NEW p \in Proc, CompletePointer(p)
      PROVE  RotationBounded'
  BY <1>21 DEF CompletePointer, AdvanceTo, Goto, Return
<1>22. CASE UNCHANGED vars
  BY <1>22 DEF vars
<1> QED
  BY <1>1, <1>2, <1>3, <1>4, <1>5, <1>6, <1>7, <1>8, <1>9, <1>10, <1>11, <1>12, <1>13, <1>14, <1>15, <1>16, <1>17, <1>18, <1>19, <1>20, <1>21, <1>22 DEF Next, Step

\* Every entry is appended before it is counted, and once.
LEMMA CountedStep == ChainInv /\ [Next]_vars => Counted'
<1> USE ConstantsAssumption DEF ChainInv, Exclusive, Counted, TypeOK, ProcTypes, Pcs, WritePcs, RotatePcs
<1> SUFFICES ASSUME ChainInv, [Next]_vars
             PROVE  Counted'
  OBVIOUS
<1> USE DEF logVars, chainVars, procVars, boundVars
<1>1. ASSUME NEW p \in Proc, StartProc(p)
      PROVE  Counted'
  BY <1>1 DEF StartProc, Fetched
<1>2. ASSUME NEW p \in Proc, Crash(p)
      PROVE  Counted'
  BY <1>2 DEF Crash
<1>3. ASSUME NEW p \in Proc, Abort(p)
      PROVE  Counted'
  BY <1>3 DEF Abort, Return
<1>4. ASSUME NEW p \in Proc, NEW v \in Version, BeginWrite(p, v)
      PROVE  Counted'
  BY <1>4 DEF BeginWrite
<1>5. ASSUME NEW p \in Proc, BeginRotate(p)
      PROVE  Counted'
  BY <1>5 DEF BeginRotate
<1>6. ASSUME NEW p \in Proc, RefreshAnchor(p)
      PROVE  Counted'
  BY <1>6 DEF RefreshAnchor, AnchorWith, Fetched
<1>7. ASSUME NEW p \in Proc, EnsureKey(p)
      PROVE  Counted'
  BY <1>7 DEF EnsureKey, Goto, MakeKey, Fetched
<1>8. ASSUME NEW p \in Proc, AppendBackup(p)
      PROVE  Counted'
  <2>1. AppendsOrReturns(p, "append")
    BY <1>8, SignedAppendGrows DEF AppendBackup
  <2>2. UNCHANGED counter /\ pc[p] \notin {"down", "idle", "rename"}
    BY <1>8 DEF AppendBackup
  <2>3. CASE Return(p) /\ UNCHANGED log
    BY <2>2, <2>3 DEF Return
  <2>4. CASE /\ Len(log') = Len(log) + 1
             /\ added' = [added EXCEPT ![p] = @ + 1]
             /\ pc' = [pc EXCEPT ![p] = "append"] /\ UNCHANGED holder
    BY <2>2, <2>4
  <2> QED
    BY <2>1, <2>3, <2>4 DEF AppendsOrReturns
<1>9. ASSUME NEW p \in Proc, AppendWrite(p)
      PROVE  Counted'
  <2>1. AppendsOrReturns(p, "anchor")
    BY <1>9, SignedAppendGrows DEF AppendWrite
  <2>2. UNCHANGED counter /\ pc[p] \notin {"down", "idle", "rename"}
    BY <1>9 DEF AppendWrite
  <2>3. CASE Return(p) /\ UNCHANGED log
    BY <2>2, <2>3 DEF Return
  <2>4. CASE /\ Len(log') = Len(log) + 1
             /\ added' = [added EXCEPT ![p] = @ + 1]
             /\ pc' = [pc EXCEPT ![p] = "anchor"] /\ UNCHANGED holder
    BY <2>2, <2>4
  <2> QED
    BY <2>1, <2>3, <2>4 DEF AppendsOrReturns
<1>10. ASSUME NEW p \in Proc, AppendLegacy(p)
      PROVE  Counted'
  BY <1>10 DEF AppendLegacy, UnsignedAppend
<1>11. ASSUME NEW p \in Proc, AppendDelegated(p)
      PROVE  Counted'
  <2>1. AppendsOrReturns(p, "anchor")
    BY <1>11, SignedAppendGrows DEF AppendDelegated
  <2>2. UNCHANGED counter /\ pc[p] \notin {"down", "idle", "rename"}
    BY <1>11 DEF AppendDelegated
  <2>3. CASE Return(p) /\ UNCHANGED log
    BY <2>2, <2>3 DEF Return
  <2>4. CASE /\ Len(log') = Len(log) + 1
             /\ added' = [added EXCEPT ![p] = @ + 1]
             /\ pc' = [pc EXCEPT ![p] = "anchor"] /\ UNCHANGED holder
    BY <2>2, <2>4
  <2> QED
    BY <2>1, <2>3, <2>4 DEF AppendsOrReturns
<1>12. ASSUME NEW p \in Proc, AppendUnreachable(p)
      PROVE  Counted'
  BY <1>12 DEF AppendUnreachable, UnsignedAppend
<1>13. ASSUME NEW p \in Proc, WriteAnchor(p)
      PROVE  Counted'
  BY <1>13 DEF WriteAnchor, AnchorWith, Goto
<1>14. ASSUME NEW p \in Proc, BumpCounter(p)
      PROVE  Counted'
  BY <1>14 DEF BumpCounter, AddCounter, Goto
<1>15. ASSUME NEW p \in Proc, Rename(p)
      PROVE  Counted'
  BY <1>15 DEF Rename, Return
<1>16. ASSUME NEW p \in Proc, StoreKey(p)
      PROVE  Counted'
  BY <1>16 DEF StoreKey, MakeKey, Goto
<1>17. ASSUME NEW p \in Proc, AppendMarker(p)
      PROVE  Counted'
  <2>1. AppendsOrReturns(p, "pointer")
    BY <1>17, SignedAppendGrows DEF AppendMarker
  <2>2. UNCHANGED counter /\ pc[p] \notin {"down", "idle", "rename"}
    BY <1>17 DEF AppendMarker
  <2>3. CASE Return(p) /\ UNCHANGED log
    BY <2>2, <2>3 DEF Return
  <2>4. CASE /\ Len(log') = Len(log) + 1
             /\ added' = [added EXCEPT ![p] = @ + 1]
             /\ pc' = [pc EXCEPT ![p] = "pointer"] /\ UNCHANGED holder
    BY <2>2, <2>4
  <2> QED
    BY <2>1, <2>3, <2>4 DEF AppendsOrReturns
<1>18. ASSUME NEW p \in Proc, AdvancePointer(p)
      PROVE  Counted'
  BY <1>18 DEF AdvancePointer, AdvanceTo, Goto
<1>19. ASSUME NEW p \in Proc, Reanchor(p)
      PROVE  Counted'
  BY <1>19 DEF Reanchor, AnchorWith, Return, Goto
<1>20. ASSUME NEW p \in Proc, CountMarker(p)
      PROVE  Counted'
  <2>1. log' = log /\ added' = [added EXCEPT ![p] = 0] /\ pc' = [pc EXCEPT ![p] = "idle"]
    BY <1>20 DEF CountMarker, Return
  <2>2. CASE counter' = counter + added[p]
    <3>1. counter' <= Len(log')
      BY <1>20, <2>1, <2>2 DEF CountMarker
    <3>2. ASSUME NEW q \in Proc, q # p
          PROVE  added'[q] = 0
      BY <1>20, <2>1, <3>2 DEF CountMarker
    <3> QED
      BY <2>1, <2>2, <3>1, <3>2
  <2>3. CASE UNCHANGED counter
    BY <2>1, <2>3
  <2> QED
    BY <1>20, <2>2, <2>3 DEF CountMarker, AddCounter
<1>21. ASSUME NEW p \in Proc, CompletePointer(p)
      PROVE  Counted'
  BY <1>21, SMTT(30) DEF CompletePointer, AdvanceTo, Goto, Return
<1>22. CASE UNCHANGED vars
  BY <1>22 DEF vars
<1> QED
  BY <1>1, <1>2, <1>3, <1>4, <1>5, <1>6, <1>7, <1>8, <1>9, <1>10, <1>11, <1>12, <1>13, <1>14, <1>15, <1>16, <1>17, <1>18, <1>19, <1>20, <1>21, <1>22 DEF Next, Step

LEMMA ChainInductive == Spec => []ChainInv
<1>1. ChainInv /\ [Next]_vars => ChainInv'
  BY TypeStep, ExclusiveStep, BoundedStep, CountedStep DEF ChainInv
<1> QED
  BY <1>1, ChainInit, PTL DEF Spec

-----------------------------------------------------------------------------

\* The log, the keychain and the processes hold what their Go types say (TypeOK).
THEOREM AuditTyping == Spec => []TypeOK
<1>1. ChainInv => TypeOK
  BY DEF ChainInv
<1> QED
  BY <1>1, ChainInductive, PTL

\* No crash, failed step or keychain outage, in whatever order the writers run,
\* ever leaves the keychain counter ahead of the log, which Verify would report
\* as tail truncation (CounterNeverAhead; verify.go:406-413).
THEOREM NoFalseTruncation == Spec => []CounterNeverAhead
<1>1. ChainInv => CounterNeverAhead
  BY DEF ChainInv, Counted, CounterNeverAhead
<1> QED
  BY <1>1, ChainInductive, PTL

-----------------------------------------------------------------------------
(* Positions of the log, and the epoch in force at each.                      *)

\* A non-empty set of positions has a last one: the positions after a position
\* form a set that strict inclusion makes smaller and smaller.
LEMMA LastPosition ==
  ASSUME NEW n \in Nat, NEW S \in SUBSET (1..n), S # {}
  PROVE  Max(S) \in S
<1> DEFINE After(x) == {y \in S : y > x}
           T == {After(x) : x \in S}
<1>1. IsFiniteSet(S)
  <2>1. IsFiniteSet(1..n)
    BY FS_Interval
  <2> QED
    BY <2>1, FS_Subset
<1>2. IsWellFoundedOn(StrictSubsetOrdering(S), SUBSET S)
  BY <1>1, FS_FiniteSubsetsOfFinite, FS_StrictSubsetOrderingWellFounded
<1>3. T \subseteq SUBSET S /\ T # {}
  OBVIOUS
<1>4. PICK t \in T : \A u \in T : ~(<<u, t>> \in StrictSubsetOrdering(S))
  <2> HIDE DEF T
  <2> QED
    BY <1>2, <1>3, WFMin
<1>5. PICK x \in S : t = After(x)
  OBVIOUS
<1>6. \A y \in S : x >= y
  <2> SUFFICES ASSUME NEW y \in S, y > x
               PROVE  FALSE
    OBVIOUS
  <2>1. After(y) \in T /\ After(y) \subseteq t
    <3>1. After(y) \in T
      OBVIOUS
    <3>2. \A z \in S : z > y => z > x
      OBVIOUS
    <3> QED
      BY <1>5, <3>1, <3>2
  <2>2. y \in t /\ y \notin After(y)
    BY <1>5
  <2>3. <<After(y), t>> \in StrictSubsetOrdering(S)
    BY <1>3, <2>1, <2>2 DEF StrictSubsetOrdering
  <2> QED
    BY <1>4, <2>1, <2>3
<1> QED
  BY <1>6, Zenon DEF Max

\* The epoch in force at a position depends on the entries before it only.
LEMMA EpochPrefix ==
  ASSUME NEW l, NEW m, NEW i \in Nat, \A j \in 1..(i-1) : l[j] = m[j]
  PROVE  EpochAt(l, i) = EpochAt(m, i)
<1> DEFINE S == {j \in 1..(i-1) : l[j].kind = "rotate"}
<1>1. S = {j \in 1..(i-1) : m[j].kind = "rotate"}
  OBVIOUS
<1>2. CASE S = {}
  BY <1>1, <1>2 DEF EpochAt
<1>3. CASE S # {}
  <2>1. i - 1 \in Nat
    BY <1>3
  <2>2. Max(S) \in S
    <3>1. S \in SUBSET (1..(i-1))
      OBVIOUS
    <3> HIDE DEF S
    <3> QED
      BY <1>3, <2>1, <3>1, LastPosition
  <2>3. l[Max(S)] = m[Max(S)]
    BY <2>2
  <2> QED
    BY <1>1, <1>3, <2>3 DEF EpochAt
<1> QED
  BY <1>2, <1>3

\* A marker leads to its target, any other entry leaves the epoch as it is.
LEMMA EpochNext ==
  ASSUME NEW l, NEW n \in Nat \ {0}
  PROVE  EpochAt(l, n + 1) = IF l[n].kind = "rotate" THEN l[n].target ELSE EpochAt(l, n)
<1> DEFINE S == {j \in 1..(n-1) : l[j].kind = "rotate"}
           T == {j \in 1..((n+1)-1) : l[j].kind = "rotate"}
<1>1. CASE l[n].kind = "rotate"
  <2>1. n \in T /\ \A y \in T : n >= y
    BY <1>1
  <2>2. \A x \in T : (\A y \in T : x >= y) => x = n
    BY <2>1
  <2>3. Max(T) = n
    <3> HIDE DEF T
    <3> QED
      BY <2>1, <2>2, Zenon DEF Max
  <2> QED
    BY <1>1, <2>1, <2>3 DEF EpochAt
<1>2. CASE l[n].kind # "rotate"
  <2>1. S = T
    <3>1. \A j : j \in 1..((n+1)-1) /\ j # n <=> j \in 1..(n-1)
      OBVIOUS
    <3> QED
      BY <1>2, <3>1
  <2> QED
    BY <1>2, <2>1 DEF EpochAt
<1> QED
  BY <1>1, <1>2

-----------------------------------------------------------------------------
(* What the log, the keychain and the anchor owe each other at every step, so *)
(* that a verify of the log at rest finds nothing wrong.                      *)

\* The epoch in force after the last entry, as the markers tell it.
EpochNow == EpochAt(log, Len(log) + 1)

\* A key in hand is the keychain's, of an epoch the pointer has reached.
Kept(k) == k.epoch <= pointer /\ (k.key # 0 => k.key = keys[k.epoch])

AnchorKept == anchor = NoAnchor \/ (anchor.key # 0 /\ Kept(anchor))

\* Whoever signs has a key; a rotation's new key and its marker are in place
\* before the step that relies on them.
InHand(p) ==
  /\ pc[p] \in {"backup", "anchor", "ranchor"} => cache[p].key # 0
  /\ pc[p] = "append" /\ p \in SignedProc => cache[p].key # 0
  /\ pc[p] \in {"rotate", "marker"} => keys[pointer] # 0
  /\ pc[p] = "rotate" => TailEpoch <= pointer
  /\ pc[p] \in {"marker", "pointer"} => keys[pointer + 1] # 0
  /\ pc[p] = "pointer" => /\ log # <<>> /\ log[Len(log)].kind = "rotate"
                          /\ log[Len(log)].target = pointer + 1

\* An entry is of an epoch the pointer has reached and signed, if at all, by its
\* key; a marker leads one past the pointer at most; the legacy entries come first.
EntrySound(i) ==
  /\ log[i].epoch <= pointer
  /\ log[i].key # 0 => log[i].key = keys[log[i].epoch]
  /\ log[i].kind = "rotate" => log[i].val # 0 /\ log[i].target <= pointer + 1
  /\ log[i].kind = "legacy" => \A j \in 1..i : log[j].kind = "legacy"

\* But for a misdated entry, every entry is of the epoch in force, every marker
\* leads to the next under that epoch's key, and the pointer is not ahead.
DatedAt(i) ==
  /\ log[i].epoch = EpochAt(log, i)
  /\ log[i].kind = "rotate" => /\ log[i].target = log[i].epoch + 1
                               /\ log[i].val = keys[log[i].target]
                               /\ log[i].target <= EpochNow

Dated == ~Misdated => pointer <= EpochNow /\ \A i \in 1..Len(log) : DatedAt(i)

RestInv ==
  /\ \A p \in Proc : Kept(cache[p]) /\ InHand(p)
  /\ AnchorKept /\ anchor.count <= Len(log)
  /\ \A i \in 1..Len(log) : EntrySound(i)
  /\ Dated

LEMMA RestInit == Init => RestInv
<1> USE ConstantsAssumption
<1> SUFFICES ASSUME Init
             PROVE  RestInv
  OBVIOUS
<1>1. \A p \in Proc : Kept(cache[p]) /\ InHand(p)
  BY DEF Init, Kept, InHand, NoKey
<1>2. AnchorKept /\ anchor.count <= Len(log)
  BY DEF Init, AnchorKept, NoAnchor
<1>3. Dated
  <2>1. EpochAt(<<>>, 1) = 1
    BY DEF EpochAt
  <2> QED
    BY <2>1 DEF Init, Dated, EpochNow
<1> QED
  BY <1>1, <1>2, <1>3 DEF Init, RestInv

-----------------------------------------------------------------------------
(* The kinds of step, by what they do to the log, the pointer and the keys.   *)

SignedEntry(e) ==
  /\ e.kind # "legacy" /\ e.key # 0 /\ e.key = keys[e.epoch]
  /\ TailEpoch <= e.epoch /\ e.epoch <= pointer
  /\ e.kind = "rotate" => e.val # 0 /\ e.val = keys[pointer + 1] /\ e.target = pointer + 1

UnsignedEntry(e) ==
  /\ e.key = 0 /\ e.epoch = 1 /\ e.kind \in {"write", "legacy"}
  /\ e.kind = "legacy" => ~ChainActive

Still == UNCHANGED <<log, pointer, keys>>

KeyStored ==
  /\ UNCHANGED <<log, pointer>>
  /\ \E e \in Epoch, k \in Key \ {0} :
       /\ keys' = [keys EXCEPT ![e] = k]
       /\ \/ e = 1 /\ pointer = 1 /\ keys[1] = 0
          \/ e = pointer + 1 /\ TailEpoch <= pointer

Appended ==
  /\ UNCHANGED <<pointer, keys>>
  /\ \E e \in Entry : (SignedEntry(e) \/ UnsignedEntry(e)) /\ log' = Append(log, e)

Advanced ==
  /\ UNCHANGED <<log, keys>> /\ pointer' = pointer + 1
  /\ log # <<>> /\ log[Len(log)].kind = "rotate" /\ log[Len(log)].target = pointer + 1

LEMMA SignedAppendKind ==
  ASSUME TypeOK, NEW p \in Proc, NEW k \in CachedKey, Kept(k), k.key # 0,
         NEW kind \in {"write", "backup", "rotate"}, NEW v \in Nat,
         NEW target \in 0..MaxEpoch, NEW next,
         kind = "rotate" => v # 0 /\ v = keys[pointer + 1] /\ target = pointer + 1,
         SignedAppend(p, k, kind, v, target, next), UNCHANGED <<pointer, keys>>
  PROVE  Still \/ Appended
<1>1. CASE TailEpoch <= k.epoch /\ log' # log
  <2> DEFINE e == [kind |-> kind, epoch |-> k.epoch, key |-> k.key,
                   val |-> v, target |-> target]
  <2>1. e \in Entry
    BY DEF Entry, CachedKey
  <2>2. log' = Append(log, e)
    BY <1>1 DEF SignedAppend
  <2>3. SignedEntry(e)
    BY <1>1 DEF SignedEntry, Kept
  <2> QED
    BY <2>1, <2>2, <2>3 DEF Appended
<1>2. CASE log' = log
  BY <1>2 DEF Still
<1> QED
  BY <1>1, <1>2 DEF SignedAppend

LEMMA UnsignedAppendKind ==
  ASSUME TypeOK, NEW p \in Proc, NEW kind \in {"write", "legacy"},
         kind = "legacy" => ~ChainActive,
         UnsignedAppend(p, kind), UNCHANGED <<pointer, keys>>
  PROVE  Appended
<1> DEFINE e == [kind |-> kind, epoch |-> 1, key |-> 0, val |-> val[p], target |-> 0]
<1>1. 1 \in Epoch /\ 0 \in Key
  BY ConstantsAssumption DEF Epoch, Key
<1>2. e \in Entry
  BY <1>1, ValTypes DEF Entry, TypeOK
<1>3. UnsignedEntry(e)
  BY DEF UnsignedEntry
<1> QED
  BY <1>2, <1>3 DEF Appended, UnsignedAppend

\* What hmacKey fetches is the keychain's.
LEMMA FetchedKept ==
  ASSUME TypeOK
  PROVE  Kept(Fetched)
BY DEF TypeOK, Epoch, Kept, Fetched

LEMMA StepKinds ==
  ASSUME ChainInv, RestInv, [Next]_vars
  PROVE  Still \/ KeyStored \/ Appended \/ Advanced
<1> USE ConstantsAssumption DEF logVars, chainVars, procVars, boundVars
<1> USE DEF ChainInv, RestInv
<1>1. ASSUME NEW p \in Proc, StartProc(p)
      PROVE  Still \/ KeyStored \/ Appended \/ Advanced
  BY <1>1 DEF StartProc, Still
<1>2. ASSUME NEW p \in Proc, Crash(p)
      PROVE  Still \/ KeyStored \/ Appended \/ Advanced
  BY <1>2 DEF Crash, Still
<1>3. ASSUME NEW p \in Proc, Abort(p)
      PROVE  Still \/ KeyStored \/ Appended \/ Advanced
  BY <1>3 DEF Abort, Still
<1>4. ASSUME NEW p \in Proc, NEW v \in Version, BeginWrite(p, v)
      PROVE  Still \/ KeyStored \/ Appended \/ Advanced
  BY <1>4 DEF BeginWrite, Still
<1>5. ASSUME NEW p \in Proc, BeginRotate(p)
      PROVE  Still \/ KeyStored \/ Appended \/ Advanced
  BY <1>5 DEF BeginRotate, Still
<1>6. ASSUME NEW p \in Proc, RefreshAnchor(p)
      PROVE  Still \/ KeyStored \/ Appended \/ Advanced
  BY <1>6 DEF RefreshAnchor, Still
<1>7. ASSUME NEW p \in Proc, EnsureKey(p)
      PROVE  Still \/ KeyStored \/ Appended \/ Advanced
  <2>1. CASE UNCHANGED keys
    BY <1>7, <2>1 DEF EnsureKey, Still
  <2>2. CASE cache[p].key = 0 /\ keys[pointer] = 0 /\ pointer = 1 /\ MakeKey(1)
    <3>1. keysMade' \in Key \ {0} /\ keys' = [keys EXCEPT ![1] = keysMade']
      <4>1. 1 \in Int
        OBVIOUS
      <4> QED
        BY <2>2, <4>1, MakeKeyTypes DEF MakeKey
    <3>2. 1 \in Epoch /\ UNCHANGED <<log, pointer>>
      BY <1>7 DEF EnsureKey, Epoch
    <3> QED
      BY <2>2, <3>1, <3>2 DEF KeyStored
  <2> QED
    BY <1>7, <2>1, <2>2 DEF EnsureKey
<1>8. ASSUME NEW p \in Proc, AppendBackup(p)
      PROVE  Still \/ KeyStored \/ Appended \/ Advanced
  <2>1. file \in Nat /\ 0 \in 0..MaxEpoch /\ cache[p] \in CachedKey
    BY KeyTypes, ValTypes DEF TypeOK
  <2>2. Kept(cache[p]) /\ cache[p].key # 0
    BY <1>8 DEF AppendBackup, InHand
  <2>3. /\ SignedAppend(p, cache[p], "backup", file, 0, "append")
        /\ UNCHANGED <<pointer, keys>>
    BY <1>8 DEF AppendBackup
  <2> QED
    BY <2>1, <2>2, <2>3, SignedAppendKind
<1>9. ASSUME NEW p \in Proc, AppendWrite(p)
      PROVE  Still \/ KeyStored \/ Appended \/ Advanced
  <2>1. val[p] \in Nat /\ 0 \in 0..MaxEpoch /\ cache[p] \in CachedKey
    BY KeyTypes, ValTypes DEF TypeOK
  <2>2. Kept(cache[p]) /\ cache[p].key # 0
    BY <1>9 DEF AppendWrite, InHand
  <2>3. /\ SignedAppend(p, cache[p], "write", val[p], 0, "anchor")
        /\ UNCHANGED <<pointer, keys>>
    BY <1>9 DEF AppendWrite
  <2> QED
    BY <2>1, <2>2, <2>3, SignedAppendKind
<1>10. ASSUME NEW p \in Proc, AppendLegacy(p)
      PROVE  Still \/ KeyStored \/ Appended \/ Advanced
  BY <1>10, UnsignedAppendKind DEF AppendLegacy
<1>11. ASSUME NEW p \in Proc, AppendDelegated(p)
      PROVE  Still \/ KeyStored \/ Appended \/ Advanced
  <2> DEFINE k == IF cache[p].key # 0 THEN cache[p] ELSE Fetched
  <2>1. val[p] \in Nat /\ 0 \in 0..MaxEpoch /\ k \in CachedKey
    BY KeyTypes, ValTypes DEF TypeOK
  <2>2. Kept(k)
    BY FetchedKept
  <2>3. /\ k.key # 0 /\ SignedAppend(p, k, "write", val[p], 0, "anchor")
        /\ UNCHANGED <<pointer, keys>>
    BY <1>11 DEF AppendDelegated
  <2> QED
    <3> HIDE DEF k
    <3> QED
      BY <2>1, <2>2, <2>3, SignedAppendKind
<1>12. ASSUME NEW p \in Proc, AppendUnreachable(p)
      PROVE  Still \/ KeyStored \/ Appended \/ Advanced
  BY <1>12, UnsignedAppendKind DEF AppendUnreachable
<1>13. ASSUME NEW p \in Proc, WriteAnchor(p)
      PROVE  Still \/ KeyStored \/ Appended \/ Advanced
  BY <1>13 DEF WriteAnchor, Still
<1>14. ASSUME NEW p \in Proc, BumpCounter(p)
      PROVE  Still \/ KeyStored \/ Appended \/ Advanced
  BY <1>14 DEF BumpCounter, Still
<1>15. ASSUME NEW p \in Proc, Rename(p)
      PROVE  Still \/ KeyStored \/ Appended \/ Advanced
  BY <1>15 DEF Rename, Still
<1>16. ASSUME NEW p \in Proc, StoreKey(p)
      PROVE  Still \/ KeyStored \/ Appended \/ Advanced
  <2>1. pointer + 1 \in Epoch /\ pointer + 1 \in Int
    BY <1>16 DEF StoreKey, RotationBounded, TypeOK, Epoch
  <2>2. keysMade' \in Key \ {0} /\ keys' = [keys EXCEPT ![pointer + 1] = keysMade']
    BY <1>16, <2>1, MakeKeyTypes DEF StoreKey, MakeKey
  <2>3. TailEpoch <= pointer /\ UNCHANGED <<log, pointer>>
    BY <1>16 DEF StoreKey, InHand
  <2> QED
    BY <2>1, <2>2, <2>3 DEF KeyStored
<1>17. ASSUME NEW p \in Proc, AppendMarker(p)
      PROVE  Still \/ KeyStored \/ Appended \/ Advanced
  <2>1. pointer + 1 \in Epoch /\ pointer \in Epoch
    BY <1>17 DEF AppendMarker, RotationBounded, TypeOK, Epoch
  <2>2. keys[pointer + 1] \in Nat /\ pointer + 1 \in 0..MaxEpoch
    BY <2>1 DEF TypeOK, Epoch, Key
  <2>3. HmacKey(p) \in CachedKey
    BY KeyTypes
  <2>4. Kept(HmacKey(p)) /\ HmacKey(p).key # 0 /\ keys[pointer + 1] # 0
    BY <1>17, FetchedKept DEF AppendMarker, InHand, HmacKey, Fetched
  <2>5. /\ SignedAppend(p, HmacKey(p), "rotate", keys[pointer + 1], pointer + 1, "pointer")
        /\ UNCHANGED <<pointer, keys>>
    BY <1>17 DEF AppendMarker
  <2> QED
    BY <2>2, <2>3, <2>4, <2>5, SignedAppendKind
<1>18. ASSUME NEW p \in Proc, AdvancePointer(p)
      PROVE  Still \/ KeyStored \/ Appended \/ Advanced
  BY <1>18 DEF AdvancePointer, AdvanceTo, Advanced, InHand
<1>19. ASSUME NEW p \in Proc, Reanchor(p)
      PROVE  Still \/ KeyStored \/ Appended \/ Advanced
  BY <1>19 DEF Reanchor, Still
<1>20. ASSUME NEW p \in Proc, CountMarker(p)
      PROVE  Still \/ KeyStored \/ Appended \/ Advanced
  BY <1>20 DEF CountMarker, Still
<1>21. ASSUME NEW p \in Proc, CompletePointer(p)
      PROVE  Still \/ KeyStored \/ Appended \/ Advanced
  <2>1. CASE TailEpoch = pointer + 1 /\ AdvanceTo(p, TailEpoch, "ranchor")
    <3>1. log # <<>>
      BY <2>1 DEF TailEpoch, TypeOK, Epoch
    <3>2. Len(log) \in 1..Len(log)
      BY <3>1 DEF TypeOK
    <3>3. log[Len(log)].epoch \in Nat /\ log[Len(log)].epoch <= pointer
      BY <3>1, <3>2, TailTypes DEF EntrySound, Entry, Epoch
    <3>4. log[Len(log)].kind = "rotate" /\ log[Len(log)].target = pointer + 1
      BY <2>1, <3>1, <3>3 DEF TailEpoch, TypeOK, Epoch
    <3> QED
      BY <2>1, <3>1, <3>4 DEF AdvanceTo, Advanced
  <2>2. CASE UNCHANGED <<logVars, chainVars, cache, boundVars>>
    BY <2>2 DEF Still
  <2> QED
    BY <1>21, <2>1, <2>2 DEF CompletePointer
<1>22. CASE UNCHANGED vars
  BY <1>22 DEF vars, Still
<1> QED
  BY <1>1, <1>2, <1>3, <1>4, <1>5, <1>6, <1>7, <1>8, <1>9, <1>10, <1>11,
     <1>12, <1>13, <1>14, <1>15, <1>16, <1>17, <1>18, <1>19, <1>20, <1>21,
     <1>22 DEF Next, Step

-----------------------------------------------------------------------------
(* Each part of the invariant is kept.                                        *)

\* A key once in hand stays good: the keychain only overwrites a key no entry,
\* cache or anchor has used.
LEMMA KeptStays ==
  ASSUME ChainInv, RestInv, [Next]_vars, NEW e \in Epoch, NEW k \in Key,
         e <= pointer, k # 0 => k = keys[e]
  PROVE  e <= pointer' /\ (k # 0 => k = keys'[e])
<1>1. CASE Still \/ Appended
  BY <1>1 DEF Still, Appended
<1>2. CASE Advanced
  BY <1>2 DEF Advanced, ChainInv, TypeOK, Epoch
<1>3. CASE KeyStored
  BY <1>3 DEF KeyStored, ChainInv, TypeOK, Epoch, Key
<1> QED
  BY <1>1, <1>2, <1>3, StepKinds

\* A process's key is what it was, forgotten, or fetched from the keychain.
LEMMA CacheSteps ==
  ASSUME ChainInv, RestInv, [Next]_vars, NEW q \in Proc
  PROVE  cache'[q] = cache[q] \/ cache'[q] = NoKey \/ cache'[q] = Fetched'
<1> DEFINE Goal == cache'[q] = cache[q] \/ cache'[q] = NoKey \/ cache'[q] = Fetched'
<1> USE ConstantsAssumption DEF logVars, chainVars, procVars, boundVars
<1> USE DEF ChainInv, TypeOK
<1>1. ASSUME NEW p \in Proc, StartProc(p)
      PROVE  Goal
  BY <1>1 DEF StartProc, Fetched
<1>2. ASSUME NEW p \in Proc, Crash(p)
      PROVE  Goal
  BY <1>2 DEF Crash
<1>3. ASSUME NEW p \in Proc, Abort(p)
      PROVE  Goal
  BY <1>3 DEF Abort
<1>4. ASSUME NEW p \in Proc, NEW v \in Version, BeginWrite(p, v)
      PROVE  Goal
  BY <1>4 DEF BeginWrite
<1>5. ASSUME NEW p \in Proc, BeginRotate(p)
      PROVE  Goal
  BY <1>5 DEF BeginRotate
<1>6. ASSUME NEW p \in Proc, RefreshAnchor(p)
      PROVE  Goal
  BY <1>6 DEF RefreshAnchor
<1>7. ASSUME NEW p \in Proc, EnsureKey(p)
      PROVE  Goal
  BY <1>7 DEF EnsureKey, Fetched, MakeKey, Epoch
<1>8. ASSUME NEW p \in Proc, AppendBackup(p)
      PROVE  Goal
  BY <1>8 DEF AppendBackup
<1>9. ASSUME NEW p \in Proc, AppendWrite(p)
      PROVE  Goal
  BY <1>9 DEF AppendWrite
<1>10. ASSUME NEW p \in Proc, AppendLegacy(p)
      PROVE  Goal
  BY <1>10 DEF AppendLegacy
<1>11. ASSUME NEW p \in Proc, AppendDelegated(p)
      PROVE  Goal
  BY <1>11 DEF AppendDelegated, Fetched
<1>12. ASSUME NEW p \in Proc, AppendUnreachable(p)
      PROVE  Goal
  BY <1>12 DEF AppendUnreachable
<1>13. ASSUME NEW p \in Proc, WriteAnchor(p)
      PROVE  Goal
  BY <1>13 DEF WriteAnchor
<1>14. ASSUME NEW p \in Proc, BumpCounter(p)
      PROVE  Goal
  BY <1>14 DEF BumpCounter
<1>15. ASSUME NEW p \in Proc, Rename(p)
      PROVE  Goal
  BY <1>15 DEF Rename
<1>16. ASSUME NEW p \in Proc, StoreKey(p)
      PROVE  Goal
  BY <1>16 DEF StoreKey
<1>17. ASSUME NEW p \in Proc, AppendMarker(p)
      PROVE  Goal
  BY <1>17 DEF AppendMarker, HmacKey, Fetched
<1>18. ASSUME NEW p \in Proc, AdvancePointer(p)
      PROVE  Goal
  BY <1>18 DEF AdvancePointer, AdvanceTo, Fetched, RotationBounded, Epoch
<1>19. ASSUME NEW p \in Proc, Reanchor(p)
      PROVE  Goal
  BY <1>19 DEF Reanchor
<1>20. ASSUME NEW p \in Proc, CountMarker(p)
      PROVE  Goal
  BY <1>20 DEF CountMarker
<1>21. ASSUME NEW p \in Proc, CompletePointer(p)
      PROVE  Goal
  BY <1>21 DEF CompletePointer, AdvanceTo, Fetched
<1>22. CASE UNCHANGED vars
  BY <1>22 DEF vars
<1> QED
  BY <1>1, <1>2, <1>3, <1>4, <1>5, <1>6, <1>7, <1>8, <1>9, <1>10, <1>11,
     <1>12, <1>13, <1>14, <1>15, <1>16, <1>17, <1>18, <1>19, <1>20, <1>21,
     <1>22 DEF Next, Step

\* The anchor is what it was, or signed anew with a key in hand.
LEMMA AnchorSteps ==
  ASSUME ChainInv, RestInv, [Next]_vars
  PROVE  \/ UNCHANGED anchor
         \/ \E k \in CachedKey : /\ AnchorWith(k) /\ k.key # 0 /\ Kept(k)
                                 /\ UNCHANGED <<log, pointer, keys>>
<1> DEFINE Goal == \/ UNCHANGED anchor
                   \/ \E k \in CachedKey : /\ AnchorWith(k) /\ k.key # 0 /\ Kept(k)
                                           /\ UNCHANGED <<log, pointer, keys>>
<1> USE ConstantsAssumption DEF logVars, chainVars, procVars, boundVars
<1> USE DEF ChainInv, RestInv
<1>1. ASSUME NEW p \in Proc, StartProc(p)
      PROVE  Goal
  BY <1>1 DEF StartProc
<1>2. ASSUME NEW p \in Proc, Crash(p)
      PROVE  Goal
  BY <1>2 DEF Crash
<1>3. ASSUME NEW p \in Proc, Abort(p)
      PROVE  Goal
  BY <1>3 DEF Abort
<1>4. ASSUME NEW p \in Proc, NEW v \in Version, BeginWrite(p, v)
      PROVE  Goal
  BY <1>4 DEF BeginWrite
<1>5. ASSUME NEW p \in Proc, BeginRotate(p)
      PROVE  Goal
  BY <1>5 DEF BeginRotate
<1>6. ASSUME NEW p \in Proc, RefreshAnchor(p)
      PROVE  Goal
  BY <1>6, FetchedKept, KeyTypes DEF RefreshAnchor, Fetched
<1>7. ASSUME NEW p \in Proc, EnsureKey(p)
      PROVE  Goal
  BY <1>7 DEF EnsureKey
<1>8. ASSUME NEW p \in Proc, AppendBackup(p)
      PROVE  Goal
  BY <1>8 DEF AppendBackup
<1>9. ASSUME NEW p \in Proc, AppendWrite(p)
      PROVE  Goal
  BY <1>9 DEF AppendWrite
<1>10. ASSUME NEW p \in Proc, AppendLegacy(p)
      PROVE  Goal
  BY <1>10 DEF AppendLegacy
<1>11. ASSUME NEW p \in Proc, AppendDelegated(p)
      PROVE  Goal
  BY <1>11 DEF AppendDelegated
<1>12. ASSUME NEW p \in Proc, AppendUnreachable(p)
      PROVE  Goal
  BY <1>12 DEF AppendUnreachable
<1>13. ASSUME NEW p \in Proc, WriteAnchor(p)
      PROVE  Goal
  BY <1>13, KeyTypes DEF WriteAnchor, InHand
<1>14. ASSUME NEW p \in Proc, BumpCounter(p)
      PROVE  Goal
  BY <1>14 DEF BumpCounter
<1>15. ASSUME NEW p \in Proc, Rename(p)
      PROVE  Goal
  BY <1>15 DEF Rename
<1>16. ASSUME NEW p \in Proc, StoreKey(p)
      PROVE  Goal
  BY <1>16 DEF StoreKey
<1>17. ASSUME NEW p \in Proc, AppendMarker(p)
      PROVE  Goal
  BY <1>17 DEF AppendMarker
<1>18. ASSUME NEW p \in Proc, AdvancePointer(p)
      PROVE  Goal
  BY <1>18 DEF AdvancePointer, AdvanceTo
<1>19. ASSUME NEW p \in Proc, Reanchor(p)
      PROVE  Goal
  BY <1>19, KeyTypes DEF Reanchor, InHand
<1>20. ASSUME NEW p \in Proc, CountMarker(p)
      PROVE  Goal
  BY <1>20 DEF CountMarker
<1>21. ASSUME NEW p \in Proc, CompletePointer(p)
      PROVE  Goal
  BY <1>21 DEF CompletePointer, AdvanceTo
<1>22. CASE UNCHANGED vars
  BY <1>22 DEF vars
<1> QED
  BY <1>1, <1>2, <1>3, <1>4, <1>5, <1>6, <1>7, <1>8, <1>9, <1>10, <1>11,
     <1>12, <1>13, <1>14, <1>15, <1>16, <1>17, <1>18, <1>19, <1>20, <1>21,
     <1>22 DEF Next, Step

LEMMA CacheKept ==
  ASSUME ChainInv, RestInv, [Next]_vars, NEW q \in Proc
  PROVE  Kept(cache[q])'
<1>0. TypeOK'
  BY TypeStep DEF ChainInv
<1>1. CASE cache'[q] = cache[q]
  <2>1. cache[q].epoch \in Epoch /\ cache[q].key \in Key
    BY DEF ChainInv, TypeOK, CachedKey
  <2>2. Kept(cache[q])
    BY DEF RestInv
  <2> QED
    BY <1>1, <2>1, <2>2, KeptStays DEF Kept
<1>2. CASE cache'[q] = NoKey
  BY <1>0, <1>2 DEF Kept, NoKey, TypeOK, Epoch
<1>3. CASE cache'[q] = Fetched'
  BY <1>0, <1>3 DEF Kept, Fetched, TypeOK, Epoch
<1> QED
  BY <1>1, <1>2, <1>3, CacheSteps

\* The log never gets shorter.
LEMMA LogGrows ==
  ASSUME ChainInv, RestInv, [Next]_vars
  PROVE  Len(log) <= Len(log')
BY StepKinds DEF ChainInv, TypeOK, Still, KeyStored, Appended, Advanced

LEMMA AnchorStep ==
  ASSUME ChainInv, RestInv, [Next]_vars
  PROVE  AnchorKept' /\ (anchor.count <= Len(log))'
<1>1. CASE UNCHANGED anchor
  <2>1. anchor.epoch \in Epoch /\ anchor.key \in Key /\ anchor.count \in Nat
    BY DEF ChainInv, TypeOK
  <2>2. AnchorKept /\ anchor.count <= Len(log)
    BY DEF RestInv
  <2>3. AnchorKept'
    <3>1. CASE anchor = NoAnchor
      BY <1>1, <3>1 DEF AnchorKept
    <3>2. CASE anchor.key # 0 /\ Kept(anchor)
      BY <1>1, <2>1, <3>2, KeptStays DEF AnchorKept, Kept
    <3> QED
      BY <2>2, <3>1, <3>2 DEF AnchorKept
  <2>4. Len(log) \in Nat /\ Len(log') \in Nat
    BY TypeStep DEF ChainInv, TypeOK
  <2> QED
    BY <1>1, <2>1, <2>2, <2>3, <2>4, LogGrows
<1>2. ASSUME NEW k \in CachedKey, AnchorWith(k), k.key # 0, Kept(k),
             UNCHANGED <<log, pointer, keys>>
      PROVE  AnchorKept' /\ (anchor.count <= Len(log))'
  BY <1>2 DEF AnchorWith, AnchorKept, Kept, ChainInv, TypeOK
<1> QED
  BY <1>1, <1>2, AnchorSteps

LEMMA EntriesStep ==
  ASSUME ChainInv, RestInv, [Next]_vars
  PROVE  (\A i \in 1..Len(log) : EntrySound(i))'
<1>0. /\ log \in Seq(Entry) /\ pointer \in Epoch /\ keys \in [Epoch -> Key]
      /\ \A i \in 1..Len(log) : EntrySound(i) /\ log[i] \in Entry
  BY ElementOfSeq DEF ChainInv, TypeOK, RestInv
<1>1. CASE Still
  BY <1>0, <1>1 DEF Still, EntrySound
<1>2. CASE KeyStored \/ Advanced
  <2>1. log' = log /\ pointer' \in Nat /\ pointer <= pointer'
    BY <1>0, <1>2 DEF KeyStored, Advanced, Epoch
  <2> SUFFICES ASSUME NEW i \in 1..Len(log)
               PROVE  EntrySound(i)'
    BY <2>1
  <2>2. EntrySound(i) /\ log[i].epoch \in Epoch /\ log[i].key \in Key
    BY <1>0 DEF Entry
  <2>3. log[i].epoch <= pointer' /\ (log[i].key # 0 => log[i].key = keys'[log[i].epoch])
    BY <2>2, KeptStays DEF EntrySound
  <2>4. log[i].kind = "rotate" => log[i].target <= pointer' + 1
    BY <1>0, <2>1, <2>2, SMTT(30) DEF EntrySound, Entry, Epoch
  <2> QED
    BY <2>1, <2>2, <2>3, <2>4 DEF EntrySound
<1>3. CASE Appended
  <2>1. PICK e \in Entry : (SignedEntry(e) \/ UnsignedEntry(e)) /\ log' = Append(log, e)
    BY <1>3 DEF Appended
  <2>2. pointer' = pointer /\ keys' = keys
    BY <1>3 DEF Appended
  <2>3. /\ Len(log') = Len(log) + 1 /\ log'[Len(log) + 1] = e
        /\ \A i \in 1..Len(log) : log'[i] = log[i]
    BY <1>0, <2>1
  <2> SUFFICES ASSUME NEW i \in 1..Len(log')
               PROVE  EntrySound(i)'
    OBVIOUS
  <2>4. CASE i \in 1..Len(log)
    <3>1. EntrySound(i) /\ \A j \in 1..i : log'[j] = log[j]
      BY <1>0, <2>3, <2>4
    <3> QED
      BY <2>2, <2>3, <2>4, <3>1 DEF EntrySound
  <2>5. CASE i = Len(log) + 1
    <3>1. e.epoch <= pointer /\ (e.key # 0 => e.key = keys[e.epoch])
      BY <1>0, <2>1 DEF SignedEntry, UnsignedEntry, Epoch
    <3>2. e.kind = "rotate" => e.val # 0 /\ e.target <= pointer + 1
      BY <1>0, <2>1 DEF SignedEntry, UnsignedEntry, Epoch
    <3>3. ASSUME e.kind = "legacy"
          PROVE  \A j \in 1..i : log'[j].kind = "legacy"
      <4>1. ~ChainActive
        BY <2>1, <3>3 DEF SignedEntry, UnsignedEntry
      <4>2. CASE log = <<>>
        BY <2>3, <2>5, <3>3, <4>2
      <4>3. CASE log # <<>> /\ log[Len(log)].kind = "legacy"
        <5>1. Len(log) \in 1..Len(log)
          BY <1>0, <4>3
        <5>2. \A j \in 1..Len(log) : log[j].kind = "legacy"
          BY <1>0, <4>3, <5>1 DEF EntrySound
        <5> QED
          BY <1>0, <2>3, <2>5, <3>3, <5>2
      <4> QED
        BY <4>1, <4>2, <4>3 DEF ChainActive, Chained
    <3> QED
      BY <2>2, <2>3, <2>5, <3>1, <3>2, <3>3 DEF EntrySound
  <2> QED
    BY <1>0, <2>3, <2>4, <2>5
<1> QED
  BY <1>1, <1>2, <1>3, StepKinds

\* But for a misdated entry, what the last entry tells is the epoch in force.
LEMMA TailTells ==
  ASSUME TypeOK, Dated, ~Misdated
  PROVE  EpochNow = TailEpoch /\ EpochNow \in 0..MaxEpoch
<1>1. CASE log = <<>>
  <2>1. EpochAt(<<>>, 1) = 1
    BY DEF EpochAt
  <2> QED
    BY <1>1, <2>1, ConstantsAssumption DEF EpochNow, TailEpoch
<1>2. CASE log # <<>>
  <2>1. Len(log) \in Nat \ {0} /\ Len(log) \in 1..Len(log)
    BY <1>2 DEF TypeOK
  <2>2. log[Len(log)].epoch = EpochAt(log, Len(log))
    BY <2>1 DEF Dated, DatedAt
  <2>3. EpochNow = TailEpoch
    BY <1>2, <2>1, <2>2, EpochNext DEF EpochNow, TailEpoch
  <2> QED
    BY <1>2, <2>3, TailTypes
<1> QED
  BY <1>1, <1>2

\* An append dates no earlier entry otherwise.
LEMMA AppendDates ==
  ASSUME log \in Seq(Entry), NEW e \in Entry, log' = Append(log, e)
  PROVE  /\ \A i \in 1..(Len(log) + 1) : EpochAt(log', i) = EpochAt(log, i)
         /\ EpochNow' = IF e.kind = "rotate" THEN e.target ELSE EpochNow
         /\ Misdated' <=> Misdated \/ (e.key = 0 /\ e.epoch # EpochNow)
<1>1. /\ Len(log') = Len(log) + 1 /\ log'[Len(log) + 1] = e
      /\ \A i \in 1..Len(log) : log'[i] = log[i]
  OBVIOUS
<1>2. \A i \in 1..(Len(log) + 1) : EpochAt(log', i) = EpochAt(log, i)
  <2> SUFFICES ASSUME NEW i \in 1..(Len(log) + 1)
               PROVE  EpochAt(log', i) = EpochAt(log, i)
    OBVIOUS
  <2>1. i \in Nat /\ \A j \in 1..(i-1) : log'[j] = log[j]
    BY <1>1
  <2> QED
    BY <2>1, EpochPrefix
<1>3. Len(log) + 1 \in Nat \ {0} /\ Len(log) + 1 \in 1..(Len(log) + 1)
  OBVIOUS
<1>4. EpochNow' = IF e.kind = "rotate" THEN e.target ELSE EpochNow
  <2>1. EpochNow' = EpochAt(log', (Len(log) + 1) + 1)
    BY <1>1 DEF EpochNow
  <2>2. EpochAt(log', Len(log) + 1) = EpochNow
    BY <1>2, <1>3 DEF EpochNow
  <2> QED
    BY <1>1, <1>3, <2>1, <2>2, EpochNext
<1>5. Misdated' <=> Misdated \/ (e.key = 0 /\ e.epoch # EpochNow)
  <2>1. Misdated' <=> \E i \in 1..(Len(log) + 1) :
                         log'[i].key = 0 /\ log'[i].epoch # EpochAt(log, i)
    BY <1>1, <1>2 DEF Misdated
  <2>2. \A i : i \in 1..(Len(log) + 1) <=> i \in 1..Len(log) \/ i = Len(log) + 1
    OBVIOUS
  <2> QED
    BY <1>1, <2>1, <2>2 DEF Misdated, EpochNow
<1> QED
  BY <1>2, <1>4, <1>5

\* A misdated entry stays in the log.
LEMMA MisdatedStays ==
  ASSUME ChainInv, RestInv, [Next]_vars, Misdated
  PROVE  Misdated'
<1>1. CASE log' = log
  BY <1>1 DEF Misdated
<1>2. CASE Appended
  BY <1>2, AppendDates DEF Appended, ChainInv, TypeOK
<1> QED
  BY <1>1, <1>2, StepKinds DEF Still, KeyStored, Advanced

LEMMA DatedStep ==
  ASSUME ChainInv, RestInv, [Next]_vars
  PROVE  Dated'
<1> SUFFICES ASSUME ~Misdated'
             PROVE  (pointer <= EpochNow /\ \A i \in 1..Len(log) : DatedAt(i))'
  BY DEF Dated
<1>0. /\ log \in Seq(Entry) /\ pointer \in Epoch /\ keys \in [Epoch -> Key]
      /\ \A i \in 1..Len(log) : log[i] \in Entry
  BY ElementOfSeq DEF ChainInv, TypeOK
<1>1. ~Misdated
  BY MisdatedStays
<1>2. pointer <= EpochNow /\ \A i \in 1..Len(log) : DatedAt(i)
  BY <1>1 DEF RestInv, Dated
<1>3. EpochNow = TailEpoch /\ EpochNow \in 0..MaxEpoch
  BY <1>1, TailTells DEF ChainInv, RestInv
<1>4. CASE Still
  BY <1>2, <1>4 DEF Still, DatedAt, EpochNow
<1>5. CASE KeyStored
  <2>1. PICK e \in Epoch, k \in Key \ {0} :
          /\ keys' = [keys EXCEPT ![e] = k]
          /\ \/ e = 1 /\ pointer = 1 /\ keys[1] = 0
             \/ e = pointer + 1 /\ TailEpoch <= pointer
    BY <1>5 DEF KeyStored
  <2>2. log' = log /\ pointer' = pointer /\ EpochNow' = EpochNow
    BY <1>5 DEF KeyStored, EpochNow
  <2> SUFFICES ASSUME NEW i \in 1..Len(log)
               PROVE  DatedAt(i)'
    BY <1>2, <2>2
  <2>3. DatedAt(i) /\ log[i] \in Entry
    BY <1>0, <1>2
  <2>4. log[i].kind = "rotate" => log[i].target \in Epoch /\ log[i].target # e
    <3> SUFFICES ASSUME log[i].kind = "rotate"
                 PROVE  log[i].target \in Epoch /\ log[i].target # e
      OBVIOUS
    <3>1. log[i].epoch \in 1..MaxEpoch /\ log[i].target \in 0..MaxEpoch
      BY <2>3 DEF Entry, Epoch
    <3>2. log[i].target = log[i].epoch + 1 /\ log[i].target <= TailEpoch
      BY <1>3, <2>3 DEF DatedAt
    <3>3. pointer \in 1..MaxEpoch /\ TailEpoch \in 0..MaxEpoch
      BY <1>0, <1>3 DEF Epoch
    <3> QED
      BY <2>1, <3>1, <3>2, <3>3 DEF Epoch
  <2> QED
    BY <1>0, <2>1, <2>2, <2>3, <2>4 DEF DatedAt
<1>6. CASE Advanced
  <2>1. log' = log /\ keys' = keys /\ EpochNow' = EpochNow /\ pointer' = pointer + 1
    BY <1>6 DEF Advanced, EpochNow
  <2>2. EpochNow = pointer + 1
    BY <1>3, <1>6 DEF Advanced, TailEpoch
  <2>3. \A i \in 1..Len(log) : DatedAt(i)'
    BY <1>2, <2>1 DEF DatedAt
  <2> QED
    BY <1>0, <2>1, <2>2, <2>3 DEF Epoch
<1>7. CASE Appended
  <2>1. PICK e \in Entry : (SignedEntry(e) \/ UnsignedEntry(e)) /\ log' = Append(log, e)
    BY <1>7 DEF Appended
  <2>2. pointer' = pointer /\ keys' = keys
    BY <1>7 DEF Appended
  <2>3. /\ Len(log') = Len(log) + 1 /\ log'[Len(log) + 1] = e
        /\ \A i \in 1..Len(log) : log'[i] = log[i]
    BY <1>0, <2>1
  <2>4. /\ \A i \in 1..(Len(log) + 1) : EpochAt(log', i) = EpochAt(log, i)
        /\ EpochNow' = IF e.kind = "rotate" THEN e.target ELSE EpochNow
        /\ ~(e.key = 0 /\ e.epoch # EpochNow)
    BY <1>0, <2>1, AppendDates
  <2>5. e.epoch = EpochNow /\ (e.kind = "rotate" => e.epoch = pointer /\ e.target = pointer + 1
                                                     /\ e.val = keys[pointer + 1])
    BY <1>0, <1>2, <1>3, <2>1, <2>4 DEF SignedEntry, UnsignedEntry, Entry, Epoch
  <2>6. EpochNow' \in Int /\ EpochNow <= EpochNow'
    BY <1>0, <1>3, <2>4, <2>5 DEF Epoch
  <2>7. pointer' <= EpochNow'
    BY <1>0, <1>2, <1>3, <2>2, <2>6 DEF Epoch
  <2>8. ASSUME NEW i \in 1..Len(log)
        PROVE  DatedAt(i)'
    <3>1. DatedAt(i) /\ log'[i] = log[i] /\ EpochAt(log', i) = EpochAt(log, i)
      BY <1>2, <2>3, <2>4
    <3>2. log[i].target \in 0..MaxEpoch
      BY <1>0 DEF Entry
    <3>3. log[i].kind = "rotate" => log[i].target <= EpochNow'
      BY <1>3, <2>6, <3>1, <3>2 DEF DatedAt
    <3> QED
      BY <2>2, <3>1, <3>3 DEF DatedAt
  <2>9. ASSUME NEW i, i = Len(log) + 1
        PROVE  DatedAt(i)'
    <3>1. log'[i] = e /\ EpochAt(log', i) = EpochNow
      BY <1>0, <2>3, <2>4, <2>9 DEF EpochNow
    <3>2. log'[i].epoch = EpochAt(log', i)
      BY <2>5, <3>1
    <3>3. e.kind = "rotate" => /\ e.target = e.epoch + 1 /\ e.val = keys'[e.target]
                               /\ e.target <= EpochNow'
      BY <1>0, <2>2, <2>4, <2>5 DEF Epoch
    <3> QED
      BY <3>1, <3>2, <3>3 DEF DatedAt
  <2> QED
    BY <1>0, <2>3, <2>7, <2>8, <2>9
<1> QED
  BY <1>4, <1>5, <1>6, <1>7, StepKinds


\* A step of one process takes nothing out of the hands of another.
LEMMA OthersHands ==
  ASSUME ChainInv, RestInv, NEW p \in Proc, NEW q \in Proc \ {p},
         pc'[q] = pc[q], cache'[q] = cache[q],
         holder \in {p, Nobody} \/ UNCHANGED <<log, pointer, keys>>
  PROVE  InHand(q)'
<1>1. CASE holder \in {p, Nobody}
  <2>1. pc[q] \in {"down", "idle"}
    BY <1>1, ConstantsAssumption DEF ChainInv, Exclusive
  <2> QED
    BY <2>1 DEF InHand
<1>2. CASE UNCHANGED <<log, pointer, keys>>
  BY <1>2 DEF RestInv, InHand, TailEpoch
<1> QED
  BY <1>1, <1>2

\* A process that is not to sign needs nothing, one that is needs a key.
LEMMA OwnHands ==
  ASSUME NEW p \in Proc
  PROVE  /\ pc'[p] \in {"down", "idle", "key", "counter", "rename", "rcounter", "cpointer"}
              => InHand(p)'
         /\ pc'[p] \in {"backup", "append", "anchor", "ranchor"} /\ cache'[p].key # 0
              => InHand(p)'
BY DEF InHand

\* Inside an operation a process holds the flock.
LEMMA Inside ==
  ASSUME ChainInv, NEW p \in Proc, pc[p] \notin {"down", "idle"}
  PROVE  holder = p
BY DEF ChainInv, Exclusive

\* A process that is to sign, or half-way through a rotation, has what it needs.
LEMMA HandStep ==
  ASSUME ChainInv, RestInv, [Next]_vars
  PROVE  (\A p \in Proc : InHand(p))'
<1> DEFINE Goal == \A q \in Proc : InHand(q)'
<1> USE ConstantsAssumption DEF logVars, chainVars, procVars, boundVars
<1> USE DEF ChainInv, RestInv
<1>1. ASSUME NEW p \in Proc, StartProc(p)
      PROVE  Goal
  <2>1. \A q \in Proc \ {p} : /\ pc'[q] = pc[q] /\ cache'[q] = cache[q]
                              /\ holder \in {p, Nobody} \/ UNCHANGED <<log, pointer, keys>>
    BY <1>1 DEF StartProc, TypeOK, ProcTypes
  <2>2. InHand(p)'
    BY <1>1 DEF StartProc, TypeOK, ProcTypes, InHand
  <2> QED
    BY <2>1, <2>2, OthersHands
<1>2. ASSUME NEW p \in Proc, Crash(p)
      PROVE  Goal
  <2>1. \A q \in Proc \ {p} : /\ pc'[q] = pc[q] /\ cache'[q] = cache[q]
                              /\ holder \in {p, Nobody} \/ UNCHANGED <<log, pointer, keys>>
    BY <1>2 DEF Crash, TypeOK, ProcTypes
  <2>2. InHand(p)'
    BY <1>2 DEF Crash, TypeOK, ProcTypes, InHand
  <2> QED
    BY <2>1, <2>2, OthersHands
<1>3. ASSUME NEW p \in Proc, Abort(p)
      PROVE  Goal
  <2>1. \A q \in Proc \ {p} : /\ pc'[q] = pc[q] /\ cache'[q] = cache[q]
                              /\ holder \in {p, Nobody} \/ UNCHANGED <<log, pointer, keys>>
    BY <1>3 DEF Abort, Return, TypeOK, ProcTypes
  <2>2. InHand(p)'
    BY <1>3 DEF Abort, Return, TypeOK, ProcTypes, InHand
  <2> QED
    BY <2>1, <2>2, OthersHands
<1>4. ASSUME NEW p \in Proc, NEW v \in Version, BeginWrite(p, v)
      PROVE  Goal
  <2>1. \A q \in Proc \ {p} : /\ pc'[q] = pc[q] /\ cache'[q] = cache[q]
                              /\ holder \in {p, Nobody} \/ UNCHANGED <<log, pointer, keys>>
    BY <1>4 DEF BeginWrite, TypeOK, ProcTypes
  <2>2. InHand(p)'
    BY <1>4 DEF BeginWrite, TypeOK, ProcTypes, InHand
  <2> QED
    BY <2>1, <2>2, OthersHands
<1>5. ASSUME NEW p \in Proc, BeginRotate(p)
      PROVE  Goal
  <2>1. \A q \in Proc \ {p} : /\ pc'[q] = pc[q] /\ cache'[q] = cache[q]
                              /\ holder \in {p, Nobody} \/ UNCHANGED <<log, pointer, keys>>
    BY <1>5 DEF BeginRotate, TypeOK, ProcTypes
  <2>2. InHand(p)'
    BY <1>5 DEF BeginRotate, TailEpoch, TypeOK, ProcTypes, InHand
  <2> QED
    BY <2>1, <2>2, OthersHands
<1>6. ASSUME NEW p \in Proc, RefreshAnchor(p)
      PROVE  Goal
  <2>1. \A q \in Proc \ {p} : /\ pc'[q] = pc[q] /\ cache'[q] = cache[q]
                              /\ holder \in {p, Nobody} \/ UNCHANGED <<log, pointer, keys>>
    BY <1>6 DEF RefreshAnchor, TypeOK, ProcTypes
  <2>2. InHand(p)'
    BY <1>6 DEF RefreshAnchor, TailEpoch, TypeOK, ProcTypes, InHand
  <2> QED
    BY <2>1, <2>2, OthersHands
<1>7. ASSUME NEW p \in Proc, EnsureKey(p)
      PROVE  Goal
  <2>0. holder = p
    BY <1>7, Inside DEF EnsureKey
  <2>1. \A q \in Proc \ {p} : pc'[q] = pc[q] /\ cache'[q] = cache[q]
    BY <1>7 DEF EnsureKey, Goto, TypeOK, ProcTypes
  <2>2. pc'[p] \in {"backup", "append"}
    BY <1>7 DEF EnsureKey, Goto, TypeOK, ProcTypes
  <2>3. cache'[p].key # 0
    <3>1. CASE cache[p].key # 0 /\ UNCHANGED cache
      BY <3>1
    <3>2. CASE keys[pointer] # 0 /\ cache' = [cache EXCEPT ![p] = Fetched]
      BY <3>2 DEF TypeOK, Fetched
    <3>3. CASE MakeKey(1) /\ cache' = [cache EXCEPT ![p] = [epoch |-> 1, key |-> keysMade']]
      BY <3>3 DEF MakeKey, TypeOK, Key
    <3> QED
      BY <1>7, <3>1, <3>2, <3>3 DEF EnsureKey
  <2>4. InHand(p)'
    BY <2>2, <2>3 DEF InHand
  <2> QED
    BY <2>0, <2>1, <2>4, OthersHands
<1>8. ASSUME NEW p \in Proc, AppendBackup(p)
      PROVE  Goal
  <2>0. holder = p
    BY <1>8, Inside DEF AppendBackup
  <2>1. \A q \in Proc \ {p} : pc'[q] = pc[q] /\ cache'[q] = cache[q]
    BY <1>8 DEF AppendBackup, SignedAppend, Return, TypeOK, ProcTypes
  <2>2. pc'[p] \in {"append", "idle"} /\ cache'[p] = cache[p] /\ cache[p].key # 0
    BY <1>8 DEF AppendBackup, SignedAppend, Return, InHand, TypeOK, ProcTypes
  <2>3. InHand(p)'
    BY <2>2 DEF InHand
  <2> QED
    BY <2>0, <2>1, <2>3, OthersHands
<1>9. ASSUME NEW p \in Proc, AppendWrite(p)
      PROVE  Goal
  <2>0. holder = p
    BY <1>9, Inside DEF AppendWrite
  <2>1. \A q \in Proc \ {p} : pc'[q] = pc[q] /\ cache'[q] = cache[q]
    BY <1>9 DEF AppendWrite, SignedAppend, Return, TypeOK, ProcTypes
  <2>2. pc'[p] \in {"anchor", "idle"} /\ cache'[p] = cache[p] /\ cache[p].key # 0
    BY <1>9 DEF AppendWrite, SignedAppend, Return, InHand, TypeOK, ProcTypes
  <2>3. InHand(p)'
    BY <2>2 DEF InHand
  <2> QED
    BY <2>0, <2>1, <2>3, OthersHands
<1>10. ASSUME NEW p \in Proc, AppendLegacy(p)
      PROVE  Goal
  <2>0. holder = p
    BY <1>10, Inside DEF AppendLegacy
  <2>1. \A q \in Proc \ {p} : pc'[q] = pc[q] /\ cache'[q] = cache[q]
    BY <1>10 DEF AppendLegacy, UnsignedAppend, TypeOK, ProcTypes
  <2>2. InHand(p)'
    BY <1>10 DEF AppendLegacy, UnsignedAppend, TypeOK, ProcTypes, InHand
  <2> QED
    BY <2>0, <2>1, <2>2, OthersHands
<1>11. ASSUME NEW p \in Proc, AppendDelegated(p)
      PROVE  Goal
  <2>0. holder = p
    BY <1>11, Inside DEF AppendDelegated
  <2>1. \A q \in Proc \ {p} : pc'[q] = pc[q] /\ cache'[q] = cache[q]
    BY <1>11 DEF AppendDelegated, SignedAppend, Return, TypeOK, ProcTypes
  <2>2. pc'[p] \in {"anchor", "idle"} /\ cache'[p].key # 0
    BY <1>11 DEF AppendDelegated, SignedAppend, Return, TypeOK, ProcTypes
  <2>3. InHand(p)'
    BY <2>2 DEF InHand
  <2> QED
    BY <2>0, <2>1, <2>3, OthersHands
<1>12. ASSUME NEW p \in Proc, AppendUnreachable(p)
      PROVE  Goal
  <2>0. holder = p
    BY <1>12, Inside DEF AppendUnreachable
  <2>1. \A q \in Proc \ {p} : pc'[q] = pc[q] /\ cache'[q] = cache[q]
    BY <1>12 DEF AppendUnreachable, UnsignedAppend, TypeOK, ProcTypes
  <2>2. InHand(p)'
    BY <1>12 DEF AppendUnreachable, UnsignedAppend, TypeOK, ProcTypes, InHand
  <2> QED
    BY <2>0, <2>1, <2>2, OthersHands
<1>13. ASSUME NEW p \in Proc, WriteAnchor(p)
      PROVE  Goal
  <2>0. holder = p
    BY <1>13, Inside DEF WriteAnchor
  <2>1. \A q \in Proc \ {p} : pc'[q] = pc[q] /\ cache'[q] = cache[q]
    BY <1>13 DEF WriteAnchor, Goto, TypeOK, ProcTypes
  <2>2. InHand(p)'
    BY <1>13 DEF WriteAnchor, Goto, TypeOK, ProcTypes, InHand
  <2> QED
    BY <2>0, <2>1, <2>2, OthersHands
<1>14. ASSUME NEW p \in Proc, BumpCounter(p)
      PROVE  Goal
  <2>0. holder = p
    BY <1>14, Inside DEF BumpCounter
  <2>1. \A q \in Proc \ {p} : pc'[q] = pc[q] /\ cache'[q] = cache[q]
    BY <1>14 DEF BumpCounter, Goto, TypeOK, ProcTypes
  <2>2. InHand(p)'
    BY <1>14 DEF BumpCounter, Goto, TypeOK, ProcTypes, InHand
  <2> QED
    BY <2>0, <2>1, <2>2, OthersHands
<1>15. ASSUME NEW p \in Proc, Rename(p)
      PROVE  Goal
  <2>0. holder = p
    BY <1>15, Inside DEF Rename
  <2>1. \A q \in Proc \ {p} : pc'[q] = pc[q] /\ cache'[q] = cache[q]
    BY <1>15 DEF Rename, Return, TypeOK, ProcTypes
  <2>2. InHand(p)'
    BY <1>15 DEF Rename, Return, TypeOK, ProcTypes, InHand
  <2> QED
    BY <2>0, <2>1, <2>2, OthersHands
<1>16. ASSUME NEW p \in Proc, StoreKey(p)
      PROVE  Goal
  <2>0. holder = p
    BY <1>16, Inside DEF StoreKey
  <2>1. \A q \in Proc \ {p} : pc'[q] = pc[q] /\ cache'[q] = cache[q]
    BY <1>16 DEF StoreKey, Goto, TypeOK, ProcTypes
  <2>2. pc'[p] = "marker" /\ pointer' = pointer /\ keys[pointer] # 0 /\ pointer + 1 \in Epoch
    BY <1>16 DEF StoreKey, Goto, InHand, RotationBounded, TypeOK, ProcTypes, Epoch
  <2>3. keys'[pointer + 1] # 0 /\ keys'[pointer] # 0
    <3>1. keys' = [keys EXCEPT ![pointer + 1] = keysMade + 1]
      BY <1>16 DEF StoreKey, MakeKey
    <3>2. keysMade \in Nat /\ keys \in [Epoch -> Key] /\ pointer \in Epoch
      BY DEF ChainInv, TypeOK, Key
    <3>3. pointer \in Nat
      BY <3>2 DEF Epoch
    <3> QED
      BY <2>2, <3>1, <3>2, <3>3
  <2>4. InHand(p)'
    BY <2>2, <2>3 DEF InHand
  <2> QED
    BY <2>0, <2>1, <2>4, OthersHands
<1>17. ASSUME NEW p \in Proc, AppendMarker(p)
      PROVE  Goal
  <2>0. holder = p
    BY <1>17, Inside DEF AppendMarker
  <2>1. \A q \in Proc \ {p} : pc'[q] = pc[q] /\ cache'[q] = cache[q]
    BY <1>17 DEF AppendMarker, SignedAppend, Return, TypeOK, ProcTypes
  <2>2. pointer' = pointer /\ keys' = keys /\ keys[pointer + 1] # 0
    BY <1>17 DEF AppendMarker, InHand
  <2>3. ASSUME Return(p)
        PROVE  InHand(p)'
    <3>1. pc'[p] = "idle"
      BY <2>3 DEF Return, TypeOK, ProcTypes
    <3> QED
      BY <3>1, OwnHands
  <2>4. ASSUME /\ log' = Append(log, [kind |-> "rotate", epoch |-> HmacKey(p).epoch,
                                      key |-> HmacKey(p).key, val |-> keys[pointer + 1],
                                      target |-> pointer + 1])
               /\ pc' = [pc EXCEPT ![p] = "pointer"]
        PROVE  InHand(p)'
    <3>1. log' # <<>> /\ log'[Len(log')].kind = "rotate" /\ log'[Len(log')].target = pointer + 1
      BY <2>4 DEF TypeOK
    <3>2. pc'[p] = "pointer"
      BY <2>4 DEF TypeOK, ProcTypes
    <3> QED
      BY <2>2, <3>1, <3>2 DEF InHand
  <2>5. InHand(p)'
    BY <1>17, <2>3, <2>4 DEF AppendMarker, SignedAppend
  <2> QED
    BY <2>0, <2>1, <2>5, OthersHands
<1>18. ASSUME NEW p \in Proc, AdvancePointer(p)
      PROVE  Goal
  <2>0. holder = p
    BY <1>18, Inside DEF AdvancePointer
  <2>1. \A q \in Proc \ {p} : pc'[q] = pc[q] /\ cache'[q] = cache[q]
    BY <1>18 DEF AdvancePointer, AdvanceTo, Goto, TypeOK, ProcTypes
  <2>2. pc'[p] = "ranchor" /\ cache'[p].key = keys[pointer + 1] /\ keys[pointer + 1] # 0
    BY <1>18 DEF AdvancePointer, AdvanceTo, Goto, InHand, TypeOK, ProcTypes
  <2>3. InHand(p)'
    BY <2>2 DEF InHand
  <2> QED
    BY <2>0, <2>1, <2>3, OthersHands
<1>19. ASSUME NEW p \in Proc, Reanchor(p)
      PROVE  Goal
  <2>0. holder = p
    BY <1>19, Inside DEF Reanchor
  <2>1. \A q \in Proc \ {p} : pc'[q] = pc[q] /\ cache'[q] = cache[q]
    BY <1>19 DEF Reanchor, Return, Goto, TypeOK, ProcTypes
  <2>2. InHand(p)'
    BY <1>19 DEF Reanchor, Return, Goto, TypeOK, ProcTypes, InHand
  <2> QED
    BY <2>0, <2>1, <2>2, OthersHands
<1>20. ASSUME NEW p \in Proc, CountMarker(p)
      PROVE  Goal
  <2>0. holder = p
    BY <1>20, Inside DEF CountMarker
  <2>1. \A q \in Proc \ {p} : pc'[q] = pc[q] /\ cache'[q] = cache[q]
    BY <1>20 DEF CountMarker, Return, TypeOK, ProcTypes
  <2>2. InHand(p)'
    BY <1>20 DEF CountMarker, Return, TypeOK, ProcTypes, InHand
  <2> QED
    BY <2>0, <2>1, <2>2, OthersHands
<1>21. ASSUME NEW p \in Proc, CompletePointer(p)
      PROVE  Goal
  <2>0. holder = p
    BY <1>21, Inside DEF CompletePointer
  <2>1. \A q \in Proc \ {p} : pc'[q] = pc[q] /\ cache'[q] = cache[q]
    BY <1>21 DEF CompletePointer, AdvanceTo, Return, Goto, TypeOK, ProcTypes
  <2>2. ASSUME Return(p)
        PROVE  InHand(p)'
    <3>1. pc'[p] = "idle"
      BY <2>2 DEF Return, TypeOK, ProcTypes
    <3> QED
      BY <3>1, OwnHands
  <2>3. ASSUME /\ TailEpoch = pointer + 1 /\ log[Len(log)].val = keys[TailEpoch]
               /\ AdvanceTo(p, TailEpoch, "ranchor")
        PROVE  InHand(p)'
    <3>1. log # <<>> /\ Len(log) \in 1..Len(log)
      BY <2>3 DEF TailEpoch, TypeOK, Epoch
    <3>2. log[Len(log)].epoch \in Nat /\ log[Len(log)].epoch <= pointer
      BY <3>1, TailTypes DEF EntrySound, Entry, Epoch
    <3>3. log[Len(log)].val # 0
      BY <2>3, <3>1, <3>2, SMTT(30) DEF TailEpoch, EntrySound, TypeOK, Epoch
    <3>4. pc'[p] = "ranchor" /\ cache'[p].key = keys[TailEpoch]
      BY <2>3 DEF AdvanceTo, Goto, TypeOK, ProcTypes
    <3> QED
      <4>1. cache'[p].key # 0
        BY <2>3, <3>3, <3>4
      <4> QED
        BY <3>4, <4>1, OwnHands
  <2>4. InHand(p)'
    BY <1>21, <2>2, <2>3 DEF CompletePointer
  <2> QED
    BY <2>0, <2>1, <2>4, OthersHands
<1>22. CASE UNCHANGED vars
  BY <1>22 DEF vars, InHand, TailEpoch
<1> QED
  BY <1>1, <1>2, <1>3, <1>4, <1>5, <1>6, <1>7, <1>8, <1>9, <1>10, <1>11,
     <1>12, <1>13, <1>14, <1>15, <1>16, <1>17, <1>18, <1>19, <1>20, <1>21,
     <1>22 DEF Next, Step

LEMMA RestInductive == Spec => [](ChainInv /\ RestInv)
<1>1. ChainInv /\ RestInv /\ [Next]_vars => RestInv'
  BY CacheKept, HandStep, AnchorStep, EntriesStep, DatedStep DEF RestInv
<1>2. ChainInv /\ [Next]_vars => ChainInv'
  BY TypeStep, ExclusiveStep, BoundedStep, CountedStep DEF ChainInv
<1> QED
  BY <1>1, <1>2, ChainInit, RestInit, PTL DEF Spec

\* Every prefix of the log walks, under the keys the keychain has by now.
LEMMA PrefixWalks ==
  ASSUME ChainInv, RestInv, ~Misdated, NEW n \in 0..Len(log), NEW hasKeys
  PROVE  Walks(SubSeq(log, 1, n), hasKeys)
<1> DEFINE l == SubSeq(log, 1, n)
<1>0. log \in Seq(Entry) /\ n \in Nat /\ n <= Len(log)
  BY DEF ChainInv, TypeOK
<1>1. Len(l) = n /\ \A i \in 1..n : l[i] = log[i]
  BY <1>0
<1> SUFFICES ASSUME NEW i \in 1..n
             PROVE  IF ~Chained(l[i]) THEN \A j \in 1..i : ~Chained(l[j])
                    ELSE LET e == EpochAt(l, i)
                         IN /\ l[i].epoch = e
                            /\ hasKeys /\ l[i].key # 0 => l[i].key = keys[e]
                            /\ l[i].kind = "rotate" =>
                                 l[i].target = e + 1 /\ (hasKeys => l[i].val = keys[e + 1])
  <2> HIDE DEF l
  <2>1. Walks(l, hasKeys)
    BY <1>1 DEF Walks
  <2> QED
    BY <2>1 DEF l
<1> HIDE DEF l
<1>2. EntrySound(i) /\ DatedAt(i)
  BY <1>0 DEF RestInv, Dated
<1>3. EpochAt(l, i) = EpochAt(log, i)
  <2>1. i \in Nat /\ \A j \in 1..(i-1) : l[j] = log[j]
    BY <1>0, <1>1
  <2> QED
    BY <2>1, EpochPrefix
<1>4. l[i] = log[i] /\ \A j \in 1..i : l[j] = log[j]
  BY <1>0, <1>1
<1> QED
  BY <1>2, <1>3, <1>4 DEF EntrySound, DatedAt, Chained

\* Whatever crashes, failed steps, outages and half-done rotations the log has been
\* through, Verify finds nothing wrong with it at rest (RestVerifies; verify.go).
THEOREM NeverCriesWolf == Spec => []RestVerifies
<1>1. ASSUME ChainInv, RestInv
      PROVE  RestVerifies
  <2> SUFFICES ASSUME anchor # NoAnchor, ~Misdated
               PROVE  VerifyOK
    BY DEF RestVerifies
  <2>1. log \in Seq(Entry) /\ Len(log) \in 0..Len(log) /\ SubSeq(log, 1, Len(log)) = log
    BY <1>1, SubSeqFull DEF ChainInv, TypeOK
  <2>2. Walks(log, keys[pointer] # 0)
    BY <1>1, <2>1, PrefixWalks
  <2>3. ReachesPointer(log, pointer, keys[pointer] # 0)
    BY <1>1 DEF RestInv, Dated, EpochNow, ReachesPointer
  <2>4. AnchorSigned(keys[pointer] # 0, anchor) /\ anchor.count <= Len(log)
    BY <1>1 DEF RestInv, AnchorKept, Kept, AnchorSigned
  <2>5. counter <= Len(log)
    BY <1>1 DEF ChainInv, Counted
  <2> QED
    BY <2>2, <2>3, <2>4, <2>5 DEF VerifyOK
<1> QED
  BY <1>1, RestInductive, PTL

-----------------------------------------------------------------------------
(* Verify beside the writers.                                              *)

\* An anchor there was once is not removed.
AnchorThere == began # NoAnchor => anchor # NoAnchor

LEMMA ReaderInit == InitVerify => ReaderTypeOK /\ AnchorThere /\ OverlapNeverTampered
<1> SUFFICES ASSUME InitVerify
             PROVE  ReaderTypeOK /\ AnchorThere /\ OverlapNeverTampered
  OBVIOUS
<1>1. 1 \in Epoch /\ Len(log) = 0
  BY ConstantsAssumption DEF InitVerify, Init, Epoch
<1>2. vpc = "idle" /\ vlen = 0 /\ vptr = 1 /\ vkey = FALSE /\ verdict = "none" /\ began = NoAnchor
  BY DEF InitVerify
<1>3. 0 \in 0..Len(log)
  BY <1>1
<1>4. NoAnchor \in [count : Nat, epoch : Epoch, key : Key]
  BY <1>1, ConstantsAssumption DEF NoAnchor, Key
<1> QED
  BY <1>1, <1>2, <1>3, <1>4 DEF ReaderTypeOK, AnchorThere, OverlapNeverTampered

LEMMA ReaderTypeStep ==
  ASSUME ChainInv, RestInv, ReaderTypeOK, [NextVerify]_<<vars, readerVars>>
  PROVE  ReaderTypeOK'
<1>1. Len(log) \in Nat /\ Len(log') \in Nat /\ pointer \in Epoch /\ Len(log) <= Len(log')
  <2>1. [Next]_vars
    BY DEF NextVerify
  <2> QED
    BY <2>1, TypeStep, LogGrows DEF ChainInv, TypeOK
<1>a. anchor \in [count : Nat, epoch : Epoch, key : Key]
  BY DEF ChainInv, TypeOK
<1>2. CASE UNCHANGED readerVars
  BY <1>1, <1>2 DEF ReaderTypeOK, readerVars
<1>3. CASE VerifyStep /\ UNCHANGED vars
  <2>1. log' = log
    BY <1>3 DEF vars, logVars
  <2>2. CASE ReadLog
    BY <1>1, <1>a, <2>1, <2>2 DEF ReadLog, ReaderTypeOK
  <2>3. CASE ReadPointer
    BY <1>1, <2>1, <2>3 DEF ReadPointer, ReaderTypeOK
  <2>4. CASE WalkChain
    BY <1>1, <2>1, <2>4 DEF WalkChain, ReaderTypeOK, Answer, Alarms
  <2>5. CASE ReadAnchor
    BY <1>1, <2>1, <2>5 DEF ReadAnchor, ReaderTypeOK, Answer, Alarms
  <2>6. CASE ReadCounter
    BY <1>1, <2>1, <2>6 DEF ReadCounter, ReaderTypeOK, Answer, Alarms
  <2> QED
    BY <1>3, <2>2, <2>3, <2>4, <2>5, <2>6 DEF VerifyStep
<1> QED
  BY <1>2, <1>3 DEF NextVerify

LEMMA AnchorStays ==
  ASSUME ChainInv, RestInv, AnchorThere, [NextVerify]_<<vars, readerVars>>
  PROVE  AnchorThere'
<1>1. anchor # NoAnchor => anchor' # NoAnchor
  <2>1. [Next]_vars
    BY DEF NextVerify
  <2> QED
    BY <2>1, AnchorSteps DEF AnchorWith, NoAnchor
<1>2. began' \in {began, anchor}
  BY DEF NextVerify, VerifyStep, ReadLog, ReadPointer, WalkChain, ReadAnchor, ReadCounter,
         readerVars
<1> QED
  BY <1>1, <1>2 DEF AnchorThere

LEMMA OverlapStep ==
  ASSUME ChainInv, RestInv, ReaderTypeOK, AnchorThere, OverlapNeverTampered,
         [NextVerify]_<<vars, readerVars>>
  PROVE  OverlapNeverTampered'
<1> SUFFICES ASSUME ~Misdated'
             PROVE  /\ verdict' \notin {"broken", "forged anchor"}
                    /\ verdict' = "no anchor" => began' = NoAnchor
  BY DEF OverlapNeverTampered
<1>1. ~Misdated
  <2>1. [Next]_vars
    BY DEF NextVerify
  <2> QED
    BY <2>1, MisdatedStays
<1>2. verdict \notin {"broken", "forged anchor"} /\ (verdict = "no anchor" => began = NoAnchor)
  BY <1>1 DEF OverlapNeverTampered
<1>3. CASE UNCHANGED readerVars
  BY <1>2, <1>3 DEF readerVars
<1>4. CASE VerifyStep
  <2>1. CASE ReadLog \/ ReadPointer \/ ReadCounter
    BY <1>2, <2>1 DEF ReadLog, ReadPointer, ReadCounter, Answer
  <2>2. CASE WalkChain
    <3>1. Walks(SubSeq(log, 1, vlen), vkey)
      BY <1>1, PrefixWalks DEF ReaderTypeOK
    <3> QED
      BY <1>2, <2>2, <3>1 DEF WalkChain, Answer
  <2>3. CASE ReadAnchor
    <3>1. AnchorExists(vkey, anchor) => AnchorSigned(vkey, anchor)
      BY DEF RestInv, AnchorKept, Kept, AnchorExists, AnchorSigned
    <3>2. began # NoAnchor => AnchorExists(vkey, anchor)
      BY DEF AnchorThere, AnchorExists
    <3> QED
      BY <2>3, <3>1, <3>2 DEF ReadAnchor, Answer
  <2> QED
    BY <1>4, <2>1, <2>2, <2>3 DEF VerifyStep
<1> QED
  BY <1>3, <1>4 DEF NextVerify

LEMMA OverlapInductive ==
  SpecVerify => [](ChainInv /\ RestInv /\ ReaderTypeOK /\ AnchorThere /\ OverlapNeverTampered)
<1> DEFINE I == ChainInv /\ RestInv /\ ReaderTypeOK /\ AnchorThere /\ OverlapNeverTampered
<1>1. InitVerify => I
  BY ChainInit, RestInit, ReaderInit DEF InitVerify
<1>2. I /\ [NextVerify]_<<vars, readerVars>> => I'
  <2> SUFFICES ASSUME I, [NextVerify]_<<vars, readerVars>>
               PROVE  I'
    OBVIOUS
  <2>1. [Next]_vars
    BY DEF NextVerify
  <2>2. ChainInv'
    BY <2>1, TypeStep, ExclusiveStep, BoundedStep, CountedStep DEF ChainInv
  <2>3. RestInv'
    BY <2>1, CacheKept, HandStep, AnchorStep, EntriesStep, DatedStep DEF RestInv
  <2> QED
    BY <2>2, <2>3, ReaderTypeStep, AnchorStays, OverlapStep
<1> QED
  BY <1>1, <1>2, PTL DEF SpecVerify

\* What a verify has read so far is of the types it says (ReaderTypeOK).
THEOREM ReaderTyping == SpecVerify => []ReaderTypeOK
BY OverlapInductive, PTL

\* A verify that takes no lock and overlaps the writers, whatever they crash in,
\* never calls the log broken or its anchor forged, nor the anchor deleted if there was
\* one when it began (OverlapNeverTampered; verify.go:328-338).
THEOREM OverlapIsSafe == SpecVerify => []OverlapNeverTampered
BY OverlapInductive, PTL

-----------------------------------------------------------------------------
(* The write-ahead discipline.                                             *)

\* A write has a content, and once it is recorded it is the log's last entry until
\* the file takes it: nobody else appends in between.
Recorded(p) ==
  /\ pc[p] \in WritePcs => val[p] \in Version
  /\ pc[p] \in {"anchor", "counter", "rename"} =>
       /\ log # <<>> /\ log[Len(log)].kind \in {"write", "legacy"}
       /\ log[Len(log)].val = val[p]

RecordInv == \A p \in Proc : Recorded(p)

\* appendNoRefresh and writeEntryLocked append the content they are given.
Appends(kind, v) ==
  \E e \in Entry : e.kind = kind /\ e.val = v /\ log' = Append(log, e)

LEMMA SignedAppends ==
  ASSUME TypeOK, NEW p \in Proc, NEW k \in CachedKey,
         NEW kind \in {"write", "backup", "rotate"}, NEW v \in Nat,
         NEW target \in 0..MaxEpoch, NEW next,
         SignedAppend(p, k, kind, v, target, next)
  PROVE  \/ Return(p) /\ UNCHANGED log
         \/ /\ pc' = [pc EXCEPT ![p] = next] /\ UNCHANGED <<holder, val>>
            /\ Appends(kind, v)
<1> DEFINE e == [kind |-> kind, epoch |-> k.epoch, key |-> k.key,
                 val |-> v, target |-> target]
<1>1. e \in Entry /\ e.kind = kind /\ e.val = v
  BY DEF Entry, CachedKey
<1> QED
  BY <1>1 DEF SignedAppend, Appends

LEMMA UnsignedAppends ==
  ASSUME TypeOK, NEW p \in Proc, NEW kind \in {"write", "legacy"},
         UnsignedAppend(p, kind)
  PROVE  /\ pc' = [pc EXCEPT ![p] = "rename"] /\ UNCHANGED <<holder, val>>
         /\ Appends(kind, val[p])
<1> DEFINE e == [kind |-> kind, epoch |-> 1, key |-> 0, val |-> val[p], target |-> 0]
<1>1. 1 \in Epoch /\ 0 \in Key
  BY ConstantsAssumption DEF Epoch, Key
<1>2. e \in Entry /\ e.kind = kind /\ e.val = val[p]
  BY <1>1, ValTypes DEF Entry, TypeOK
<1> QED
  BY <1>2 DEF UnsignedAppend, Appends

\* The last entry after an append is the one appended.
LEMMA AppendsLast ==
  ASSUME TypeOK, NEW kind, NEW v, Appends(kind, v)
  PROVE  log' # <<>> /\ log'[Len(log')].kind = kind /\ log'[Len(log')].val = v
BY DEF TypeOK, Appends

\* What one process records or writes is nothing to the others.
LEMMA OthersRecorded ==
  ASSUME ChainInv, RecordInv, NEW p \in Proc, NEW q \in Proc \ {p},
         pc'[q] = pc[q], val'[q] = val[q],
         holder \in {p, Nobody} \/ UNCHANGED log
  PROVE  Recorded(q)'
<1>1. CASE holder \in {p, Nobody}
  <2>1. pc[q] \in {"down", "idle"}
    BY <1>1, ConstantsAssumption DEF ChainInv, Exclusive
  <2> QED
    BY <2>1 DEF Recorded, WritePcs
<1>2. CASE UNCHANGED log
  BY <1>2 DEF RecordInv, Recorded
<1> QED
  BY <1>1, <1>2

\* A write has its content all the way, and once recorded stays so.
LEMMA RecordStep ==
  ASSUME ChainInv, RecordInv, [Next]_vars
  PROVE  RecordInv'
<1> DEFINE Goal == \A q \in Proc : Recorded(q)'
<1> USE ConstantsAssumption DEF logVars, chainVars, procVars, boundVars
<1> USE DEF ChainInv, RecordInv
<1>1. ASSUME NEW p \in Proc, StartProc(p)
      PROVE  Goal
  <2>1. \A q \in Proc \ {p} : pc'[q] = pc[q] /\ val'[q] = val[q]
    BY <1>1 DEF StartProc, TypeOK, ProcTypes
  <2>2. UNCHANGED log
    BY <1>1 DEF StartProc
  <2>3. Recorded(p)'
    BY <1>1, <2>2 DEF StartProc, TypeOK, ProcTypes, Recorded, WritePcs
  <2> QED
    BY <2>1, <2>2, <2>3, OthersRecorded
<1>2. ASSUME NEW p \in Proc, Crash(p)
      PROVE  Goal
  <2>1. \A q \in Proc \ {p} : pc'[q] = pc[q] /\ val'[q] = val[q]
    BY <1>2 DEF Crash, TypeOK, ProcTypes
  <2>2. UNCHANGED log
    BY <1>2 DEF Crash
  <2>3. Recorded(p)'
    BY <1>2, <2>2 DEF Crash, TypeOK, ProcTypes, Recorded, WritePcs
  <2> QED
    BY <2>1, <2>2, <2>3, OthersRecorded
<1>3. ASSUME NEW p \in Proc, Abort(p)
      PROVE  Goal
  <2>1. \A q \in Proc \ {p} : pc'[q] = pc[q] /\ val'[q] = val[q]
    BY <1>3 DEF Abort, Return, TypeOK, ProcTypes
  <2>2. UNCHANGED log
    BY <1>3 DEF Abort
  <2>3. Recorded(p)'
    BY <1>3, <2>2 DEF Abort, Return, TypeOK, ProcTypes, Recorded, WritePcs
  <2> QED
    BY <2>1, <2>2, <2>3, OthersRecorded
<1>4. ASSUME NEW p \in Proc, NEW v \in Version, BeginWrite(p, v)
      PROVE  Goal
  <2>1. \A q \in Proc \ {p} : pc'[q] = pc[q] /\ val'[q] = val[q]
    BY <1>4 DEF BeginWrite, TypeOK, ProcTypes
  <2>2. UNCHANGED log
    BY <1>4 DEF BeginWrite
  <2>3. Recorded(p)'
    BY <1>4, <2>2 DEF BeginWrite, TypeOK, ProcTypes, Recorded, WritePcs
  <2> QED
    BY <2>1, <2>2, <2>3, OthersRecorded
<1>5. ASSUME NEW p \in Proc, BeginRotate(p)
      PROVE  Goal
  <2>1. \A q \in Proc \ {p} : pc'[q] = pc[q] /\ val'[q] = val[q]
    BY <1>5 DEF BeginRotate, TypeOK, ProcTypes
  <2>2. UNCHANGED log
    BY <1>5 DEF BeginRotate
  <2>3. Recorded(p)'
    BY <1>5, <2>2 DEF BeginRotate, TypeOK, ProcTypes, Recorded, WritePcs
  <2> QED
    BY <2>1, <2>2, <2>3, OthersRecorded
<1>6. ASSUME NEW p \in Proc, RefreshAnchor(p)
      PROVE  Goal
  <2>1. \A q \in Proc \ {p} : pc'[q] = pc[q] /\ val'[q] = val[q]
    BY <1>6 DEF RefreshAnchor, TypeOK, ProcTypes
  <2>2. UNCHANGED log
    BY <1>6 DEF RefreshAnchor
  <2>3. Recorded(p)'
    BY <1>6, <2>2 DEF RefreshAnchor, TypeOK, ProcTypes, Recorded, WritePcs
  <2> QED
    BY <2>1, <2>2, <2>3, OthersRecorded
<1>7. ASSUME NEW p \in Proc, EnsureKey(p)
      PROVE  Goal
  <2>1. \A q \in Proc \ {p} : pc'[q] = pc[q] /\ val'[q] = val[q]
    BY <1>7 DEF EnsureKey, Goto, TypeOK, ProcTypes
  <2>2. UNCHANGED log
    BY <1>7 DEF EnsureKey
  <2>3. Recorded(p)'
    BY <1>7, <2>2 DEF EnsureKey, Goto, TypeOK, ProcTypes, Recorded, WritePcs
  <2> QED
    BY <2>1, <2>2, <2>3, OthersRecorded
<1>8. ASSUME NEW p \in Proc, AppendBackup(p)
      PROVE  Goal
  <2>1. file \in Nat /\ 0 \in 0..MaxEpoch /\ cache[p] \in CachedKey
    BY KeyTypes DEF TypeOK
  <2>2. \/ Return(p) /\ UNCHANGED log
        \/ /\ pc' = [pc EXCEPT ![p] = "append"] /\ UNCHANGED <<holder, val>>
           /\ Appends("backup", file)
    <3>1. SignedAppend(p, cache[p], "backup", file, 0, "append")
      BY <1>8 DEF AppendBackup
    <3> QED
      BY <2>1, <3>1, SignedAppends
  <2>3. holder = p
    BY <1>8, Inside DEF AppendBackup
  <2>4. val[p] \in Version
    BY <1>8 DEF AppendBackup, Recorded, WritePcs
  <2>5. ASSUME Return(p), UNCHANGED log
        PROVE  Goal
    <3>1. Recorded(p)'
      BY <2>5 DEF Return, TypeOK, ProcTypes, Recorded, WritePcs
    <3>2. \A q \in Proc \ {p} : pc'[q] = pc[q] /\ val'[q] = val[q]
      BY <2>5 DEF Return, TypeOK, ProcTypes
    <3> QED
      BY <2>3, <3>1, <3>2, OthersRecorded
  <2>6. ASSUME pc' = [pc EXCEPT ![p] = "append"], UNCHANGED val, Appends("backup", file)
        PROVE  Goal
    <3>1. Recorded(p)'
      BY <2>6, <2>4 DEF Recorded, WritePcs, TypeOK, ProcTypes
    <3>2. \A q \in Proc \ {p} : pc'[q] = pc[q] /\ val'[q] = val[q]
      BY <2>6 DEF TypeOK, ProcTypes
    <3> QED
      BY <2>3, <3>1, <3>2, OthersRecorded
  <2> QED
    BY <2>2, <2>5, <2>6
<1>9. ASSUME NEW p \in Proc, AppendWrite(p)
      PROVE  Goal
  <2>1. val[p] \in Nat /\ 0 \in 0..MaxEpoch /\ cache[p] \in CachedKey
    BY KeyTypes, ValTypes DEF TypeOK
  <2>2. \/ Return(p) /\ UNCHANGED log
        \/ /\ pc' = [pc EXCEPT ![p] = "anchor"] /\ UNCHANGED <<holder, val>>
           /\ Appends("write", val[p])
    <3>1. SignedAppend(p, cache[p], "write", val[p], 0, "anchor")
      BY <1>9 DEF AppendWrite
    <3> QED
      BY <2>1, <3>1, SignedAppends
  <2>3. holder = p
    BY <1>9, Inside DEF AppendWrite
  <2>4. val[p] \in Version
    BY <1>9 DEF AppendWrite, Recorded, WritePcs
  <2>5. ASSUME Return(p), UNCHANGED log
        PROVE  Goal
    <3>1. Recorded(p)'
      BY <2>5 DEF Return, TypeOK, ProcTypes, Recorded, WritePcs
    <3>2. \A q \in Proc \ {p} : pc'[q] = pc[q] /\ val'[q] = val[q]
      BY <2>5 DEF Return, TypeOK, ProcTypes
    <3> QED
      BY <2>3, <3>1, <3>2, OthersRecorded
  <2>6. ASSUME pc' = [pc EXCEPT ![p] = "anchor"], UNCHANGED val, Appends("write", val[p])
        PROVE  Goal
    <3>1. Recorded(p)'
      <4>1. log' # <<>> /\ log'[Len(log')].kind = "write" /\ log'[Len(log')].val = val[p]
        BY <2>6, AppendsLast
      <4> QED
        BY <2>4, <2>6, <4>1 DEF Recorded, TypeOK, ProcTypes
    <3>2. \A q \in Proc \ {p} : pc'[q] = pc[q] /\ val'[q] = val[q]
      BY <2>6 DEF TypeOK, ProcTypes
    <3> QED
      BY <2>3, <3>1, <3>2, OthersRecorded
  <2> QED
    BY <2>2, <2>5, <2>6
<1>10. ASSUME NEW p \in Proc, AppendLegacy(p)
      PROVE  Goal
  <2>2. /\ pc' = [pc EXCEPT ![p] = "rename"] /\ UNCHANGED <<holder, val>>
        /\ Appends("legacy", val[p])
    BY <1>10, UnsignedAppends DEF AppendLegacy
  <2>3. holder = p
    BY <1>10, Inside DEF AppendLegacy
  <2>4. val[p] \in Version
    BY <1>10 DEF AppendLegacy, Recorded, WritePcs
  <2>6. ASSUME pc' = [pc EXCEPT ![p] = "rename"], UNCHANGED val, Appends("legacy", val[p])
        PROVE  Goal
    <3>1. Recorded(p)'
      <4>1. log' # <<>> /\ log'[Len(log')].kind = "legacy" /\ log'[Len(log')].val = val[p]
        BY <2>6, AppendsLast
      <4> QED
        BY <2>4, <2>6, <4>1 DEF Recorded, TypeOK, ProcTypes
    <3>2. \A q \in Proc \ {p} : pc'[q] = pc[q] /\ val'[q] = val[q]
      BY <2>6 DEF TypeOK, ProcTypes
    <3> QED
      BY <2>3, <3>1, <3>2, OthersRecorded
  <2> QED
    BY <2>2, <2>6
<1>11. ASSUME NEW p \in Proc, AppendDelegated(p)
      PROVE  Goal
  <2> DEFINE k == IF cache[p].key # 0 THEN cache[p] ELSE Fetched
  <2>1. val[p] \in Nat /\ 0 \in 0..MaxEpoch /\ k \in CachedKey
    BY KeyTypes, ValTypes DEF TypeOK
  <2>2. \/ Return(p) /\ UNCHANGED log
        \/ /\ pc' = [pc EXCEPT ![p] = "anchor"] /\ UNCHANGED <<holder, val>>
           /\ Appends("write", val[p])
    <3>1. SignedAppend(p, k, "write", val[p], 0, "anchor")
      BY <1>11 DEF AppendDelegated
    <3> HIDE DEF k
    <3> QED
      BY <2>1, <3>1, SignedAppends
  <2>3. holder = p
    BY <1>11, Inside DEF AppendDelegated
  <2>4. val[p] \in Version
    BY <1>11 DEF AppendDelegated, Recorded, WritePcs
  <2>5. ASSUME Return(p), UNCHANGED log
        PROVE  Goal
    <3>1. Recorded(p)'
      BY <2>5 DEF Return, TypeOK, ProcTypes, Recorded, WritePcs
    <3>2. \A q \in Proc \ {p} : pc'[q] = pc[q] /\ val'[q] = val[q]
      BY <2>5 DEF Return, TypeOK, ProcTypes
    <3> QED
      BY <2>3, <3>1, <3>2, OthersRecorded
  <2>6. ASSUME pc' = [pc EXCEPT ![p] = "anchor"], UNCHANGED val, Appends("write", val[p])
        PROVE  Goal
    <3>1. Recorded(p)'
      <4>1. log' # <<>> /\ log'[Len(log')].kind = "write" /\ log'[Len(log')].val = val[p]
        BY <2>6, AppendsLast
      <4> QED
        BY <2>4, <2>6, <4>1 DEF Recorded, TypeOK, ProcTypes
    <3>2. \A q \in Proc \ {p} : pc'[q] = pc[q] /\ val'[q] = val[q]
      BY <2>6 DEF TypeOK, ProcTypes
    <3> QED
      BY <2>3, <3>1, <3>2, OthersRecorded
  <2> QED
    BY <2>2, <2>5, <2>6
<1>12. ASSUME NEW p \in Proc, AppendUnreachable(p)
      PROVE  Goal
  <2>2. /\ pc' = [pc EXCEPT ![p] = "rename"] /\ UNCHANGED <<holder, val>>
        /\ Appends("write", val[p])
    BY <1>12, UnsignedAppends DEF AppendUnreachable
  <2>3. holder = p
    BY <1>12, Inside DEF AppendUnreachable
  <2>4. val[p] \in Version
    BY <1>12 DEF AppendUnreachable, Recorded, WritePcs
  <2>6. ASSUME pc' = [pc EXCEPT ![p] = "rename"], UNCHANGED val, Appends("write", val[p])
        PROVE  Goal
    <3>1. Recorded(p)'
      <4>1. log' # <<>> /\ log'[Len(log')].kind = "write" /\ log'[Len(log')].val = val[p]
        BY <2>6, AppendsLast
      <4> QED
        BY <2>4, <2>6, <4>1 DEF Recorded, TypeOK, ProcTypes
    <3>2. \A q \in Proc \ {p} : pc'[q] = pc[q] /\ val'[q] = val[q]
      BY <2>6 DEF TypeOK, ProcTypes
    <3> QED
      BY <2>3, <3>1, <3>2, OthersRecorded
  <2> QED
    BY <2>2, <2>6
<1>13. ASSUME NEW p \in Proc, WriteAnchor(p)
      PROVE  Goal
  <2>1. \A q \in Proc \ {p} : pc'[q] = pc[q] /\ val'[q] = val[q]
    BY <1>13 DEF WriteAnchor, Goto, TypeOK, ProcTypes
  <2>2. UNCHANGED log
    BY <1>13 DEF WriteAnchor
  <2>3. Recorded(p)'
    BY <1>13, <2>2 DEF WriteAnchor, Goto, TypeOK, ProcTypes, Recorded, WritePcs
  <2> QED
    BY <2>1, <2>2, <2>3, OthersRecorded
<1>14. ASSUME NEW p \in Proc, BumpCounter(p)
      PROVE  Goal
  <2>1. \A q \in Proc \ {p} : pc'[q] = pc[q] /\ val'[q] = val[q]
    BY <1>14 DEF BumpCounter, Goto, TypeOK, ProcTypes
  <2>2. UNCHANGED log
    BY <1>14 DEF BumpCounter
  <2>3. Recorded(p)'
    BY <1>14, <2>2 DEF BumpCounter, Goto, TypeOK, ProcTypes, Recorded, WritePcs
  <2> QED
    BY <2>1, <2>2, <2>3, OthersRecorded
<1>15. ASSUME NEW p \in Proc, Rename(p)
      PROVE  Goal
  <2>1. \A q \in Proc \ {p} : pc'[q] = pc[q] /\ val'[q] = val[q]
    BY <1>15 DEF Rename, Return, TypeOK, ProcTypes
  <2>2. UNCHANGED log
    BY <1>15 DEF Rename
  <2>3. Recorded(p)'
    BY <1>15, <2>2 DEF Rename, Return, TypeOK, ProcTypes, Recorded, WritePcs
  <2> QED
    BY <2>1, <2>2, <2>3, OthersRecorded
<1>16. ASSUME NEW p \in Proc, StoreKey(p)
      PROVE  Goal
  <2>1. \A q \in Proc \ {p} : pc'[q] = pc[q] /\ val'[q] = val[q]
    BY <1>16 DEF StoreKey, Goto, TypeOK, ProcTypes
  <2>2. UNCHANGED log
    BY <1>16 DEF StoreKey
  <2>3. Recorded(p)'
    BY <1>16, <2>2 DEF StoreKey, Goto, TypeOK, ProcTypes, Recorded, WritePcs
  <2> QED
    BY <2>1, <2>2, <2>3, OthersRecorded
<1>17. ASSUME NEW p \in Proc, AppendMarker(p)
      PROVE  Goal
  <2>1. keys[pointer + 1] \in Nat /\ pointer + 1 \in 0..MaxEpoch /\ HmacKey(p) \in CachedKey
    <3>1. pointer + 1 \in Epoch
      BY <1>17 DEF AppendMarker, RotationBounded, TypeOK, Epoch
    <3> QED
      BY <3>1, KeyTypes DEF TypeOK, Epoch, Key
  <2>2. \/ Return(p) /\ UNCHANGED log
        \/ /\ pc' = [pc EXCEPT ![p] = "pointer"] /\ UNCHANGED <<holder, val>>
           /\ Appends("rotate", keys[pointer + 1])
    <3>1. SignedAppend(p, HmacKey(p), "rotate", keys[pointer + 1], pointer + 1, "pointer")
      BY <1>17 DEF AppendMarker
    <3> QED
      BY <2>1, <3>1, SignedAppends
  <2>3. holder = p
    BY <1>17, Inside DEF AppendMarker
  <2>5. ASSUME Return(p), UNCHANGED log
        PROVE  Goal
    <3>1. Recorded(p)'
      BY <2>5 DEF Return, TypeOK, ProcTypes, Recorded, WritePcs
    <3>2. \A q \in Proc \ {p} : pc'[q] = pc[q] /\ val'[q] = val[q]
      BY <2>5 DEF Return, TypeOK, ProcTypes
    <3> QED
      BY <2>3, <3>1, <3>2, OthersRecorded
  <2>6. ASSUME pc' = [pc EXCEPT ![p] = "pointer"], UNCHANGED val, Appends("rotate", keys[pointer + 1])
        PROVE  Goal
    <3>1. Recorded(p)'
      BY <2>6 DEF Recorded, WritePcs, TypeOK, ProcTypes
    <3>2. \A q \in Proc \ {p} : pc'[q] = pc[q] /\ val'[q] = val[q]
      BY <2>6 DEF TypeOK, ProcTypes
    <3> QED
      BY <2>3, <3>1, <3>2, OthersRecorded
  <2> QED
    BY <2>2, <2>5, <2>6
<1>18. ASSUME NEW p \in Proc, AdvancePointer(p)
      PROVE  Goal
  <2>1. \A q \in Proc \ {p} : pc'[q] = pc[q] /\ val'[q] = val[q]
    BY <1>18 DEF AdvancePointer, AdvanceTo, Goto, TypeOK, ProcTypes
  <2>2. UNCHANGED log
    BY <1>18 DEF AdvancePointer, AdvanceTo
  <2>3. Recorded(p)'
    BY <1>18, <2>2 DEF AdvancePointer, AdvanceTo, Goto, TypeOK, ProcTypes, Recorded, WritePcs
  <2> QED
    BY <2>1, <2>2, <2>3, OthersRecorded
<1>19. ASSUME NEW p \in Proc, Reanchor(p)
      PROVE  Goal
  <2>1. \A q \in Proc \ {p} : pc'[q] = pc[q] /\ val'[q] = val[q]
    BY <1>19 DEF Reanchor, Return, Goto, TypeOK, ProcTypes
  <2>2. UNCHANGED log
    BY <1>19 DEF Reanchor
  <2>3. Recorded(p)'
    BY <1>19, <2>2 DEF Reanchor, Return, Goto, TypeOK, ProcTypes, Recorded, WritePcs
  <2> QED
    BY <2>1, <2>2, <2>3, OthersRecorded
<1>20. ASSUME NEW p \in Proc, CountMarker(p)
      PROVE  Goal
  <2>1. \A q \in Proc \ {p} : pc'[q] = pc[q] /\ val'[q] = val[q]
    BY <1>20 DEF CountMarker, Return, TypeOK, ProcTypes
  <2>2. UNCHANGED log
    BY <1>20 DEF CountMarker
  <2>3. Recorded(p)'
    BY <1>20, <2>2 DEF CountMarker, Return, TypeOK, ProcTypes, Recorded, WritePcs
  <2> QED
    BY <2>1, <2>2, <2>3, OthersRecorded
<1>21. ASSUME NEW p \in Proc, CompletePointer(p)
      PROVE  Goal
  <2>1. \A q \in Proc \ {p} : pc'[q] = pc[q] /\ val'[q] = val[q]
    BY <1>21 DEF CompletePointer, AdvanceTo, Return, Goto, TypeOK, ProcTypes
  <2>2. UNCHANGED log
    BY <1>21 DEF CompletePointer, AdvanceTo
  <2>3. Recorded(p)'
    BY <1>21, <2>2 DEF CompletePointer, AdvanceTo, Return, Goto, TypeOK, ProcTypes, Recorded, WritePcs
  <2> QED
    BY <2>1, <2>2, <2>3, OthersRecorded
<1>22. CASE UNCHANGED vars
  BY <1>22 DEF vars, Recorded
<1> QED
  BY <1>1, <1>2, <1>3, <1>4, <1>5, <1>6, <1>7, <1>8, <1>9, <1>10, <1>11,
     <1>12, <1>13, <1>14, <1>15, <1>16, <1>17, <1>18, <1>19, <1>20, <1>21,
     <1>22 DEF Next, Step

\* The records are finitely many positions of the log.
LEMMA WritesFinite ==
  ASSUME log \in Seq(Entry)
  PROVE  IsFiniteSet(Writes) /\ Cardinality(Writes) \in Nat /\ Writes \subseteq 1..Len(log)
<1>1. IsFiniteSet(1..Len(log)) /\ Writes \in SUBSET (1..Len(log))
  BY FS_Interval DEF Writes
<1>2. IsFiniteSet(Writes)
  BY <1>1, FS_Subset
<1> QED
  BY <1>1, <1>2, FS_CardinalityType

\* An entry that records a content is the newest record, any other changes none.
LEMMA AppendRecords ==
  ASSUME log \in Seq(Entry), NEW e \in Entry, log' = Append(log, e)
  PROVE  IF e.kind \in {"write", "legacy"}
         THEN Cardinality(Writes)' = Cardinality(Writes) + 1 /\ Newest' = e.val
         ELSE Cardinality(Writes)' = Cardinality(Writes) /\ Newest' = Newest
<1>1. /\ Len(log') = Len(log) + 1 /\ log'[Len(log) + 1] = e
      /\ \A i \in 1..Len(log) : log'[i] = log[i]
      /\ \A i : i \in 1..Len(log') <=> i \in 1..Len(log) \/ i = Len(log) + 1
  OBVIOUS
<1>2. CASE e.kind \in {"write", "legacy"}
  <2>1. Writes' = Writes \cup {Len(log) + 1} /\ Len(log) + 1 \notin Writes
    BY <1>1, <1>2 DEF Writes
  <2>2. Cardinality(Writes)' = Cardinality(Writes) + 1
    BY <2>1, WritesFinite, FS_AddElement
  <2>3. Max(Writes') = Len(log) + 1
    <3>1. Len(log) + 1 \in Writes' /\ \A y \in Writes' : Len(log) + 1 >= y
      BY <2>1, WritesFinite
    <3>2. \A x \in Writes' : (\A y \in Writes' : x >= y) => x = Len(log) + 1
      BY <2>1, <3>1, WritesFinite
    <3> QED
      BY <3>1, <3>2, Zenon DEF Max
  <2>4. Newest' = e.val
    BY <1>1, <2>1, <2>3 DEF Newest
  <2> QED
    BY <1>2, <2>2, <2>4
<1>3. CASE e.kind \notin {"write", "legacy"}
  <2>1. Writes' = Writes
    BY <1>1, <1>3 DEF Writes
  <2>2. CASE Writes = {}
    BY <1>3, <2>1, <2>2 DEF Newest
  <2>3. CASE Writes # {}
    <3>1. Max(Writes) \in Writes
      <4>1. Len(log) \in Nat /\ Writes \in SUBSET (1..Len(log))
        BY WritesFinite
      <4> QED
        BY <2>3, <4>1, LastPosition
    <3>2. log'[Max(Writes)] = log[Max(Writes)]
      BY <1>1, <3>1, WritesFinite
    <3> QED
      BY <1>3, <2>1, <2>3, <3>2 DEF Newest
  <2> QED
    BY <2>2, <2>3
<1> QED
  BY <1>2, <1>3

\* When the last entry records a content, it is the newest record.
LEMMA LastIsNewest ==
  ASSUME log \in Seq(Entry), log # <<>>, log[Len(log)].kind \in {"write", "legacy"}
  PROVE  Cardinality(Writes) > 0 /\ Newest = log[Len(log)].val
<1>1. Len(log) \in Writes /\ \A y \in Writes : Len(log) >= y
  BY DEF Writes
<1>2. \A x \in Writes : (\A y \in Writes : x >= y) => x = Len(log)
  BY <1>1, WritesFinite
<1>3. Max(Writes) = Len(log)
  BY <1>1, <1>2, Zenon DEF Max
<1>4. Cardinality(Writes) # 0
  BY <1>1, WritesFinite, FS_EmptySet
<1> QED
  BY <1>1, <1>3, <1>4, WritesFinite DEF Newest

\* An append is a record, or nothing, to the write-ahead discipline.
LEMMA AppendRefines ==
  ASSUME TypeOK, NEW kind, NEW v, Appends(kind, v), UNCHANGED file,
         kind \in {"write", "legacy"} => v \in Version
  PROVE  WA!Next \/ UNCHANGED <<Cardinality(Writes), Newest, file>>
<1>1. PICK e \in Entry : e.kind = kind /\ e.val = v /\ log' = Append(log, e)
  BY DEF Appends
<1>2. log \in Seq(Entry)
  BY DEF TypeOK
<1> QED
  BY <1>1, <1>2, AppendRecords DEF WA!Next, WA!Record

\* Every step is one of the write-ahead discipline, or nothing to it.
LEMMA WriteAheadStep ==
  ASSUME ChainInv, RecordInv, [Next]_vars
  PROVE  WA!Next \/ UNCHANGED <<Cardinality(Writes), Newest, file>>
<1> DEFINE Goal == WA!Next \/ UNCHANGED <<Cardinality(Writes), Newest, file>>
<1>0. ASSUME UNCHANGED <<log, file>>
      PROVE  Goal
  BY <1>0 DEF Writes, Newest
<1> USE ConstantsAssumption DEF logVars, chainVars, procVars, boundVars
<1> USE DEF ChainInv, RecordInv
<1>1. ASSUME NEW p \in Proc, StartProc(p)
      PROVE  Goal
  BY <1>0, <1>1 DEF StartProc
<1>2. ASSUME NEW p \in Proc, Crash(p)
      PROVE  Goal
  BY <1>0, <1>2 DEF Crash
<1>3. ASSUME NEW p \in Proc, Abort(p)
      PROVE  Goal
  BY <1>0, <1>3 DEF Abort
<1>4. ASSUME NEW p \in Proc, NEW v \in Version, BeginWrite(p, v)
      PROVE  Goal
  BY <1>0, <1>4 DEF BeginWrite
<1>5. ASSUME NEW p \in Proc, BeginRotate(p)
      PROVE  Goal
  BY <1>0, <1>5 DEF BeginRotate
<1>6. ASSUME NEW p \in Proc, RefreshAnchor(p)
      PROVE  Goal
  BY <1>0, <1>6 DEF RefreshAnchor
<1>7. ASSUME NEW p \in Proc, EnsureKey(p)
      PROVE  Goal
  BY <1>0, <1>7 DEF EnsureKey
<1>8. ASSUME NEW p \in Proc, AppendBackup(p)
      PROVE  Goal
  <2>1. file \in Nat /\ 0 \in 0..MaxEpoch /\ cache[p] \in CachedKey
    BY KeyTypes DEF TypeOK
  <2>2. \/ Return(p) /\ UNCHANGED log
        \/ /\ pc' = [pc EXCEPT ![p] = "append"] /\ UNCHANGED <<holder, val>>
           /\ Appends("backup", file)
    <3>1. SignedAppend(p, cache[p], "backup", file, 0, "append")
      BY <1>8 DEF AppendBackup
    <3> QED
      BY <2>1, <3>1, SignedAppends
  <2>3. UNCHANGED file
    BY <1>8 DEF AppendBackup
  <2> QED
    BY <1>0, <2>2, <2>3, AppendRefines
<1>9. ASSUME NEW p \in Proc, AppendWrite(p)
      PROVE  Goal
  <2>1. val[p] \in Nat /\ 0 \in 0..MaxEpoch /\ cache[p] \in CachedKey
    BY KeyTypes, ValTypes DEF TypeOK
  <2>2. \/ Return(p) /\ UNCHANGED log
        \/ /\ pc' = [pc EXCEPT ![p] = "anchor"] /\ UNCHANGED <<holder, val>>
           /\ Appends("write", val[p])
    <3>1. SignedAppend(p, cache[p], "write", val[p], 0, "anchor")
      BY <1>9 DEF AppendWrite
    <3> QED
      BY <2>1, <3>1, SignedAppends
  <2>3. UNCHANGED file /\ val[p] \in Version
    BY <1>9 DEF AppendWrite, Recorded, WritePcs
  <2> QED
    BY <1>0, <2>2, <2>3, AppendRefines
<1>10. ASSUME NEW p \in Proc, AppendLegacy(p)
      PROVE  Goal
  <2>2. /\ pc' = [pc EXCEPT ![p] = "rename"] /\ UNCHANGED <<holder, val>>
        /\ Appends("legacy", val[p])
    BY <1>10, UnsignedAppends DEF AppendLegacy
  <2>3. UNCHANGED file /\ val[p] \in Version
    BY <1>10 DEF AppendLegacy, Recorded, WritePcs
  <2> QED
    BY <1>0, <2>2, <2>3, AppendRefines
<1>11. ASSUME NEW p \in Proc, AppendDelegated(p)
      PROVE  Goal
  <2> DEFINE k == IF cache[p].key # 0 THEN cache[p] ELSE Fetched
  <2>1. val[p] \in Nat /\ 0 \in 0..MaxEpoch /\ k \in CachedKey
    BY KeyTypes, ValTypes DEF TypeOK
  <2>2. \/ Return(p) /\ UNCHANGED log
        \/ /\ pc' = [pc EXCEPT ![p] = "anchor"] /\ UNCHANGED <<holder, val>>
           /\ Appends("write", val[p])
    <3>1. SignedAppend(p, k, "write", val[p], 0, "anchor")
      BY <1>11 DEF AppendDelegated
    <3> HIDE DEF k
    <3> QED
      BY <2>1, <3>1, SignedAppends
  <2>3. UNCHANGED file /\ val[p] \in Version
    BY <1>11 DEF AppendDelegated, Recorded, WritePcs
  <2> QED
    BY <1>0, <2>2, <2>3, AppendRefines
<1>12. ASSUME NEW p \in Proc, AppendUnreachable(p)
      PROVE  Goal
  <2>2. /\ pc' = [pc EXCEPT ![p] = "rename"] /\ UNCHANGED <<holder, val>>
        /\ Appends("write", val[p])
    BY <1>12, UnsignedAppends DEF AppendUnreachable
  <2>3. UNCHANGED file /\ val[p] \in Version
    BY <1>12 DEF AppendUnreachable, Recorded, WritePcs
  <2> QED
    BY <1>0, <2>2, <2>3, AppendRefines
<1>13. ASSUME NEW p \in Proc, WriteAnchor(p)
      PROVE  Goal
  BY <1>0, <1>13 DEF WriteAnchor
<1>14. ASSUME NEW p \in Proc, BumpCounter(p)
      PROVE  Goal
  BY <1>0, <1>14 DEF BumpCounter
<1>15. ASSUME NEW p \in Proc, Rename(p)
      PROVE  Goal
  <2>1. file' = val[p] /\ UNCHANGED log
    BY <1>15 DEF Rename
  <2>2. Cardinality(Writes) > 0 /\ Newest = val[p]
    BY <1>15, LastIsNewest DEF Rename, Recorded, TypeOK
  <2>3. UNCHANGED <<Cardinality(Writes), Newest>>
    BY <2>1 DEF Writes, Newest
  <2> QED
    BY <2>1, <2>2, <2>3 DEF WA!Next, WA!Apply
<1>16. ASSUME NEW p \in Proc, StoreKey(p)
      PROVE  Goal
  BY <1>0, <1>16 DEF StoreKey
<1>17. ASSUME NEW p \in Proc, AppendMarker(p)
      PROVE  Goal
  <2>1. keys[pointer + 1] \in Nat /\ pointer + 1 \in 0..MaxEpoch /\ HmacKey(p) \in CachedKey
    <3>1. pointer + 1 \in Epoch
      BY <1>17 DEF AppendMarker, RotationBounded, TypeOK, Epoch
    <3> QED
      BY <3>1, KeyTypes DEF TypeOK, Epoch, Key
  <2>2. \/ Return(p) /\ UNCHANGED log
        \/ /\ pc' = [pc EXCEPT ![p] = "pointer"] /\ UNCHANGED <<holder, val>>
           /\ Appends("rotate", keys[pointer + 1])
    <3>1. SignedAppend(p, HmacKey(p), "rotate", keys[pointer + 1], pointer + 1, "pointer")
      BY <1>17 DEF AppendMarker
    <3> QED
      BY <2>1, <3>1, SignedAppends
  <2>3. UNCHANGED file
    BY <1>17 DEF AppendMarker
  <2> QED
    BY <1>0, <2>2, <2>3, AppendRefines
<1>18. ASSUME NEW p \in Proc, AdvancePointer(p)
      PROVE  Goal
  BY <1>0, <1>18 DEF AdvancePointer, AdvanceTo
<1>19. ASSUME NEW p \in Proc, Reanchor(p)
      PROVE  Goal
  BY <1>0, <1>19 DEF Reanchor
<1>20. ASSUME NEW p \in Proc, CountMarker(p)
      PROVE  Goal
  BY <1>0, <1>20 DEF CountMarker
<1>21. ASSUME NEW p \in Proc, CompletePointer(p)
      PROVE  Goal
  BY <1>0, <1>21 DEF CompletePointer, AdvanceTo
<1>22. CASE UNCHANGED vars
  BY <1>0, <1>22 DEF vars
<1> QED
  BY <1>1, <1>2, <1>3, <1>4, <1>5, <1>6, <1>7, <1>8, <1>9, <1>10, <1>11,
     <1>12, <1>13, <1>14, <1>15, <1>16, <1>17, <1>18, <1>19, <1>20, <1>21,
     <1>22 DEF Next, Step

\* The log and the audited file implement the write-ahead discipline: whatever
\* crashes between the record and the rename, the file only ever takes the content
\* most recently recorded (RecordsFirst; signed.go:375-443, write.go:90-121).
THEOREM RecordedFirst == Spec => RecordsFirst
<1>1. Init => RecordInv /\ WA!Init
  <2> SUFFICES ASSUME Init
               PROVE  RecordInv /\ WA!Init
    OBVIOUS
  <2>1. RecordInv
    BY DEF Init, RecordInv, Recorded, WritePcs
  <2>2. Writes = {}
    BY DEF Init, Writes
  <2> QED
    BY <2>1, <2>2, FS_EmptySet DEF Init, WA!Init, Newest
<1>2. ChainInv /\ RecordInv /\ [Next]_vars => RecordInv'
  BY RecordStep
<1>3. ChainInv /\ RecordInv /\ [Next]_vars
        => [WA!Next]_<<Cardinality(Writes), Newest, file>>
  BY WriteAheadStep
<1> QED
  BY <1>1, <1>2, <1>3, ChainInductive, PTL DEF Spec, RecordsFirst, WA!Spec

=============================================================================
