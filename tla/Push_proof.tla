----------------------------- MODULE Push_proof -----------------------------
(***************************************************************************)
(* The device store and the outbox, for every set of devices, messages and *)
(* notifications, any number of crashes and of failed transactions.        *)
(***************************************************************************)
EXTENDS Push, FiniteSetTheorems, TLAPS

USE PushAssumption

-----------------------------------------------------------------------------
(* The type invariant, by groups of variables.                             *)

StoreType ==
  /\ status \in [Device -> {"new", "active", "revoked"}] /\ name \in [Device -> Name]
  /\ cred \in [Device -> Serial] /\ revoked \subseteq Serial /\ serial \in 1..(MaxSerial + 1)
  /\ cached \in [Device -> Record]

BoxType ==
  /\ outbox \subseteq Entry /\ due \subseteq Key /\ aged \subseteq Key
  /\ seen \subseteq Msg /\ window \in [Device -> 0..Limit]

CallType ==
  /\ callPc \in [Call -> {"idle", "list", "admit", "enqueue", "done"}]
  /\ callMsg \in [Call -> Msg]
  /\ callTodo \in [Call -> SUBSET Target] /\ callCur \in [Call -> SUBSET Target]

RunType ==
  /\ runPc \in {"idle", "next", "send", "accepted", "mark", "prune", "drop", "retry"}
  /\ batch \subseteq Entry /\ cur \subseteq Entry

RestType ==
  /\ up \in BOOLEAN /\ crashes \in 0..MaxCrashes /\ faults \in 0..MaxFaults
  /\ queued \subseteq Key /\ settled \subseteq Key /\ late \in [Device -> 0..LateCap]

LEMMA TypeParts ==
  /\ TypeOK <=> StoreType /\ BoxType /\ CallType /\ RunType /\ RestType
  /\ TypeOK' <=> StoreType' /\ BoxType' /\ CallType' /\ RunType' /\ RestType'
BY DEF TypeOK, StoreType, BoxType, CallType, RunType, RestType

\* Every variable a step leaves alone keeps its type.
LEMMA Kept ==
  ASSUME TypeOK
  PROVE  /\ UNCHANGED <<storeVars, cached>> => StoreType'
         /\ UNCHANGED <<boxVars, seen, window>> => BoxType'
         /\ UNCHANGED callVars => CallType'
         /\ UNCHANGED runVars => RunType'
         /\ UNCHANGED <<up, bounds, histVars>> => RestType'
BY TypeParts DEF StoreType, BoxType, CallType, RunType, RestType, storeVars, boxVars, callVars,
   runVars, bounds, histVars

LEMMA InitTyping == Init => TypeOK
<1> SUFFICES ASSUME Init PROVE TypeOK
  OBVIOUS
<1>1. StoreType
  BY DEF Init, StoreType, NotLoaded, Record, Serial
<1>2. BoxType /\ CallType /\ RunType
  BY DEF Init, BoxType, CallType, RunType
<1>3. RestType
  BY DEF Init, RestType, LateCap
<1> QED
  BY <1>1, <1>2, <1>3, TypeParts

\* The device store, as any process changes it.
LEMMA RevokeTyping ==
  ASSUME StoreType, NEW D \in SUBSET Device, RevokeAt(D), UNCHANGED cached \/ cached' = Current'
  PROVE  StoreType'
<1>1. /\ status' \in [Device -> {"new", "active", "revoked"}] /\ name' \in [Device -> Name]
      /\ cred' \in [Device -> Serial] /\ serial' \in 1..(MaxSerial + 1)
  BY DEF StoreType, RevokeAt, Serial
<1>2. revoked' \subseteq Serial
  BY DEF StoreType, RevokeAt
<1>3. cached' \in [Device -> Record]
  BY <1>1 DEF StoreType, Current, Record
<1> QED
  BY <1>1, <1>2, <1>3 DEF StoreType

LEMMA StoreTyping ==
  ASSUME TypeOK, \/ \E d \in Device : Enroll(d) \/ Rotate(d) \/ Revoke(d)
                 \/ RevokeAll
  PROVE  TypeOK'
<1>1. StoreType /\ UnchangedButStore
  BY TypeParts DEF Enroll, Rotate, Revoke, RevokeAll
<1>2. BoxType' /\ CallType' /\ RunType' /\ RestType'
  BY <1>1, Kept DEF UnchangedButStore
<1>3. ASSUME NEW d \in Device, Enroll(d) \/ Rotate(d)
      PROVE  StoreType'
  <2>1. serial <= MaxSerial /\ serial' = serial + 1 /\ cred' = [cred EXCEPT ![d] = serial]
    BY <1>3 DEF Enroll, Rotate, Mint
  <2>2. serial \in Serial /\ serial' \in 1..(MaxSerial + 1)
    BY <1>1, <2>1 DEF StoreType, Serial
  <2>3. cred' \in [Device -> Serial]
    BY <1>1, <2>1, <2>2 DEF StoreType
  <2>4. revoked' \subseteq Serial /\ name' = name /\ cached' = cached
    BY <1>1, <1>3 DEF Enroll, Rotate, StoreType, UnchangedButStore
  <2>5. status' \in [Device -> {"new", "active", "revoked"}]
    BY <1>1, <1>3 DEF Enroll, Rotate, StoreType
  <2> QED
    BY <1>1, <2>2, <2>3, <2>4, <2>5 DEF StoreType
<1>4. ASSUME NEW d \in Device, Revoke(d)
      PROVE  StoreType'
  BY <1>1, <1>4, RevokeTyping DEF Revoke, UnchangedButStore
<1>5. ASSUME RevokeAll
      PROVE  StoreType'
  BY <1>1, <1>5, RevokeTyping DEF RevokeAll, UnchangedButStore
<1> QED
  BY <1>2, <1>3, <1>4, <1>5, TypeParts

\* Time.
LEMMA TimeTyping ==
  ASSUME TypeOK, \/ \E k \in Key : BackoffOver(k) \/ GrowOld(k)
                 \/ \E m \in Msg : DedupLapse(m)
                 \/ \E d \in Device : WindowEnds(d)
  PROVE  TypeOK'
<1>1. UNCHANGED <<storeVars, cached>> /\ UNCHANGED callVars /\ UNCHANGED runVars
      /\ UNCHANGED <<up, bounds, histVars>>
  BY DEF BackoffOver, GrowOld, DedupLapse, WindowEnds, boxVars
<1>2. BoxType
  BY TypeParts
<1>3. BoxType'
  BY <1>2 DEF BackoffOver, GrowOld, DedupLapse, WindowEnds, BoxType, boxVars
<1> QED
  BY <1>1, <1>3, Kept, TypeParts

\* POST /notify.
LEMMA CallTyping ==
  ASSUME TypeOK, NEW c \in Call, CallStep(c)
  PROVE  TypeOK'
<1>1. StoreType /\ BoxType /\ CallType /\ RunType /\ RestType
  BY TypeParts
<1>2. CASE Notify(c)
  <2>1. UNCHANGED <<storeVars, cached>> /\ UNCHANGED <<boxVars, seen, window>>
        /\ UNCHANGED runVars
    BY <1>2 DEF Notify
  <2>2. CallType'
    BY <1>1, <1>2 DEF Notify, CallType
  <2>3. RestType'
    BY <1>1, <1>2 DEF Notify, RestType, Fault, histVars
  <2> QED
    BY <2>1, <2>2, <2>3, Kept, TypeParts
<1>3. CASE ListDevices(c)
  <2>1. UNCHANGED <<boxVars, seen, window>> /\ UNCHANGED runVars
    BY <1>3 DEF ListDevices
  <2>2. StoreType'
    BY <1>1, <1>3 DEF ListDevices, List, Current, StoreType, Record, storeVars
  <2>3. CallType'
    <3>1. {[dev |-> d, token |-> cached'[d].cred] :
             d \in {x \in Device : cached'[x].status = "active"}} \in SUBSET Target
      BY <2>2 DEF StoreType, Record, Target
    <3> QED
      BY <1>1, <1>3, <3>1 DEF ListDevices, CallType
  <2>4. RestType'
    BY <1>1, <1>3 DEF ListDevices, List, RestType, Fault, histVars
  <2> QED
    BY <2>1, <2>2, <2>3, <2>4, Kept, TypeParts
<1>4. CASE NextDevice(c)
  <2>1. UNCHANGED <<storeVars, cached>> /\ UNCHANGED runVars
    BY <1>4 DEF NextDevice
  <2>2. ASSUME NEW t \in callTodo[c],
               \/ Admit(c, t)
               \/ UNCHANGED <<window, callPc, callCur>>
        PROVE  /\ window' \in [Device -> 0..Limit]
               /\ callPc' \in [Call -> {"idle", "list", "admit", "enqueue", "done"}]
               /\ callCur' \in [Call -> SUBSET Target]
    <3>1. t \in Target /\ t.dev \in Device
      BY <1>1 DEF CallType, Target
    <3>2. CASE Admit(c, t)
      <4>1. window' \in [Device -> 0..Limit]
        BY <1>1, <3>1, <3>2 DEF Admit, BoxType
      <4>2. callPc' \in [Call -> {"idle", "list", "admit", "enqueue", "done"}]
            /\ callCur' \in [Call -> SUBSET Target]
        BY <1>1, <3>1, <3>2 DEF Admit, CallType
      <4> QED
        BY <4>1, <4>2
    <3> QED
      BY <1>1, <2>2, <3>2 DEF BoxType, CallType
  <2>3. /\ window' \in [Device -> 0..Limit]
        /\ callPc' \in [Call -> {"idle", "list", "admit", "enqueue", "done"}]
        /\ callCur' \in [Call -> SUBSET Target]
        /\ callTodo' \in [Call -> SUBSET Target] /\ callMsg' = callMsg
    <3>1. callMsg' = callMsg
      BY <1>4 DEF NextDevice
    <3>2. CASE \E t \in callTodo[c] :
                 /\ callTodo' = [callTodo EXCEPT ![c] = @ \ {t}]
                 /\ Admit(c, t) \/ UNCHANGED <<window, callPc, callCur>>
      <4>1. callTodo' \in [Call -> SUBSET Target]
        BY <1>1, <3>2 DEF CallType
      <4> QED
        BY <2>2, <3>1, <3>2, <4>1
    <3>3. CASE callPc' = [callPc EXCEPT ![c] = "done"]
                 /\ UNCHANGED <<window, callTodo, callCur>>
      BY <1>1, <3>1, <3>3 DEF CallType, BoxType
    <3> QED
      BY <1>4, <3>2, <3>3 DEF NextDevice
  <2>4. BoxType' /\ CallType'
    BY <1>1, <1>4, <2>3 DEF NextDevice, BoxType, CallType, boxVars
  <2>5. RestType'
    BY <1>1, <1>4 DEF NextDevice, RestType, Fault, histVars
  <2> QED
    BY <2>1, <2>4, <2>5, Kept, TypeParts
<1>5. CASE Enqueue(c)
  <2>1. UNCHANGED <<storeVars, cached>> /\ UNCHANGED runVars
    BY <1>5 DEF Enqueue
  <2>2. CallType'
    BY <1>1, <1>5 DEF Enqueue, CallType
  <2>3. BoxType' /\ RestType'
    <3>1. CASE Fault /\ UNCHANGED <<boxVars, queued>>
      BY <1>1, <1>5, <3>1 DEF Enqueue, Fault, BoxType, RestType, boxVars
    <3>2. ASSUME NEW t \in callCur[c], NEW k, k = <<t.dev, callMsg[c]>>,
                 Put([key |-> k, token |-> t.token, attempts |-> 0]),
                 due' = due \cup {k}, aged' = aged \ {k},
                 queued' = queued \cup {k}, UNCHANGED faults
          PROVE  BoxType' /\ RestType'
      <4>1. k \in Key /\ [key |-> k, token |-> t.token, attempts |-> 0] \in Entry
        BY <1>1, <3>2 DEF CallType, Target, Key, Entry
      <4> QED
        BY <1>1, <1>5, <3>2, <4>1 DEF Enqueue, Put, Without, BoxType, RestType
    <3> QED
      BY <1>5, <3>1, <3>2 DEF Enqueue
  <2> QED
    BY <2>1, <2>2, <2>3, Kept, TypeParts
<1> QED
  BY <1>2, <1>3, <1>4, <1>5 DEF CallStep

\* The transactions of the runner.
LEMMA TransactTyping ==
  ASSUME TypeOK, DequeueSent \/ MarkSeen \/ Prune \/ Drop \/ WriteBack
  PROVE  TypeOK'
<1>1. StoreType /\ BoxType /\ CallType /\ RunType /\ RestType
  BY TypeParts
<1>2. /\ runPc' \in {"mark", "next", "drop"} /\ cur' \in {{}, cur}
      /\ UNCHANGED <<batch, settled, late>> /\ UnchangedByRunner
      /\ UNCHANGED faults \/ Fault
  BY DEF DequeueSent, MarkSeen, Prune, Drop, WriteBack, Transact
<1>3. RunType' /\ CallType' /\ RestType'
  <2>1. RunType'
    BY <1>1, <1>2 DEF RunType
  <2>2. UNCHANGED callVars
    BY <1>2 DEF UnchangedByRunner
  <2>3. RestType'
    BY <1>1, <1>2 DEF RestType, UnchangedByRunner, Fault
  <2> QED
    BY <2>1, <2>2, <2>3, Kept
<1>4. UNCHANGED window
  BY <1>2 DEF UnchangedByRunner
<1>5. CASE Fault /\ UNCHANGED <<storeVars, cached, boxVars, seen>>
  BY <1>3, <1>4, <1>5, Kept, TypeParts
<1>6. ASSUME NEW e \in cur, OutOfBox(e) \/ BackInBox(e) \/ Mark(e) \/ RevokeByID(e)
      PROVE  StoreType' /\ BoxType'
  <2>1. e \in Entry
    BY <1>1, <1>6 DEF RunType
  <2>2. CASE OutOfBox(e)
    BY <1>1, <1>4, <2>2, Kept DEF OutOfBox, Dequeue, Without, BoxType
  <2>3. CASE BackInBox(e)
    <3>1. [e EXCEPT !.attempts = IF @ < MaxAttempts THEN @ + 1 ELSE @] \in Entry
      BY <2>1 DEF Entry
    <3> QED
      BY <1>1, <1>4, <2>3, <3>1, Kept DEF BackInBox, Retry, Put, Without, BoxType
  <2>4. CASE Mark(e)
    <3>1. e.key[2] \in Msg
      BY <2>1 DEF Entry, Key
    <3> QED
      BY <1>1, <1>4, <2>4, <3>1, Kept DEF Mark, BoxType, boxVars
  <2>5. CASE RevokeByID(e)
    <3>1. {e.key[1]} \in SUBSET Device
      BY <2>1 DEF Entry, Key
    <3>2. StoreType'
      BY <1>1, <2>5, <3>1, RevokeTyping DEF RevokeByID
    <3> QED
      BY <1>4, <2>5, <3>2, Kept DEF RevokeByID
  <2> QED
    BY <1>6, <2>2, <2>3, <2>4, <2>5
<1> QED
  BY <1>3, <1>5, <1>6, TypeParts DEF DequeueSent, MarkSeen, Prune, Drop, WriteBack, Transact

\* The runner between its transactions.
LEMMA RunnerTyping ==
  ASSUME TypeOK, Scan \/ EndScan \/ NextEntry \/ Send
  PROVE  TypeOK'
<1>1. StoreType /\ BoxType /\ CallType /\ RunType /\ RestType
  BY TypeParts
<1>2. UNCHANGED callVars /\ UNCHANGED <<seen, window>> /\ UNCHANGED storeVars
      /\ UNCHANGED <<up, crashes, queued>>
  BY DEF Scan, EndScan, NextEntry, Send, UnchangedByRunner
<1>3. CASE Scan \/ EndScan
  <2>1. RunType'
    BY <1>1, <1>3 DEF Scan, EndScan, RunType, BoxType
  <2>2. UNCHANGED <<storeVars, cached>> /\ UNCHANGED <<boxVars, seen, window>>
        /\ UNCHANGED <<up, bounds, histVars>>
    BY <1>2, <1>3 DEF Scan, EndScan, bounds, histVars
  <2> QED
    BY <1>2, <2>1, <2>2, Kept, TypeParts
<1>4. CASE NextEntry
  <2>1. PICK e \in batch : /\ batch' = batch \ {e} /\ cur' = {e}
                           /\ SkipInactive(e) \/ NoGateway(e) \/ Attempt(e)
    BY <1>4 DEF NextEntry
  <2>2. e \in Entry /\ e.key \in Key
    BY <1>1, <2>1 DEF RunType, Entry
  <2>3. runPc' \in {"drop", "retry", "send"} /\ settled' \in {settled, settled \cup {e.key}}
        /\ UNCHANGED boxVars
    BY <2>1 DEF SkipInactive, NoGateway, Attempt
  <2>4. RunType' /\ BoxType'
    BY <1>1, <1>2, <2>1, <2>2, <2>3, Kept DEF RunType
  <2>5. StoreType'
    BY <1>1, <1>4 DEF NextEntry, List, Current, StoreType, Record, storeVars
  <2>6. RestType'
    BY <1>1, <1>2, <1>4, <2>2, <2>3 DEF NextEntry, List, Fault, RestType
  <2> QED
    BY <1>2, <2>4, <2>5, <2>6, Kept, TypeParts
<1>5. CASE Send
  <2>1. PICK e \in cur : /\ Request(e)
                         /\ runPc' \in {"accepted", "prune", "drop", "retry"}
                         /\ settled' \in {settled, settled \cup {e.key}}
    BY <1>5 DEF Send, Transient
  <2>2. e \in Entry /\ e.key \in Key /\ e.key[1] \in Device
    BY <1>1, <2>1 DEF RunType, Entry, Key
  <2>3. late' \in [Device -> 0..LateCap]
    BY <1>1, <2>1, <2>2 DEF Request, RestType, LateCap
  <2>4. RestType'
    <3>1. faults' = faults /\ settled' \subseteq Key
      BY <1>1, <1>5, <2>1, <2>2 DEF Send, RestType
    <3> QED
      BY <1>1, <1>2, <2>3, <3>1 DEF RestType
  <2>5. RunType'
    BY <1>1, <1>5, <2>1 DEF Send, RunType
  <2>6. UNCHANGED <<storeVars, cached>> /\ UNCHANGED <<boxVars, seen, window>>
    BY <1>2, <1>5 DEF Send
  <2> QED
    BY <1>2, <2>4, <2>5, <2>6, Kept, TypeParts
<1> QED
  BY <1>3, <1>4, <1>5

\* The daemon dies and is started again.
LEMMA DaemonTyping ==
  ASSUME TypeOK, DaemonCrash \/ DaemonStart
  PROVE  TypeOK'
<1>1. StoreType /\ BoxType /\ CallType /\ RunType /\ RestType
  BY TypeParts
<1>2. CASE DaemonCrash
  <2>1. BoxType'
    BY <1>2, Kept DEF DaemonCrash
  <2>2. StoreType'
    BY <1>1, <1>2 DEF DaemonCrash, StoreType, NotLoaded, Record, Serial, storeVars
  <2>3. CallType' /\ RunType'
    BY <1>1, <1>2 DEF DaemonCrash, CallType, RunType
  <2>4. RestType'
    <3>1. crashes' \in 0..MaxCrashes
      BY <1>1, <1>2 DEF DaemonCrash, RestType
    <3>2. up' = FALSE /\ UNCHANGED <<faults, queued, settled, late>>
      BY <1>2 DEF DaemonCrash, histVars
    <3> QED
      BY <1>1, <3>1, <3>2 DEF RestType
  <2> QED
    BY <2>1, <2>2, <2>3, <2>4, TypeParts
<1>3. CASE DaemonStart
  <2>1. UNCHANGED <<storeVars, cached>> /\ UNCHANGED <<boxVars, seen, window>>
        /\ UNCHANGED callVars /\ UNCHANGED runVars
    BY <1>3 DEF DaemonStart
  <2>2. RestType'
    BY <1>1, <1>3 DEF DaemonStart, RestType, bounds, histVars
  <2> QED
    BY <2>1, <2>2, Kept, TypeParts
<1> QED
  BY <1>2, <1>3

LEMMA StepTyping == TypeOK /\ [Next]_vars => TypeOK'
<1> SUFFICES ASSUME TypeOK, [Next]_vars PROVE TypeOK'
  OBVIOUS
<1>1. CASE UNCHANGED vars
  <2>1. UNCHANGED <<storeVars, cached>> /\ UNCHANGED <<boxVars, seen, window>>
        /\ UNCHANGED callVars /\ UNCHANGED runVars /\ UNCHANGED <<up, bounds, histVars>>
    BY <1>1 DEF vars
  <2> QED
    BY <2>1, Kept, TypeParts
<1>2. CASE Next
  BY <1>2, StoreTyping, TimeTyping, CallTyping, TransactTyping, RunnerTyping, DaemonTyping
     DEF Next, RunnerStep
<1> QED
  BY <1>1, <1>2

\* The type invariant holds, and with it the ceiling: no device is admitted more wakes
\* in a window than the limit, whatever fan-outs run beside each other
\* (outbox.go:330-372, one transaction for check and count).
THEOREM PushTyping == Spec => []TypeOK
BY InitTyping, StepTyping, PTL DEF Spec

-----------------------------------------------------------------------------
(* Certificates.                                                           *)

LEMMA RevokeKeepsCerts ==
  ASSUME TypeOK, OneLiveCert, NEW D \in SUBSET Device, RevokeAt(D)
  PROVE  OneLiveCert'
<1>1. /\ serial' = serial /\ name' = name
      /\ revoked' = revoked \cup {cred[d] : d \in {x \in D : Active(x)}}
      /\ \A d \in Device : Active(d)' <=> Active(d) /\ d \notin D
      /\ \A d \in Device : d \notin D => cred'[d] = cred[d]
  BY DEF RevokeAt, Active, TypeOK
<1>2. ASSUME NEW s \in 1..(serial - 1)
      PROVE  s \in revoked' \/ \E d \in Device : Active(d)' /\ cred'[d] = s
  <2>1. CASE s \in revoked
    BY <1>1, <2>1
  <2>2. ASSUME NEW d \in Device, Active(d), cred[d] = s
        PROVE  s \in revoked' \/ (Active(d)' /\ cred'[d] = s)
    BY <1>1, <2>2
  <2> QED
    BY <2>1, <2>2 DEF OneLiveCert
<1>3. \A d, x \in Device : Active(d)' /\ Active(x)' /\ name'[d] = name'[x] => d = x
  BY <1>1 DEF OneLiveCert
<1> QED
  BY <1>1, <1>2, <1>3 DEF OneLiveCert, Active

LEMMA MintKeepsCerts ==
  ASSUME TypeOK, OneLiveCert, NEW d \in Device, Enroll(d) \/ Rotate(d)
  PROVE  OneLiveCert'
<1>1. /\ serial \in Nat /\ serial' = serial + 1 /\ name' = name
      /\ cred' = [cred EXCEPT ![d] = serial] /\ cred \in [Device -> Serial]
  BY DEF Enroll, Rotate, Mint, TypeOK
<1>2. \A x \in Device : Active(x)' <=> Active(x) \/ x = d
  BY DEF Enroll, Rotate, Active, TypeOK
<1>3. \A x \in Device \ {d} : Active(x) /\ name[x] = name[d] => FALSE
  <2>1. CASE Enroll(d)
    BY <2>1 DEF Enroll
  <2>2. CASE Rotate(d)
    BY <2>2 DEF Rotate, OneLiveCert
  <2> QED
    BY <2>1, <2>2
<1>4. revoked \subseteq revoked' /\ (Active(d) => cred[d] \in revoked')
  BY DEF Enroll, Rotate, Active
<1>5. ASSUME NEW s \in 1..(serial' - 1)
      PROVE  s \in revoked' \/ \E x \in Device : Active(x)' /\ cred'[x] = s
  <2>1. CASE s = serial
    BY <1>1, <1>2, <2>1
  <2>2. CASE s # serial
    <3>1. s \in 1..(serial - 1)
      BY <1>1, <2>2
    <3>2. CASE s \in revoked
      BY <1>4, <3>2
    <3>3. ASSUME NEW x \in Device, Active(x), cred[x] = s
          PROVE  s \in revoked' \/ (Active(x)' /\ cred'[x] = s)
      BY <1>1, <1>2, <1>4, <3>3
    <3> QED
      BY <3>1, <3>2, <3>3 DEF OneLiveCert
  <2> QED
    BY <2>1, <2>2
<1>6. \A x, y \in Device : Active(x)' /\ Active(y)' /\ name'[x] = name'[y] => x = y
  BY <1>1, <1>2, <1>3 DEF OneLiveCert
<1> QED
  BY <1>5, <1>6 DEF OneLiveCert, Active

\* Only these steps change the store, the runner's prune by id among them.
LEMMA StoreSteps ==
  ASSUME TypeOK, [Next]_vars
  PROVE  \/ UNCHANGED storeVars
         \/ \E d \in Device : Enroll(d) \/ Rotate(d)
         \/ \E D \in SUBSET Device : RevokeAt(D)
<1>1. CASE UNCHANGED vars
  BY <1>1 DEF vars
<1>2. CASE \E d \in Device : Enroll(d) \/ Rotate(d)
  BY <1>2
<1>3. CASE \E d \in Device : Revoke(d) \/ WindowEnds(d)
  BY <1>3 DEF Revoke, WindowEnds
<1>4. CASE RevokeAll
  BY <1>4 DEF RevokeAll
<1>5. CASE \/ \E k \in Key : BackoffOver(k) \/ GrowOld(k)
           \/ \E m \in Msg : DedupLapse(m)
           \/ \E c \in Call : CallStep(c)
           \/ DaemonCrash \/ DaemonStart
  BY <1>5 DEF BackoffOver, GrowOld, DedupLapse, CallStep, Notify, ListDevices, NextDevice,
              Enqueue, DaemonCrash, DaemonStart
<1>6. CASE Scan \/ EndScan \/ NextEntry \/ Send
  BY <1>6 DEF Scan, EndScan, NextEntry, Send
<1>7. CASE Prune
  <2>1. CASE \E e \in cur : RevokeByID(e)
    <3>1. PICK e \in cur : RevokeByID(e)
      BY <2>1
    <3>2. {e.key[1]} \in SUBSET Device
      BY DEF TypeOK, Entry, Key
    <3> QED
      BY <3>1, <3>2 DEF RevokeByID
  <2> QED
    BY <1>7, <2>1 DEF Prune, Transact
<1>8. CASE DequeueSent \/ MarkSeen \/ Drop \/ WriteBack
  BY <1>8 DEF DequeueSent, MarkSeen, Drop, WriteBack, Transact, OutOfBox, BackInBox, Mark
<1> QED
  BY <1>1, <1>2, <1>3, <1>4, <1>5, <1>6, <1>7, <1>8 DEF Next, RunnerStep

\* Only the current certificate of an active record is good, and a name has one such
\* record, for every number of devices (device/lifecycle.go:188-289).
THEOREM OnlyCurrentCerts == Spec => []OneLiveCert
<1>1. Init => OneLiveCert
  BY DEF Init, OneLiveCert, Active
<1>2. TypeOK /\ OneLiveCert /\ [Next]_vars => OneLiveCert'
  <2> SUFFICES ASSUME TypeOK, OneLiveCert, [Next]_vars PROVE OneLiveCert'
    OBVIOUS
  <2>1. CASE UNCHANGED storeVars
    BY <2>1 DEF OneLiveCert, Active, storeVars
  <2> QED
    BY <2>1, StoreSteps, MintKeepsCerts, RevokeKeepsCerts
<1> QED
  BY <1>1, <1>2, PushTyping, PTL DEF Spec

-----------------------------------------------------------------------------
(* Wakes of a revoked device.                                              *)

\* The runner has decided to send d a wake.
InFlight(d) == IF runPc = "send" /\ (\E e \in cur : e.key[1] = d) THEN 1 ELSE 0

\* None is late before the revocation, and the one under way counts as sent.
WakesCounted ==
  \A d \in Device : /\ status[d] # "revoked" => late[d] = 0
                    /\ late[d] + InFlight(d) <= 1 + faults

\* A step that sends nothing and decides on no send.
LEMMA NoWake ==
  ASSUME TypeOK, TypeOK', WakesCounted, late' = late, faults' >= faults,
         runPc' # "send" \/ UNCHANGED <<runPc, cur>>,
         \A d \in Device : status[d] = "revoked" => status'[d] = "revoked"
  PROVE  WakesCounted'
<1> SUFFICES ASSUME NEW d \in Device
             PROVE  (status'[d] # "revoked" => late'[d] = 0) /\ late'[d] + InFlight(d)' <= 1 + faults'
  BY DEF WakesCounted
<1>1. late[d] \in Nat /\ faults \in Nat /\ faults' \in Nat
  BY DEF TypeOK, LateCap
<1>2. InFlight(d)' <= InFlight(d) /\ InFlight(d) \in {0, 1} /\ InFlight(d)' \in {0, 1}
  BY DEF InFlight
<1> QED
  BY <1>1, <1>2 DEF WakesCounted

\* A revocation is for good.
LEMMA RevokedForGood ==
  ASSUME TypeOK, [Next]_vars, NEW d \in Device, status[d] = "revoked"
  PROVE  status'[d] = "revoked"
<1>1. CASE UNCHANGED storeVars
  BY <1>1 DEF storeVars
<1>2. ASSUME NEW x \in Device, Enroll(x) \/ Rotate(x) PROVE status'[d] = "revoked"
  BY <1>2 DEF Enroll, Rotate, Active, TypeOK
<1>3. ASSUME NEW D \in SUBSET Device, RevokeAt(D) PROVE status'[d] = "revoked"
  BY <1>3 DEF RevokeAt, Active, TypeOK
<1> QED
  BY <1>1, <1>2, <1>3, StoreSteps

\* The look at the records before the send: it has them right, or failed.
LEMMA DecideCounted ==
  ASSUME TypeOK, TypeOK', WakesCounted, NextEntry
  PROVE  WakesCounted'
<1>1. /\ runPc = "next" /\ UNCHANGED <<storeVars, late>>
      /\ (cached' = Current /\ faults' = faults) \/ faults' = faults + 1
  BY DEF NextEntry, List, Fault
<1> SUFFICES ASSUME NEW d \in Device
             PROVE  (status'[d] # "revoked" => late'[d] = 0) /\ late'[d] + InFlight(d)' <= 1 + faults'
  BY DEF WakesCounted
<1>2. late[d] \in Nat /\ faults \in Nat /\ status' = status
  BY <1>1 DEF TypeOK, LateCap, storeVars
<1>3. InFlight(d) = 0 /\ InFlight(d)' \in {0, 1}
  BY <1>1 DEF InFlight
<1>4. CASE faults' = faults + 1
  BY <1>1, <1>2, <1>3, <1>4 DEF WakesCounted
<1>5. CASE cached' = Current /\ faults' = faults
  <2>1. CASE InFlight(d)' = 0
    BY <1>1, <1>2, <1>3, <1>5, <2>1 DEF WakesCounted
  <2>2. CASE InFlight(d)' = 1
    <3>1. PICK e \in cur' : e.key[1] = d /\ runPc' = "send"
      BY <2>2 DEF InFlight
    <3>2. Listed(e)
      BY <3>1 DEF NextEntry, SkipInactive, NoGateway, Attempt
    <3>3. status[d] = "active"
      BY <1>5, <3>1, <3>2 DEF Listed, Current
    <3> QED
      BY <1>1, <1>2, <1>5, <2>2, <3>3 DEF WakesCounted
  <2> QED
    BY <1>3, <2>1, <2>2
<1> QED
  BY <1>1, <1>4, <1>5

LEMMA SendCounted ==
  ASSUME TypeOK, TypeOK', WakesCounted, Send
  PROVE  WakesCounted'
<1>1. /\ runPc = "send" /\ runPc' # "send" /\ UNCHANGED <<storeVars, cur, faults>>
      /\ \E e \in cur : Request(e)
  BY DEF Send, Transient
<1>2. PICK e \in cur : Request(e)
  BY <1>1
<1> SUFFICES ASSUME NEW d \in Device
             PROVE  (status'[d] # "revoked" => late'[d] = 0) /\ late'[d] + InFlight(d)' <= 1 + faults'
  BY DEF WakesCounted
<1>3. late[d] \in Nat /\ faults \in Nat /\ status' = status /\ InFlight(d)' = 0
  BY <1>1 DEF TypeOK, LateCap, storeVars, InFlight
<1>4. CASE e.key[1] = d
  <2>1. InFlight(d) = 1
    BY <1>1, <1>4 DEF InFlight
  <2>2. late'[d] = late[d] \/ (late'[d] = late[d] + 1 /\ status[d] = "revoked")
    BY <1>2, <1>4 DEF Request, TypeOK
  <2> QED
    BY <1>1, <1>3, <2>1, <2>2 DEF WakesCounted
<1>5. CASE e.key[1] # d
  <2>1. late'[d] = late[d] /\ InFlight(d) \in {0, 1}
    BY <1>2, <1>5 DEF Request, TypeOK, InFlight
  <2> QED
    BY <1>1, <1>3, <2>1 DEF WakesCounted
<1> QED
  BY <1>4, <1>5

\* The steps that neither decide on a send nor make one.
LEMMA OtherStepsWakeNobody ==
  ASSUME TypeOK, TypeOK', [Next]_vars, ~NextEntry, ~Send
  PROVE  /\ late' = late /\ faults' >= faults
         /\ runPc' # "send" \/ UNCHANGED <<runPc, cur>>
<1>0. faults \in Nat
  BY DEF TypeOK
<1>1. CASE UNCHANGED vars
  BY <1>0, <1>1 DEF vars, histVars, bounds, runVars
<1>2. CASE \/ \E d \in Device : Enroll(d) \/ Rotate(d) \/ Revoke(d)
           \/ RevokeAll
  <2>1. UnchangedButStore
    BY <1>2 DEF Enroll, Rotate, Revoke, RevokeAll
  <2> QED
    BY <1>0, <2>1 DEF UnchangedButStore, histVars, bounds, runVars
<1>3. CASE \/ \E d \in Device : WindowEnds(d)
           \/ \E k \in Key : BackoffOver(k) \/ GrowOld(k)
           \/ \E m \in Msg : DedupLapse(m)
  BY <1>0, <1>3 DEF WindowEnds, BackoffOver, GrowOld, DedupLapse, histVars, bounds, runVars
<1>4. CASE \E c \in Call : CallStep(c)
  <2>1. ASSUME NEW c \in Call, Notify(c) \/ ListDevices(c)
        PROVE  late' = late /\ faults' >= faults /\ UNCHANGED <<runPc, cur>>
    BY <1>0, <2>1 DEF Notify, ListDevices, List, Fault, histVars, runVars
  <2>2. ASSUME NEW c \in Call, NextDevice(c) \/ Enqueue(c)
        PROVE  late' = late /\ UNCHANGED <<runPc, cur>>
    BY <2>2 DEF NextDevice, Enqueue, histVars, runVars
  <2>3. ASSUME NEW c \in Call, NextDevice(c) \/ Enqueue(c)
        PROVE  faults' = faults \/ Fault
    BY <2>3 DEF NextDevice, Enqueue
  <2>4. Fault => faults' >= faults
    BY <1>0 DEF Fault
  <2> QED
    BY <1>0, <1>4, <2>1, <2>2, <2>3, <2>4 DEF CallStep
<1>5. CASE Scan \/ EndScan
  BY <1>0, <1>5 DEF Scan, EndScan
<1>6. CASE DequeueSent \/ MarkSeen \/ Prune \/ Drop \/ WriteBack
  BY <1>0, <1>6 DEF DequeueSent, MarkSeen, Prune, Drop, WriteBack, Transact, Fault
<1>7. CASE DaemonCrash \/ DaemonStart
  BY <1>0, <1>7 DEF DaemonCrash, DaemonStart, histVars, bounds, runVars
<1> QED
  BY <1>1, <1>2, <1>3, <1>4, <1>5, <1>6, <1>7 DEF Next, RunnerStep

\* A revoked device gets at most the wake decided before, and one per failed read
\* (outbox_runner.go:195-210, device/query.go:145-153).
THEOREM RevokedHardlyWoken == Spec => []LateWakes
<1>1. Init => WakesCounted
  BY DEF Init, WakesCounted, InFlight
<1>2. TypeOK /\ TypeOK' /\ WakesCounted /\ [Next]_vars => WakesCounted'
  BY DecideCounted, SendCounted, NoWake, OtherStepsWakeNobody, RevokedForGood
<1>3. TypeOK /\ WakesCounted => LateWakes
  <2> SUFFICES ASSUME TypeOK, WakesCounted, NEW d \in Device PROVE late[d] <= 1 + faults
    BY DEF LateWakes
  <2>1. late[d] \in Nat /\ faults \in Nat /\ InFlight(d) \in {0, 1}
    BY DEF TypeOK, LateCap, InFlight
  <2> QED
    BY <2>1 DEF WakesCounted
<1> QED
  BY <1>1, <1>2, <1>3, PushTyping, PTL DEF Spec

-----------------------------------------------------------------------------
(* Lost wakes.                                                             *)

Boxed == {e.key : e \in outbox}

\* The runner is about to drop it unsettled: it took an active device for absent.
Doomed == {e.key : e \in {x \in cur : runPc = "drop"}} \ settled

Lost == (queued \ (Boxed \cup settled)) \cup Doomed

\* The runner has one entry in hand, which it leaves out of the outbox when settled.
InHand ==
  /\ \A e, f \in cur : e = f
  /\ runPc \in {"accepted", "mark", "prune"} => \A e \in cur : e.key \in settled

LossCounted == InHand /\ IsFiniteSet(Lost) /\ Cardinality(Lost) <= faults

\* Nothing is lost by a step, or something by one that fails.
LEMMA LossStep ==
  ASSUME TypeOK, TypeOK', IsFiniteSet(Lost), Cardinality(Lost) <= faults,
         \/ Lost' \subseteq Lost /\ faults' >= faults
         \/ faults' = faults + 1 /\ \E k : Lost' \subseteq Lost \cup {k}
  PROVE  IsFiniteSet(Lost)' /\ (Cardinality(Lost) <= faults)'
<1>1. faults \in Nat /\ faults' \in Nat /\ Cardinality(Lost) \in Nat
  BY FS_CardinalityType DEF TypeOK
<1>2. CASE Lost' \subseteq Lost /\ faults' >= faults
  <2>1. IsFiniteSet(Lost') /\ Cardinality(Lost') <= Cardinality(Lost) /\ Cardinality(Lost') \in Nat
    BY <1>2, FS_Subset, FS_CardinalityType
  <2> QED
    BY <1>1, <1>2, <2>1
<1>3. ASSUME faults' = faults + 1, NEW k, Lost' \subseteq Lost \cup {k}
      PROVE  IsFiniteSet(Lost') /\ Cardinality(Lost') <= faults'
  <2>1. IsFiniteSet(Lost \cup {k}) /\ Cardinality(Lost \cup {k}) <= Cardinality(Lost) + 1
        /\ Cardinality(Lost \cup {k}) \in Nat
    <3>1. /\ IsFiniteSet(Lost \cup {k})
          /\ Cardinality(Lost \cup {k}) = IF k \in Lost THEN Cardinality(Lost)
                                          ELSE Cardinality(Lost) + 1
      BY FS_AddElement, Zenon
    <3> QED
      BY <1>1, <3>1
  <2>2. IsFiniteSet(Lost') /\ Cardinality(Lost') <= Cardinality(Lost \cup {k})
        /\ Cardinality(Lost') \in Nat
    BY <1>3, <2>1, FS_Subset, FS_CardinalityType
  <2> QED
    BY <1>1, <1>3, <2>1, <2>2
<1> QED
  BY <1>2, <1>3

\* A step that touches neither the outbox nor what the runner has in hand.
LEMMA LossUntouched ==
  ASSUME LossCounted, UNCHANGED <<outbox, queued, settled, runPc, cur>>
  PROVE  InHand' /\ Lost' = Lost
BY DEF LossCounted, InHand, Lost, Doomed, Boxed

\* A wake is stored: whatever of its key had been lost is there again.
LEMMA EnqueueLoss ==
  ASSUME TypeOK, LossCounted, NEW c \in Call, Enqueue(c)
  PROVE  InHand' /\ Lost' \subseteq Lost /\ (faults' = faults \/ Fault)
<1>1. UNCHANGED <<runPc, cur, settled>>
  BY DEF Enqueue, runVars
<1>2. CASE Fault /\ UNCHANGED <<boxVars, queued>>
  BY <1>1, <1>2, LossUntouched DEF boxVars
<1>3. ASSUME NEW t \in callCur[c], NEW k, k = <<t.dev, callMsg[c]>>,
             Put([key |-> k, token |-> t.token, attempts |-> 0]),
             queued' = queued \cup {k}, UNCHANGED faults
      PROVE  InHand' /\ Lost' \subseteq Lost /\ (faults' = faults \/ Fault)
  <2>1. Boxed \cup {k} \subseteq Boxed'
    <3> DEFINE new == [key |-> k, token |-> t.token, attempts |-> 0]
    <3>1. new.key = k
      OBVIOUS
    <3> HIDE DEF new
    <3>2. outbox' = {e \in outbox : e.key # k} \cup {new}
      BY <1>3, <3>1 DEF Put, Without, new
    <3> QED
      BY <3>1, <3>2 DEF Boxed
  <2>2. InHand' /\ Doomed' = Doomed
    BY <1>1 DEF LossCounted, InHand, Doomed
  <2> QED
    BY <1>1, <1>3, <2>1, <2>2 DEF Lost
<1> QED
  BY <1>2, <1>3 DEF Enqueue

\* The transactions of the runner: what leaves the outbox is settled, or doomed.
LEMMA TransactLoss ==
  ASSUME TypeOK, LossCounted, DequeueSent \/ MarkSeen \/ Prune \/ Drop \/ WriteBack
  PROVE  InHand' /\ Lost' \subseteq Lost /\ (faults' = faults \/ Fault)
<1>1. /\ UNCHANGED <<queued, settled>> /\ (faults' = faults \/ Fault)
      /\ runPc' \in {"mark", "next", "drop"} /\ cur' \subseteq cur
      /\ runPc \in {"accepted", "mark", "prune", "drop", "retry"}
      /\ runPc' = "mark" => runPc = "accepted"
      /\ runPc' = "drop" => runPc = "prune"
  BY DEF DequeueSent, MarkSeen, Prune, Drop, WriteBack, Transact, UnchangedByRunner
<1>2. InHand'
  BY <1>1 DEF LossCounted, InHand
<1>3. Doomed' = {}
  BY <1>1 DEF LossCounted, InHand, Doomed
<1>4. \/ Boxed \subseteq Boxed'
      \/ (runPc \in {"accepted", "drop"} /\ \E e \in cur : Boxed \subseteq Boxed' \cup {e.key})
  <2>1. CASE UNCHANGED outbox
    BY <2>1 DEF Boxed
  <2>2. ASSUME runPc \in {"accepted", "drop"}, NEW e \in cur, OutOfBox(e)
        PROVE  Boxed \subseteq Boxed' \cup {e.key}
    BY <2>2 DEF OutOfBox, Dequeue, Without, Boxed
  <2>3. ASSUME NEW e \in cur, BackInBox(e)
        PROVE  Boxed \subseteq Boxed'
    <3>1. e \in Entry
      BY DEF TypeOK
    <3>2. [e EXCEPT !.attempts = IF @ < MaxAttempts THEN @ + 1 ELSE @].key = e.key
      BY <3>1 DEF Entry
    <3> QED
      BY <2>3, <3>2 DEF BackInBox, Retry, Put, Without, Boxed
  <2> QED
    BY <2>1, <2>2, <2>3 DEF DequeueSent, MarkSeen, Prune, Drop, WriteBack, Transact, Mark,
                            RevokeByID, boxVars
<1>5. ASSUME NEW e \in cur, runPc \in {"accepted", "drop"}, Boxed \subseteq Boxed' \cup {e.key}
      PROVE  Lost' \subseteq Lost
  <2>1. e.key \in settled \cup Doomed
    BY <1>5 DEF LossCounted, InHand, Doomed
  <2> QED
    BY <1>1, <1>3, <1>5, <2>1 DEF Lost
<1>6. Lost' \subseteq Lost
  BY <1>1, <1>3, <1>4, <1>5 DEF Lost
<1> QED
  BY <1>1, <1>2, <1>6

\* The runner takes up an entry: to drop one of an active device it must have failed to
\* read the records.
LEMMA DecideLoss ==
  ASSUME TypeOK, TypeOK', LossCounted, NextEntry
  PROVE  /\ InHand'
         /\ \/ Lost' \subseteq Lost /\ faults' >= faults
            \/ faults' = faults + 1 /\ \E k : Lost' \subseteq Lost \cup {k}
<1>0. faults \in Nat
  BY DEF TypeOK
<1>1. PICK e \in batch : /\ cur' = {e}
                         /\ SkipInactive(e) \/ NoGateway(e) \/ Attempt(e)
  BY DEF NextEntry
<1>2. /\ UNCHANGED <<queued, status>> /\ UNCHANGED outbox
      /\ runPc' \in {"drop", "retry", "send"} /\ settled \subseteq settled'
      /\ (cached' = Current /\ faults' = faults) \/ faults' = faults + 1
  BY <1>1 DEF NextEntry, List, Fault, UnchangedByRunner, SkipInactive, NoGateway, Attempt,
              storeVars, boxVars
<1>3. InHand'
  BY <1>1, <1>2 DEF InHand
<1>4. Doomed' \subseteq {e.key} /\ Lost' \subseteq Lost \cup Doomed'
  BY <1>1, <1>2 DEF Doomed, Lost, Boxed
<1>5. CASE cached' = Current /\ faults' = faults
  <2>1. ASSUME runPc' = "drop" PROVE e.key \in settled'
    <3>1. CASE NoGateway(e)
      BY <2>1, <3>1 DEF NoGateway
    <3>2. CASE SkipInactive(e)
      <4>1. e.key[1] \in Device
        BY DEF TypeOK, Entry, Key
      <4>2. ~Active(e.key[1])
        BY <1>5, <3>2, <4>1 DEF SkipInactive, Listed, Current, Active
      <4> QED
        BY <3>2, <4>2 DEF SkipInactive
    <3> QED
      BY <1>1, <2>1, <3>1, <3>2 DEF Attempt
  <2>2. Doomed' = {}
    BY <1>1, <2>1 DEF Doomed
  <2> QED
    BY <1>0, <1>3, <1>4, <1>5, <2>2
<1>6. CASE faults' = faults + 1
  BY <1>3, <1>4, <1>6
<1> QED
  BY <1>2, <1>5, <1>6

\* The answer of the provider, or an entry too old: settled.
LEMMA SendLoss ==
  ASSUME TypeOK, LossCounted, Send
  PROVE  InHand' /\ Lost' \subseteq Lost /\ faults' = faults
<1>1. PICK e \in cur : \/ runPc' \in {"accepted", "prune", "drop"} /\ settled' = settled \cup {e.key}
                       \/ runPc' = "retry" /\ settled' = settled
  BY DEF Send, Transient
<1>2. UNCHANGED <<queued, cur, faults>> /\ UNCHANGED outbox
  BY DEF Send, UnchangedByRunner, boxVars
<1>3. cur' = {e} /\ InHand'
  BY <1>1, <1>2 DEF LossCounted, InHand
<1>4. Doomed' = {}
  BY <1>1, <1>3 DEF Doomed
<1>5. settled \subseteq settled'
  BY <1>1
<1> QED
  BY <1>2, <1>3, <1>4, <1>5 DEF Lost, Boxed

LEMMA OtherLoss ==
  ASSUME TypeOK, LossCounted, [Next]_vars, ~NextEntry, ~Send,
         ~(DequeueSent \/ MarkSeen \/ Prune \/ Drop \/ WriteBack),
         ~\E c \in Call : Enqueue(c)
  PROVE  InHand' /\ Lost' \subseteq Lost /\ (faults' = faults \/ Fault)
<1>1. CASE UNCHANGED vars
  BY <1>1, LossUntouched DEF vars, boxVars, histVars, runVars, bounds
<1>2. CASE \/ \E d \in Device : Enroll(d) \/ Rotate(d) \/ Revoke(d) \/ WindowEnds(d)
           \/ RevokeAll
           \/ \E k \in Key : BackoffOver(k) \/ GrowOld(k)
           \/ \E m \in Msg : DedupLapse(m)
           \/ DaemonStart
  <2>1. UNCHANGED <<outbox, queued, settled, runPc, cur>> /\ faults' = faults
    BY <1>2 DEF Enroll, Rotate, Revoke, RevokeAll, UnchangedButStore, WindowEnds, BackoffOver,
                GrowOld, DedupLapse, DaemonStart, boxVars, histVars, runVars, bounds
  <2> QED
    BY <2>1, LossUntouched
<1>3. ASSUME NEW c \in Call, Notify(c) \/ ListDevices(c) \/ NextDevice(c)
      PROVE  InHand' /\ Lost' \subseteq Lost /\ (faults' = faults \/ Fault)
  <2>1. UNCHANGED <<outbox, queued, settled, runPc, cur>>
    BY <1>3 DEF Notify, ListDevices, NextDevice, boxVars, histVars, runVars
  <2>2. faults' = faults \/ Fault
    BY <1>3 DEF Notify, ListDevices, List, NextDevice
  <2> QED
    BY <2>1, <2>2, LossUntouched
<1>4. CASE Scan \/ EndScan
  <2>1. /\ UNCHANGED <<queued, settled, cur, faults>> /\ UNCHANGED outbox
        /\ runPc' \in {"next", "idle"}
    BY <1>4 DEF Scan, EndScan, UnchangedByRunner, boxVars
  <2> QED
    BY <2>1 DEF LossCounted, InHand, Lost, Doomed, Boxed
<1>5. CASE DaemonCrash
  <2>1. /\ UNCHANGED <<queued, settled, faults>> /\ UNCHANGED outbox
        /\ runPc' = "idle" /\ cur' = {}
    BY <1>5 DEF DaemonCrash, boxVars, histVars
  <2> QED
    BY <2>1 DEF LossCounted, InHand, Lost, Doomed, Boxed
<1> QED
  BY <1>1, <1>2, <1>3, <1>4, <1>5 DEF Next, RunnerStep, CallStep

\* No queued wake is lost but one per failed read, through crashes and stale copies
\* (outbox_runner.go:232-324).
THEOREM NoWakeLost == Spec => []NoSilentLoss
<1>1. Init => LossCounted
  <2> SUFFICES ASSUME Init PROVE LossCounted
    OBVIOUS
  <2>1. Lost = {} /\ InHand /\ faults = 0
    BY DEF Init, Lost, Doomed, InHand
  <2> QED
    BY <2>1, FS_EmptySet DEF LossCounted
<1>2. TypeOK /\ TypeOK' /\ LossCounted /\ [Next]_vars => LossCounted'
  <2> SUFFICES ASSUME TypeOK, TypeOK', LossCounted, [Next]_vars PROVE LossCounted'
    OBVIOUS
  <2>1. /\ InHand'
        /\ \/ Lost' \subseteq Lost /\ faults' >= faults
           \/ faults' = faults + 1 /\ \E k : Lost' \subseteq Lost \cup {k}
    <3>1. faults' = faults \/ Fault => faults' >= faults
      BY DEF Fault, TypeOK
    <3>2. CASE NextEntry
      BY <3>2, DecideLoss
    <3>3. CASE ~NextEntry
      BY <3>1, <3>3, EnqueueLoss, TransactLoss, SendLoss, OtherLoss
    <3> QED
      BY <3>2, <3>3
  <2> QED
    BY <2>1, LossStep DEF LossCounted
<1>3. TypeOK /\ LossCounted => NoSilentLoss
  <2> SUFFICES ASSUME TypeOK, LossCounted PROVE NoSilentLoss
    OBVIOUS
  <2> DEFINE gone == queued \ ({e.key : e \in outbox} \cup settled)
  <2>1. gone \subseteq Lost
    BY DEF Lost, Boxed
  <2>2. /\ Cardinality(gone) <= Cardinality(Lost)
        /\ Cardinality(gone) \in Nat /\ Cardinality(Lost) \in Nat /\ faults \in Nat
    BY <2>1, FS_Subset, FS_CardinalityType DEF LossCounted, TypeOK
  <2> QED
    BY <2>2 DEF LossCounted, NoSilentLoss
<1> QED
  BY <1>1, <1>2, <1>3, PushTyping, PTL DEF Spec
=============================================================================
