--------------------------- MODULE Approval_proof ---------------------------
(* Proofs about the approve loop, for every set of requests.               *)
EXTENDS Approval, FiniteSetTheorems, TLAPS

-----------------------------------------------------------------------------
(* The inductive invariant: what a handler that has won, or lost, knows.   *)

\* Whoever is about to write the receipt of r writes what was decided, and is
\* the only one to.
TtyKnows ==
  \A r \in Req :
    /\ tty[r] \in {"receipt", "gauge", "won"} => said[r] \in Verdict /\ state[r] = said[r]
    /\ tty[r] = "receipt" => receipts[r] = <<>>

PhoneKnows ==
  \A l \in Link :
    /\ phone[l] \in {"receipt", "gauge"} => state[l[1]] = l[2]
    /\ phone[l] = "receipt" => receipts[l[1]] = <<>> /\ tty[l[1]] # "receipt"
    /\ phone[l] = "outcome" => l[1] \notin present \/ state[l[1]] # "pending"

Receipts ==
  \A r \in Req :
    /\ receipts[r] \in {<<>>, <<state[r]>>}
    /\ state[r] = "pending" => receipts[r] = <<>>

\* A request is pruned at most, never opened twice; a page is rendered once; a
\* hook returns once, and takes an approval from the daemon only.
Once ==
  /\ \A r \in Req :
       /\ reply[r] = "approved" => state[r] = "approved"
       /\ hook[r] # "done" => result[r] = "none"
  /\ \A l \in Link :
       /\ phone[l] # "done" => page[l] = "none"
       /\ l \in links => phone[l] = "idle"
       /\ phone[l] # "idle" \/ l \in links => hook[l[1]] # "new"

IInv == TtyKnows /\ PhoneKnows /\ Receipts /\ Once

\* A link is a request and the action it stands for.
LEMMA LinkParts == \A l \in Link : l[1] \in Req /\ l[2] \in Verdict /\ l = <<l[1], l[2]>>
BY DEF Link

\* Two links differ in the request or in the action.
LEMMA LinksDiffer == \A l, m \in Link : l # m => l[1] # m[1] \/ l[2] # m[2]
BY DEF Link

-----------------------------------------------------------------------------
(* Every variable keeps its type.                                          *)

\* Where a tapped link's handler and the terminal's can be.
PhonePcs == {"idle", "lookup", "resolve", "receipt", "gauge", "outcome", "done"}
TtyPcs   == {"none", "prompt", "receipt", "gauge", "won", "done"}

\* Nothing is asked and no handler runs at the start.
LEMMA TypingInit == Init => TypeOK
BY ApprovalAssumption DEF Init, TypeOK, Verdict

\* Every handler's step keeps the types; that a page never shows "pending" needs
\* what the phone's handler knows.
LEMMA TypingStep ==
  ASSUME TypeOK, IInv, [Next]_vars
  PROVE  TypeOK'
<1> USE ApprovalAssumption DEF TypeOK, Verdict
<1> USE DEF daemonVars, phoneVars, waitVars, ttyVars, hookVars
<1>1. ASSUME NEW r \in Req, Ask(r) \/ GiveUp(r) \/ HearWait(r) \/ HearTty(r)
      PROVE  TypeOK'
  <2>1. CASE Ask(r)
    BY <2>1 DEF Ask, Link
  <2>2. CASE GiveUp(r)
    BY <2>2 DEF GiveUp, Exit
  <2>3. CASE HearWait(r)
    BY <2>3 DEF HearWait, Exit
  <2>4. CASE HearTty(r)
    BY <2>4 DEF HearTty, Exit
  <2> QED
    BY <1>1, <2>1, <2>2, <2>3, <2>4
<1>2. ASSUME NEW r \in Req, BeginWait(r) \/ WaitStep(r)
      PROVE  TypeOK'
  <2>1. CASE BeginWait(r)
    <3>1. wait' = [wait EXCEPT ![r] = "waiting"] \/ wait' = [wait EXCEPT ![r] = "done"]
      BY <2>1 DEF BeginWait
    <3>2. reply' = reply \/ reply' = [reply EXCEPT ![r] = "denied"]
      BY <2>1 DEF BeginWait
    <3>3. UNCHANGED <<daemonVars, phoneVars, ttyVars, hookVars, crashes>>
      BY <2>1 DEF BeginWait
    <3> DEFINE WaitPcs == {"none", "waiting", "woken", "expired", "done"}
    <3>4. wait' \in [Req -> WaitPcs]
      <4>1. wait \in [Req -> WaitPcs] /\ "waiting" \in WaitPcs /\ "done" \in WaitPcs
        OBVIOUS
      <4> HIDE DEF WaitPcs, TypeOK
      <4> QED
        BY <3>1, <4>1
    <3>5. reply' \in [Req -> Verdict \cup {"none"}]
      <4>1. reply \in [Req -> Verdict \cup {"none"}] /\ "denied" \in Verdict
        OBVIOUS
      <4> HIDE DEF Verdict, TypeOK
      <4> QED
        BY <3>2, <4>1
    <3> QED
      BY <3>3, <3>4, <3>5
  <2>2. CASE WakeResolved(r)
    BY <2>2 DEF WakeResolved
  <2>3. CASE WakeExpired(r)
    BY <2>3 DEF WakeExpired, Resolve
  <2>4. CASE EndWait(r)
    BY <2>4 DEF EndWait
  <2> QED
    BY <1>2, <2>1, <2>2, <2>3, <2>4 DEF WaitStep
<1>3. ASSUME NEW r \in Req, ReceiptTty(r) \/ CountTty(r) \/ \E v \in Verdict : AnswerTty(r, v)
      PROVE  TypeOK'
  <2>1. CASE ReceiptTty(r)
    <3>1. tty' \in [Req -> TtyPcs]
      BY <2>1 DEF ReceiptTty, TtyPcs
    <3>2. Append(receipts[r], said[r]) \in Seq(Verdict)
      BY <2>1 DEF ReceiptTty, IInv, TtyKnows
    <3>3. receipts' \in [Req -> Seq(Verdict)]
      <4>1. receipts \in [Req -> Seq(Verdict)]
        OBVIOUS
      <4>2. \/ receipts' = [receipts EXCEPT ![r] = Append(receipts[r], said[r])]
            \/ receipts' = receipts
        BY <2>1 DEF ReceiptTty
      <4> HIDE DEF TypeOK, Verdict
      <4> QED
        BY <3>2, <4>1, <4>2
    <3> QED
      BY <2>1, <3>1, <3>3 DEF ReceiptTty, TtyPcs
  <2>2. CASE CountTty(r)
    BY <2>2 DEF CountTty
  <2>3. ASSUME NEW v \in Verdict, AnswerTty(r, v)
        PROVE  TypeOK'
    <3>1. said' \in [Req -> Verdict \cup {"none"}]
      BY <2>3 DEF AnswerTty
    <3>2. tty' \in [Req -> TtyPcs]
      BY <2>3, SMTT(30) DEF AnswerTty, TtyPcs
    <3>3. state' \in [Req -> Verdict \cup {"pending"}]
      <4>1. CASE Resolvable(r)
        <5>1. state' = [state EXCEPT ![r] = v]
          BY <2>3, <4>1, Zenon DEF AnswerTty, Resolve
        <5> QED
          BY <5>1
      <4>2. CASE ~Resolvable(r)
        BY <2>3, <4>2 DEF AnswerTty
      <4> QED
        BY <4>1, <4>2
    <3> QED
      BY <2>3, <3>1, <3>2, <3>3 DEF AnswerTty, TtyPcs
  <2> QED
    BY <1>3, <2>1, <2>2, <2>3
<1>4. ASSUME NEW l \in Link, Tap(l) \/ LinkGone(l)
      PROVE  TypeOK'
  BY <1>4 DEF Tap, LinkGone, Goto
<1>5. ASSUME NEW l \in Link, PhoneStep(l)
      PROVE  TypeOK'
  <2>0. l[1] \in Req /\ l[2] \in Verdict
    BY LinkParts
  <2>1. CASE LookupRequest(l)
    <3>1. \/ phone' = [phone EXCEPT ![l] = "resolve"] /\ page' = page
          \/ phone' = [phone EXCEPT ![l] = "done"] /\ page' = [page EXCEPT ![l] = "miss"]
      BY <2>1 DEF LookupRequest, Goto
    <3>2. UNCHANGED <<daemonVars, links, waitVars, ttyVars, hookVars, crashes>>
      BY <2>1 DEF LookupRequest
    <3>3. phone' \in [Link -> PhonePcs] /\ page' \in [Link -> Verdict \cup {"none", "miss"}]
      <4>1. phone \in [Link -> PhonePcs] /\ page \in [Link -> Verdict \cup {"none", "miss"}]
            /\ "resolve" \in PhonePcs /\ "done" \in PhonePcs
        BY DEF PhonePcs
      <4> HIDE DEF TypeOK, Verdict
      <4> QED
        BY <3>1, <4>1
    <3> QED
      BY <3>2, <3>3 DEF PhonePcs
  <2>2. CASE ResolveLink(l)
    <3>1. state' \in [Req -> Verdict \cup {"pending"}]
      <4>1. CASE Resolvable(l[1])
        <5>1. state' = [state EXCEPT ![l[1]] = l[2]]
          BY <2>2, <4>1, Zenon DEF ResolveLink, Resolve
        <5> QED
          BY <2>0, <5>1
      <4>2. CASE ~Resolvable(l[1])
        BY <2>2, <4>2 DEF ResolveLink
      <4> QED
        BY <4>1, <4>2
    <3>2. phone' \in [Link -> PhonePcs]
      <4>1. CASE Resolvable(l[1])
        <5>1. phone' = [phone EXCEPT ![l] = "receipt"]
          BY <2>2, <4>1, Zenon DEF ResolveLink, Goto
        <5> QED
          BY <5>1 DEF PhonePcs
      <4>2. CASE ~Resolvable(l[1])
        BY <2>2, <4>2 DEF ResolveLink, Goto, PhonePcs, Resolvable
      <4> QED
        BY <4>1, <4>2
    <3> QED
      BY <2>2, <3>1, <3>2 DEF ResolveLink, PhonePcs
  <2>3. CASE ReceiptLink(l)
    <3>1. phone' \in [Link -> PhonePcs]
      BY <2>3 DEF ReceiptLink, Goto, PhonePcs
    <3>2. Append(receipts[l[1]], l[2]) \in Seq(Verdict)
      BY <2>0
    <3>3. receipts' \in [Req -> Seq(Verdict)]
      <4>1. CASE receipts' = [receipts EXCEPT ![l[1]] = Append(@, l[2])]
        BY <2>0, <3>2, <4>1
      <4>2. CASE receipts' = receipts
        BY <4>2
      <4> QED
        BY <2>3, <4>1, <4>2 DEF ReceiptLink
    <3> QED
      BY <2>3, <3>1, <3>3 DEF ReceiptLink, PhonePcs
  <2>4. CASE CountLink(l)
    BY <2>0, <2>4 DEF CountLink, Goto
  <2>5. CASE ShowOutcome(l)
    <3>1. l[1] \in present => state[l[1]] # "pending"
      BY <2>0, <2>5 DEF ShowOutcome, IInv, PhoneKnows
    <3>2. page' \in [Link -> Verdict \cup {"none", "miss"}]
      BY <2>0, <2>5, <3>1 DEF ShowOutcome
    <3> QED
      BY <2>5, <3>2 DEF ShowOutcome, Goto
  <2> QED
    BY <1>5, <2>1, <2>2, <2>3, <2>4, <2>5 DEF PhoneStep
<1>6. CASE DaemonCrash
  <2>1. /\ phone' \in [Link -> PhonePcs] /\ tty' \in [Req -> TtyPcs]
        /\ reply' \in [Req -> Verdict \cup {"none"}]
    BY <1>6 DEF DaemonCrash, PhonePcs, TtyPcs
  <2>2. wait' \in [Req -> {"none", "waiting", "woken", "expired", "done"}]
    BY <1>6 DEF DaemonCrash
  <2>3. /\ up' \in BOOLEAN /\ present' \subseteq Req /\ links' \subseteq Link
        /\ gauge' \in Int /\ crashes' \in 0..MaxCrashes
    <3>1. crashes' \in 0..MaxCrashes
      BY <1>6 DEF DaemonCrash
    <3>2. up' \in BOOLEAN
      BY <1>6 DEF DaemonCrash
    <3>3. present' \subseteq Req /\ links' \subseteq Link /\ gauge' \in Int
      BY <1>6 DEF DaemonCrash
    <3> QED
      BY <3>1, <3>2, <3>3
  <2> QED
    BY <1>6, <2>1, <2>2, <2>3, Zenon DEF DaemonCrash, PhonePcs, TtyPcs
<1>7. CASE DaemonStart
  BY <1>7 DEF DaemonStart
<1>8. CASE UNCHANGED vars
  BY <1>8 DEF vars
<1> QED
  BY <1>1, <1>2, <1>3, <1>4, <1>5, <1>6, <1>7, <1>8 DEF Next

\* At the start nobody knows anything.
LEMMA IInvInit == Init => IInv
BY LinkParts DEF Init, IInv, TtyKnows, PhoneKnows, Receipts, Once

\* The steps of the hook and of the waiter.
LEMMA HookKeepsIInv ==
  ASSUME TypeOK, IInv, NEW r \in Req,
         Ask(r) \/ GiveUp(r) \/ HearWait(r) \/ HearTty(r) \/ BeginWait(r) \/ WaitStep(r)
  PROVE  IInv'
<1> USE LinkParts DEF TypeOK, Verdict, TtyKnows, PhoneKnows, Receipts, Once,
                      daemonVars, phoneVars, waitVars, ttyVars, hookVars
<1>1. CASE Ask(r)
  <2>1. TtyKnows' /\ Receipts'
    BY <1>1 DEF Ask, IInv
  <2>2. PhoneKnows'
    BY <1>1 DEF Ask, IInv
  <2>3. Once'
    BY <1>1 DEF Ask, IInv, Link
  <2> QED
    BY <2>1, <2>2, <2>3 DEF IInv
<1>2. CASE GiveUp(r)
  BY <1>2 DEF GiveUp, Exit, IInv
<1>3. CASE HearWait(r)
  BY <1>3 DEF HearWait, Exit, IInv
<1>4. CASE HearTty(r)
  BY <1>4 DEF HearTty, Exit, IInv
<1>5. CASE BeginWait(r)
  BY <1>5 DEF BeginWait, IInv
<1>6. CASE WakeResolved(r)
  BY <1>6 DEF WakeResolved, IInv
<1>7. CASE WakeExpired(r)
  BY <1>7 DEF WakeExpired, Resolve, IInv
<1>8. CASE EndWait(r)
  BY <1>8 DEF EndWait, IInv
<1> QED
  BY <1>1, <1>2, <1>3, <1>4, <1>5, <1>6, <1>7, <1>8 DEF WaitStep

\* The steps of the terminal.
LEMMA TtyKeepsIInv ==
  ASSUME TypeOK, IInv, NEW r \in Req,
         ReceiptTty(r) \/ CountTty(r) \/ \E v \in Verdict : AnswerTty(r, v)
  PROVE  IInv'
<1> USE LinkParts DEF TypeOK, Verdict, TtyKnows, PhoneKnows, Receipts, Once,
                      daemonVars, phoneVars, waitVars, ttyVars, hookVars
<1>1. CASE ReceiptTty(r)
  <2>1. said[r] = state[r] /\ receipts[r] = <<>> /\ state[r] # "pending"
    BY <1>1 DEF ReceiptTty, IInv
  <2>2. receipts'[r] \in {<<>>, <<state[r]>>}
    BY <1>1, <2>1 DEF ReceiptTty
  <2>3. \A x \in Req \ {r} : receipts'[x] = receipts[x]
    BY <1>1 DEF ReceiptTty
  <2>4. Receipts'
    BY <1>1, <2>1, <2>2, <2>3 DEF ReceiptTty, IInv
  <2>5. TtyKnows'
    BY <1>1, <2>3 DEF ReceiptTty, IInv
  <2>6. PhoneKnows'
    BY <1>1, <2>3 DEF ReceiptTty, IInv
  <2>7. Once'
    BY <1>1 DEF ReceiptTty, IInv
  <2> QED
    BY <2>4, <2>5, <2>6, <2>7 DEF IInv
<1>2. CASE CountTty(r)
  BY <1>2 DEF CountTty, IInv
<1>3. ASSUME NEW v \in Verdict, AnswerTty(r, v)
      PROVE  IInv'
  <2>1. TtyKnows'
    BY <1>3 DEF AnswerTty, Resolve, Resolvable, IInv
  <2>2. PhoneKnows'
    BY <1>3 DEF AnswerTty, Resolve, Resolvable, IInv
  <2>3. Receipts' /\ Once'
    BY <1>3 DEF AnswerTty, Resolve, Resolvable, IInv
  <2> QED
    BY <2>1, <2>2, <2>3 DEF IInv
<1> QED
  BY <1>1, <1>2, <1>3

\* The steps of the phone.
LEMMA PhoneKeepsIInv ==
  ASSUME TypeOK, IInv, NEW l \in Link, Tap(l) \/ LinkGone(l) \/ PhoneStep(l)
  PROVE  IInv'
<1> USE LinkParts DEF TypeOK, Verdict, TtyKnows, PhoneKnows, Receipts, Once, Goto,
                      daemonVars, phoneVars, waitVars, ttyVars, hookVars
<1>1. CASE Tap(l)
  BY <1>1 DEF Tap, IInv
<1>2. CASE LinkGone(l)
  BY <1>2 DEF LinkGone, IInv
<1>3. CASE LookupRequest(l)
  BY <1>3 DEF LookupRequest, IInv
<1>4. CASE ResolveLink(l)
  <2>1. TtyKnows'
    BY <1>4 DEF ResolveLink, Resolve, Resolvable, IInv
  <2>2. PhoneKnows'
    <3>1. CASE Resolvable(l[1])
      <4>0. state[l[1]] = "pending" /\ l[1] \in Req
        BY <3>1 DEF Resolvable
      <4>1. /\ receipts[l[1]] = <<>> /\ tty[l[1]] # "receipt"
            /\ \A m \in Link : m[1] = l[1] => phone[m] \notin {"receipt", "gauge"}
        <5>1. receipts[l[1]] = <<>>
          BY <4>0 DEF IInv
        <5>2. tty[l[1]] # "receipt"
          BY <4>0 DEF IInv
        <5>3. ASSUME NEW m \in Link, m[1] = l[1], phone[m] \in {"receipt", "gauge"}
              PROVE  FALSE
          <6>1. state[m[1]] = m[2]
            BY <5>3 DEF IInv
          <6>2. m[2] # "pending"
            BY DEF Verdict
          <6> QED
            BY <4>0, <5>3, <6>1, <6>2
        <5> QED
          BY <5>1, <5>2, <5>3
      <4>2. /\ state'[l[1]] = l[2] /\ \A x \in Req \ {l[1]} : state'[x] = state[x]
            /\ phone'[l] = "receipt" /\ \A m \in Link \ {l} : phone'[m] = phone[m]
        BY <1>4, <3>1 DEF ResolveLink, Resolve
      <4> QED
        <5>0. UNCHANGED <<present, receipts, tty>>
          BY <1>4 DEF ResolveLink
        <5>1. ASSUME NEW m \in Link, m # l, phone[m] \in {"receipt", "gauge", "outcome"}
              PROVE  m[1] # l[1] \/ phone[m] = "outcome"
          BY <4>1, <5>1
        <5>2. ASSUME NEW m \in Link, phone'[m] \in {"receipt", "gauge"}
              PROVE  state'[m[1]] = m[2]
          <6>1. CASE m = l
            BY <4>2, <6>1
          <6>2. CASE m # l
            <7>1. phone[m] \in {"receipt", "gauge"} /\ m[1] \in Req \ {l[1]}
              BY <4>2, <5>1, <5>2, <6>2
            <7> QED
              BY <4>2, <7>1 DEF IInv
          <6> QED
            BY <6>1, <6>2
        <5>3. ASSUME NEW m \in Link, phone'[m] = "receipt"
              PROVE  receipts'[m[1]] = <<>> /\ tty'[m[1]] # "receipt"
          BY <4>1, <4>2, <5>0, <5>3 DEF IInv
        <5>4. ASSUME NEW m \in Link, phone'[m] = "outcome"
              PROVE  m[1] \notin present' \/ state'[m[1]] # "pending"
          BY <4>2, <5>0, <5>4, SMTT(30) DEF IInv
        <5> QED
          BY <5>2, <5>3, <5>4
    <3>2. CASE ~Resolvable(l[1])
      BY <1>4, <3>2 DEF ResolveLink, Resolvable, IInv
    <3> QED
      BY <3>1, <3>2
  <2>3. Receipts' /\ Once'
    BY <1>4 DEF ResolveLink, Resolve, Resolvable, IInv
  <2> QED
    BY <2>1, <2>2, <2>3 DEF IInv
<1>5. CASE ReceiptLink(l)
  <2>1. /\ l[2] = state[l[1]] /\ receipts[l[1]] = <<>> /\ state[l[1]] # "pending"
        /\ tty[l[1]] # "receipt"
    <3>1. phone[l] = "receipt"
      BY <1>5 DEF ReceiptLink
    <3>2. state[l[1]] = l[2] /\ receipts[l[1]] = <<>> /\ tty[l[1]] # "receipt"
      BY <3>1, Zenon DEF IInv
    <3>3. l[2] # "pending"
      BY DEF Verdict
    <3> HIDE DEF TypeOK
    <3> QED
      BY <3>2, <3>3
  <2>2. receipts'[l[1]] \in {<<>>, <<state[l[1]]>>}
    <3>1. \/ receipts' = [receipts EXCEPT ![l[1]] = Append(@, l[2])]
          \/ receipts' = receipts
      BY <1>5 DEF ReceiptLink
    <3>2. Append(<<>>, l[2]) = <<state[l[1]]>>
      BY <2>1
    <3>3. CASE receipts' = receipts
      BY <2>1, <3>3
    <3>4. CASE receipts' = [receipts EXCEPT ![l[1]] = Append(@, l[2])]
      <4>1. receipts'[l[1]] = Append(receipts[l[1]], l[2])
        BY <3>4
      <4> QED
        BY <2>1, <3>2, <4>1
    <3> QED
      BY <3>1, <3>3, <3>4
  <2>3. \A x \in Req \ {l[1]} : receipts'[x] = receipts[x]
    BY <1>5 DEF ReceiptLink
  <2>4. Receipts'
    BY <1>5, <2>1, <2>2, <2>3 DEF ReceiptLink, IInv
  <2>5. TtyKnows'
    BY <1>5, <2>1, <2>3 DEF ReceiptLink, IInv
  <2>6. ASSUME NEW m \in Link, m # l, phone[m] = "receipt"
        PROVE  m[1] # l[1]
    BY <2>1, <2>6, LinksDiffer DEF IInv
  <2>7. PhoneKnows'
    BY <1>5, <2>3, <2>6 DEF ReceiptLink, IInv
  <2>8. Once'
    BY <1>5 DEF ReceiptLink, IInv
  <2> QED
    BY <2>4, <2>5, <2>7, <2>8 DEF IInv
<1>6. CASE CountLink(l)
  BY <1>6 DEF CountLink, IInv
<1>7. CASE ShowOutcome(l)
  BY <1>7 DEF ShowOutcome, IInv
<1> QED
  BY <1>1, <1>2, <1>3, <1>4, <1>5, <1>6, <1>7 DEF PhoneStep

\* A crash of the daemon forgets who had won and leaves what was decided.
LEMMA DaemonKeepsIInv ==
  ASSUME TypeOK, IInv, DaemonCrash \/ DaemonStart
  PROVE  IInv'
<1> USE LinkParts DEF TypeOK, Verdict, TtyKnows, PhoneKnows, Receipts, Once,
                      daemonVars, phoneVars, waitVars, ttyVars, hookVars
<1>1. CASE DaemonCrash
  <2>1. TtyKnows' /\ Receipts'
    BY <1>1 DEF DaemonCrash, IInv
  <2>2. PhoneKnows'
    BY <1>1 DEF DaemonCrash, IInv
  <2>3. Once'
    BY <1>1 DEF DaemonCrash, IInv
  <2> QED
    BY <2>1, <2>2, <2>3 DEF IInv
<1>2. CASE DaemonStart
  BY <1>2 DEF DaemonStart, IInv
<1> QED
  BY <1>1, <1>2

\* A step of any handler keeps what they know.
LEMMA IInvStep == TypeOK /\ IInv /\ [Next]_vars => IInv'
<1> SUFFICES ASSUME TypeOK, IInv, [Next]_vars
             PROVE  IInv'
  OBVIOUS
<1>1. CASE UNCHANGED vars
  BY <1>1 DEF vars, daemonVars, phoneVars, waitVars, ttyVars, hookVars,
              IInv, TtyKnows, PhoneKnows, Receipts, Once
<1> QED
  BY <1>1, HookKeepsIInv, TtyKeepsIInv, PhoneKeepsIInv, DaemonKeepsIInv DEF Next

\* Types and knowledge together are kept by every handler, by the hook and by a
\* crash of the daemon.
THEOREM Invariance == Spec => [](TypeOK /\ IInv)
BY TypingInit, IInvInit, TypingStep, IInvStep, PTL DEF Spec

\* The handlers of hook, phone, terminal and waiter keep to the states and
\* answers their Go code has (TypeOK).
THEOREM ApprovalTyping == Spec => []TypeOK
BY Invariance, PTL

-----------------------------------------------------------------------------
(* What follows from it.                                                   *)

\* The audit log holds at most one receipt per request, and of the decision that
\* was made (ReceiptIsDecision; content_server.go:547-557).
THEOREM OneReceipt == Spec => []ReceiptIsDecision
<1>1. IInv => ReceiptIsDecision
  BY DEF IInv, Receipts, ReceiptIsDecision
<1> QED
  BY <1>1, Invariance, PTL

\* Whatever the order of phone, terminal, deadline and crash, the approve loop
\* does what Answer promises (FirstAnswerWins; docs/agent-safety.md:26-29).
THEOREM ImplementsAnswer == Spec => FirstAnswerWins
<1> DEFINE Seen == <<state, result, page>>
<1>1. Init => A!Init
  BY DEF Init, A!Init
<1>2. TypeOK /\ IInv /\ [Next]_vars => [A!Next]_Seen
  <2> SUFFICES ASSUME TypeOK, IInv, [Next]_vars
               PROVE  A!Next \/ UNCHANGED Seen
    OBVIOUS
  <2> USE LinkParts DEF daemonVars, phoneVars, waitVars, ttyVars, hookVars
  <2>1. ASSUME NEW r \in Req, NEW d \in Verdict, Resolve(r, d), UNCHANGED <<result, page>>
        PROVE  A!Next
    BY <2>1 DEF Resolve, A!Next, A!Decide, Verdict
  <2>2. ASSUME NEW r \in Req, Exit(r, "block"), hook[r] # "done", UNCHANGED <<state, page>>
        PROVE  A!Next
    BY <2>2 DEF Exit, A!Next, A!Block, IInv, Once
  <2>3. ASSUME NEW r \in Req, Exit(r, "allow"), hook[r] # "done", state[r] = "approved",
               UNCHANGED <<state, page>>
        PROVE  A!Next
    BY <2>3 DEF Exit, A!Next, A!Allow, IInv, Once
  <2>4. ASSUME NEW l \in Link, page[l] = "none", UNCHANGED <<state, result>>,
               \/ page' = [page EXCEPT ![l] = "miss"]
               \/ state[l[1]] # "pending" /\ page' = [page EXCEPT ![l] = state[l[1]]]
        PROVE  A!Next
    BY <2>4 DEF A!Next, A!Show, A!ShowMiss
  <2>5. ASSUME NEW r \in Req,
               \/ Ask(r) \/ GiveUp(r) \/ HearWait(r) \/ HearTty(r)
               \/ BeginWait(r) \/ WaitStep(r)
        PROVE  A!Next \/ UNCHANGED Seen
    <3>1. CASE Ask(r) \/ BeginWait(r) \/ WakeResolved(r) \/ EndWait(r)
      BY <3>1 DEF Ask, BeginWait, WakeResolved, EndWait
    <3>2. CASE GiveUp(r)
      BY <2>2, <3>2 DEF GiveUp
    <3>3. CASE HearWait(r)
      BY <2>2, <2>3, <3>3 DEF HearWait, IInv, Once
    <3>4. CASE HearTty(r)
      BY <2>2, <2>3, <3>4 DEF HearTty, IInv, TtyKnows
    <3>5. CASE WakeExpired(r)
      BY <2>1, <3>5 DEF WakeExpired, Verdict
    <3> QED
      BY <2>5, <3>1, <3>2, <3>3, <3>4, <3>5 DEF WaitStep
  <2>6. ASSUME NEW r \in Req, ReceiptTty(r) \/ CountTty(r) \/ \E v \in Verdict : AnswerTty(r, v)
        PROVE  A!Next \/ UNCHANGED Seen
    <3>1. CASE ReceiptTty(r) \/ CountTty(r)
      BY <3>1 DEF ReceiptTty, CountTty
    <3>2. ASSUME NEW v \in Verdict, AnswerTty(r, v)
          PROVE  A!Next \/ UNCHANGED Seen
      BY <2>1, <3>2 DEF AnswerTty
    <3> QED
      BY <2>6, <3>1, <3>2
  <2>7. ASSUME NEW l \in Link, Tap(l) \/ LinkGone(l) \/ PhoneStep(l)
        PROVE  A!Next \/ UNCHANGED Seen
    <3>1. CASE Tap(l) \/ LinkGone(l) \/ ReceiptLink(l)
      BY <3>1 DEF Tap, LinkGone, ReceiptLink
    <3>2. CASE LookupRequest(l)
      BY <2>4, <3>2 DEF LookupRequest, IInv, Once
    <3>3. CASE ResolveLink(l)
      BY <2>1, <3>3 DEF ResolveLink
    <3>4. CASE CountLink(l)
      <4>1. state[l[1]] = l[2] /\ l[2] # "pending" /\ page[l] = "none"
        BY <3>4 DEF CountLink, IInv, PhoneKnows, Once, Verdict
      <4> QED
        BY <2>4, <3>4, <4>1 DEF CountLink
    <3>5. CASE ShowOutcome(l)
      <4>1. (l[1] \notin present \/ state[l[1]] # "pending") /\ page[l] = "none"
        BY <3>5 DEF ShowOutcome, IInv, PhoneKnows, Once
      <4> QED
        BY <2>4, <3>5, <4>1 DEF ShowOutcome
    <3> QED
      BY <2>7, <3>1, <3>2, <3>3, <3>4, <3>5 DEF PhoneStep
  <2>8. CASE DaemonCrash \/ DaemonStart
    BY <2>8 DEF DaemonCrash, DaemonStart
  <2>9. CASE UNCHANGED vars
    BY <2>9 DEF vars
  <2> QED
    BY <2>5, <2>6, <2>7, <2>8, <2>9 DEF Next
<1> QED
  BY <1>1, <1>2, Invariance, PTL DEF Spec, FirstAnswerWins, A!Spec

-----------------------------------------------------------------------------
(* The gauge of open requests counts them.  A request is on the gauge while it is *)
(* open, and after its decision until the one handler that made it has counted it *)
(* off.                                                                            *)

\* The open requests, and those each arm still owes the gauge.
Open == {r \in present : state[r] = "pending"}
TtyOwes == {r \in Req : tty[r] \in {"receipt", "gauge"}}
WaitOwes == {r \in Req : wait[r] = "expired"}
LinkOwes == {l[1] : l \in {m \in Link : phone[m] \in {"receipt", "gauge"}}}
OnGauge == Open \cup TtyOwes \cup WaitOwes \cup LinkOwes

\* At most one arm owes, and what it owes has been decided.
OneOwes ==
  /\ TtyOwes \cap WaitOwes = {} /\ TtyOwes \cap LinkOwes = {} /\ WaitOwes \cap LinkOwes = {}
  /\ \A r \in TtyOwes \cup WaitOwes : state[r] # "pending"

\* A request somebody waits for has not been pruned, and one not yet asked is untouched.
Untouched(r) ==
  state[r] = "pending" /\ r \notin present /\ tty[r] = "none" /\ wait[r] = "none"
Waited ==
  \A r \in Req :
    /\ wait[r] \in {"waiting", "woken", "expired"} => r \in present
    /\ wait[r] = "woken" => state[r] # "pending"
    /\ hook[r] = "new" => Untouched(r)

Counts == gauge = Cardinality(OnGauge)

GInv == TypeOK /\ IInv /\ OneOwes /\ Waited

\* What a handler of the phone owes has been decided as it was tapped.
LEMMA LinkDecided ==
  ASSUME TypeOK, IInv
  PROVE  /\ LinkOwes \subseteq Req /\ \A r \in LinkOwes : state[r] # "pending"
         /\ \A l, m \in Link :
              /\ phone[l] \in {"receipt", "gauge"} /\ phone[m] \in {"receipt", "gauge"}
              /\ l[1] = m[1]
              => l = m
<1>1. \A l \in Link : phone[l] \in {"receipt", "gauge"} => state[l[1]] = l[2]
  BY DEF IInv, PhoneKnows
<1>2. LinkOwes \subseteq Req /\ \A r \in LinkOwes : state[r] # "pending"
  BY <1>1, LinkParts DEF LinkOwes, Verdict
<1>3. ASSUME NEW l \in Link, NEW m \in Link, l[1] = m[1],
             phone[l] \in {"receipt", "gauge"}, phone[m] \in {"receipt", "gauge"}
      PROVE  l = m
  BY <1>1, <1>3, LinksDiffer
<1> QED
  BY <1>2, <1>3

\* The gauge counts a finite set.
LEMMA Finite ==
  ASSUME TypeOK
  PROVE  OnGauge \subseteq Req /\ IsFiniteSet(OnGauge)
<1>1. OnGauge \subseteq Req
  BY LinkParts DEF OnGauge, Open, TtyOwes, WaitOwes, LinkOwes, TypeOK
<1> QED
  BY <1>1, ApprovalAssumption, FS_Subset

\* The gauge and the set it counts move together.
LEMMA Moves ==
  ASSUME TypeOK, Counts, NEW r
  PROVE  /\ OnGauge' = OnGauge \cup {r} /\ r \notin OnGauge /\ gauge' = gauge + 1 => Counts'
         /\ OnGauge' = OnGauge \ {r} /\ r \in OnGauge /\ gauge' = gauge - 1 => Counts'
         /\ OnGauge' = OnGauge /\ gauge' = gauge => Counts'
<1>1. IsFiniteSet(OnGauge)
  BY Finite
<1>2. Cardinality(OnGauge) \in Nat
  BY <1>1, FS_CardinalityType
<1>3. r \notin OnGauge => Cardinality(OnGauge \cup {r}) = Cardinality(OnGauge) + 1
  BY <1>1, FS_AddElement
<1>4. r \in OnGauge => Cardinality(OnGauge \ {r}) = Cardinality(OnGauge) - 1
  BY <1>1, FS_RemoveElement
<1> QED
  BY <1>2, <1>3, <1>4 DEF Counts

\* Nothing is asked and nothing owed at the start.
LEMMA GaugeInit == Init => OneOwes /\ Waited /\ Counts
<1> SUFFICES ASSUME Init PROVE OneOwes /\ Waited /\ Counts
  OBVIOUS
<1>1. Open = {} /\ TtyOwes = {} /\ WaitOwes = {} /\ LinkOwes = {}
  BY DEF Init, Open, TtyOwes, WaitOwes, LinkOwes
<1>2. OnGauge = {}
  BY <1>1 DEF OnGauge
<1>3. Waited
  BY DEF Init, Waited, Untouched
<1> QED
  BY <1>1, <1>2, <1>3, FS_EmptySet DEF Init, OneOwes, Counts

\* A step that leaves the arms and the registry alone leaves the gauge right.
LEMMA Unmoved ==
  ASSUME GInv, Counts, UNCHANGED <<Open, TtyOwes, WaitOwes, LinkOwes, gauge, state>>
  PROVE  OneOwes' /\ Counts'
<1>1. UNCHANGED OnGauge
  BY DEF OnGauge
<1> QED
  BY <1>1, Moves DEF GInv, OneOwes

\* The steps of the hook: a request that is asked goes on the gauge.
LEMMA HookKeepsGauge ==
  ASSUME GInv, Counts, NEW r \in Req, Ask(r) \/ GiveUp(r) \/ HearWait(r) \/ HearTty(r)
  PROVE  OneOwes' /\ Waited' /\ Counts'
<1> USE DEF GInv, TypeOK, daemonVars, phoneVars, waitVars, ttyVars, hookVars
<1>1. CASE Ask(r)
  <2>1. Untouched(r) /\ \A l \in Link : l[1] = r => phone[l] = "idle"
    BY <1>1 DEF Ask, Waited, IInv, Once
  <2>2. r \notin OnGauge
    <3>1. r \notin LinkOwes
      BY <2>1 DEF LinkOwes
    <3> QED
      BY <2>1, <3>1 DEF OnGauge, Open, TtyOwes, WaitOwes, Untouched
  <2>3. Open' = Open \cup {r}
    BY <1>1, <2>1 DEF Ask, Open, Untouched
  <2>4. UNCHANGED <<TtyOwes, WaitOwes, LinkOwes, state>>
    BY <1>1, <2>1 DEF Ask, TtyOwes, WaitOwes, LinkOwes, Untouched
  <2>5. OnGauge' = OnGauge \cup {r}
    BY <2>3, <2>4 DEF OnGauge
  <2>6. Counts'
    BY <1>1, <2>2, <2>5, Moves DEF Ask
  <2>7. Waited'
    BY <1>1, <2>1 DEF Ask, Waited, Untouched
  <2> QED
    BY <2>4, <2>6, <2>7 DEF OneOwes
<1>2. CASE GiveUp(r) \/ HearWait(r) \/ HearTty(r)
  <2>1. UNCHANGED <<Open, TtyOwes, WaitOwes, LinkOwes, gauge, state>>
    BY <1>2 DEF GiveUp, HearWait, HearTty, Exit, Open, TtyOwes, WaitOwes, LinkOwes
  <2>2. Waited'
    BY <1>2 DEF GiveUp, HearWait, HearTty, Exit, Waited, Untouched
  <2> QED
    BY <2>1, <2>2, Unmoved
<1> QED
  BY <1>1, <1>2

\* The waiter: it owes its own denial, and prunes what has been decided.
LEMMA WaiterKeepsGauge ==
  ASSUME GInv, Counts, NEW r \in Req, BeginWait(r) \/ WaitStep(r)
  PROVE  OneOwes' /\ Waited' /\ Counts'
<1> USE DEF GInv, TypeOK, daemonVars, phoneVars, waitVars, ttyVars, hookVars
<1>1. CASE BeginWait(r) \/ WakeResolved(r)
  <2>1. UNCHANGED <<Open, TtyOwes, WaitOwes, LinkOwes, gauge, state>>
    BY <1>1 DEF BeginWait, WakeResolved, Open, TtyOwes, WaitOwes, LinkOwes
  <2>2. Waited'
    BY <1>1 DEF BeginWait, WakeResolved, Waited, Untouched
  <2> QED
    BY <2>1, <2>2, Unmoved
<1>2. CASE WakeExpired(r)
  <2>1. r \in Open /\ state[r] = "pending"
    BY <1>2 DEF WakeExpired, Resolve, Waited, Open
  <2>2. r \notin TtyOwes /\ r \notin LinkOwes
    BY <2>1, LinkDecided DEF OneOwes
  <2>3. Open' = Open \ {r} /\ WaitOwes' = WaitOwes \cup {r} /\ UNCHANGED <<TtyOwes, LinkOwes>>
    BY <1>2 DEF WakeExpired, Resolve, Open, TtyOwes, WaitOwes, LinkOwes
  <2>4. OneOwes'
    BY <1>2, <2>2, <2>3 DEF OneOwes, WakeExpired, Resolve, TtyOwes, WaitOwes
  <2>5. OnGauge' = OnGauge
    BY <2>1, <2>3 DEF OnGauge
  <2>6. Waited'
    BY <1>2 DEF WakeExpired, Resolve, Waited, Untouched
  <2> QED
    BY <1>2, <2>4, <2>5, <2>6, Moves DEF WakeExpired
<1>3. CASE EndWait(r)
  <2>1. r \in WaitOwes <=> wait[r] = "expired"
    BY DEF WaitOwes
  <2>2. state[r] # "pending"
    BY <1>3, <2>1 DEF EndWait, Waited, OneOwes
  <2>3. UNCHANGED <<Open, TtyOwes, LinkOwes, state>> /\ WaitOwes' = WaitOwes \ {r}
    BY <1>3, <2>2 DEF EndWait, Open, TtyOwes, WaitOwes, LinkOwes
  <2>4. OneOwes'
    BY <2>3 DEF OneOwes
  <2>5. r \in WaitOwes => OnGauge' = OnGauge \ {r} /\ r \in OnGauge
    BY <2>2, <2>3 DEF OnGauge, OneOwes, Open
  <2>6. r \notin WaitOwes => OnGauge' = OnGauge
    BY <2>3 DEF OnGauge
  <2>7. Counts'
    BY <1>3, <2>1, <2>5, <2>6, Moves DEF EndWait
  <2>8. Waited'
    BY <1>3 DEF EndWait, Waited, Untouched
  <2> QED
    BY <2>4, <2>7, <2>8
<1> QED
  BY <1>1, <1>2, <1>3 DEF WaitStep

\* The terminal: it owes the decision it won.
LEMMA TtyKeepsGauge ==
  ASSUME GInv, Counts, NEW r \in Req,
         ReceiptTty(r) \/ CountTty(r) \/ \E v \in Verdict : AnswerTty(r, v)
  PROVE  OneOwes' /\ Waited' /\ Counts'
<1> USE DEF GInv, TypeOK, daemonVars, phoneVars, waitVars, ttyVars, hookVars
<1>1. CASE ReceiptTty(r)
  <2>1. UNCHANGED <<Open, TtyOwes, WaitOwes, LinkOwes, gauge, state>>
    BY <1>1 DEF ReceiptTty, Open, TtyOwes, WaitOwes, LinkOwes
  <2>2. Waited'
    BY <1>1 DEF ReceiptTty, Waited, Untouched
  <2> QED
    BY <2>1, <2>2, Unmoved
<1>2. CASE CountTty(r)
  <2>1. r \in TtyOwes /\ r \notin WaitOwes /\ r \notin LinkOwes /\ r \notin Open
    BY <1>2 DEF CountTty, TtyOwes, OneOwes, Open
  <2>2. UNCHANGED <<Open, WaitOwes, LinkOwes, state>> /\ TtyOwes' = TtyOwes \ {r}
    BY <1>2 DEF CountTty, Open, TtyOwes, WaitOwes, LinkOwes
  <2>3. OnGauge' = OnGauge \ {r} /\ r \in OnGauge
    BY <2>1, <2>2 DEF OnGauge
  <2>4. Waited'
    BY <1>2 DEF CountTty, Waited, Untouched
  <2> QED
    BY <1>2, <2>2, <2>3, <2>4, Moves DEF OneOwes, CountTty
<1>3. ASSUME NEW v \in Verdict, AnswerTty(r, v)
      PROVE  OneOwes' /\ Waited' /\ Counts'
  <2>1. Waited'
    BY <1>3 DEF AnswerTty, Resolve, Resolvable, Waited, Untouched, Verdict
  <2>2. CASE ~Resolvable(r)
    <3>1. UNCHANGED <<Open, TtyOwes, WaitOwes, LinkOwes, gauge, state>>
      BY <1>3, <2>2 DEF AnswerTty, Open, TtyOwes, WaitOwes, LinkOwes
    <3> QED
      BY <2>1, <3>1, Unmoved
  <2>3. CASE Resolvable(r)
    <3>1. r \in Open /\ state' = [state EXCEPT ![r] = v] /\ v # "pending"
      BY <1>3, <2>3 DEF AnswerTty, Resolve, Resolvable, Open, Verdict
    <3>2. r \notin WaitOwes /\ r \notin LinkOwes
      BY <3>1, LinkDecided DEF OneOwes, Open
    <3>3. Open' = Open \ {r} /\ TtyOwes' = TtyOwes \cup {r} /\ UNCHANGED <<WaitOwes, LinkOwes>>
      BY <1>3, <2>3, <3>1 DEF AnswerTty, Open, TtyOwes, WaitOwes, LinkOwes
    <3>4. OneOwes'
      BY <3>1, <3>2, <3>3 DEF OneOwes, TtyOwes, WaitOwes
    <3>5. OnGauge' = OnGauge
      BY <3>1, <3>3 DEF OnGauge
    <3> QED
      BY <1>3, <2>1, <3>4, <3>5, Moves DEF AnswerTty
  <2> QED
    BY <2>2, <2>3
<1> QED
  BY <1>1, <1>2, <1>3

\* The phone: a tapped link owes the decision it won, and the other one does not.
LEMMA PhoneKeepsGauge ==
  ASSUME GInv, Counts, NEW l \in Link, Tap(l) \/ LinkGone(l) \/ PhoneStep(l)
  PROVE  OneOwes' /\ Waited' /\ Counts'
<1> USE DEF GInv, TypeOK, daemonVars, phoneVars, waitVars, ttyVars, hookVars
<1>0. l[1] \in Req /\ l[2] \in Verdict
  BY LinkParts
<1>1. CASE \/ Tap(l) \/ LinkGone(l) \/ LookupRequest(l) \/ ReceiptLink(l) \/ ShowOutcome(l)
           \/ ResolveLink(l) /\ ~Resolvable(l[1])
  <2>1. \A m \in Link : phone'[m] \in {"receipt", "gauge"} <=> phone[m] \in {"receipt", "gauge"}
    BY <1>1 DEF Tap, LinkGone, LookupRequest, ReceiptLink, ShowOutcome, ResolveLink, Goto,
                IInv, Once
  <2>2. UNCHANGED <<present, state, gauge, tty, wait, hook>>
    BY <1>1 DEF Tap, LinkGone, LookupRequest, ReceiptLink, ShowOutcome, ResolveLink
  <2>3. UNCHANGED <<Open, TtyOwes, WaitOwes, LinkOwes>>
    BY <2>1, <2>2 DEF Open, TtyOwes, WaitOwes, LinkOwes
  <2>4. Waited'
    BY <2>2 DEF Waited, Untouched
  <2> QED
    BY <2>2, <2>3, <2>4, Unmoved
<1>2. CASE ResolveLink(l) /\ Resolvable(l[1])
  <2>1. l[1] \in Open /\ state' = [state EXCEPT ![l[1]] = l[2]] /\ l[2] # "pending"
    BY <1>0, <1>2 DEF ResolveLink, Resolve, Resolvable, Open, Verdict
  <2>2. phone' = [phone EXCEPT ![l] = "receipt"] /\ phone[l] = "resolve"
        /\ UNCHANGED <<present, gauge, tty, wait, hook>>
    BY <1>2 DEF ResolveLink, Goto
  <2>3. l[1] \notin TtyOwes /\ l[1] \notin WaitOwes
    BY <2>1 DEF OneOwes, Open
  <2>4. Open' = Open \ {l[1]} /\ UNCHANGED <<TtyOwes, WaitOwes>>
    BY <1>0, <2>1, <2>2 DEF Open, TtyOwes, WaitOwes
  <2>5. \A m \in Link : phone'[m] \in {"receipt", "gauge"}
          <=> m = l \/ phone[m] \in {"receipt", "gauge"}
    BY <2>2
  <2>6. LinkOwes' = LinkOwes \cup {l[1]}
    BY <2>5 DEF LinkOwes
  <2>7. OneOwes'
    BY <2>1, <2>3, <2>4, <2>6 DEF OneOwes, TtyOwes, WaitOwes
  <2>8. OnGauge' = OnGauge
    BY <2>1, <2>4, <2>6 DEF OnGauge
  <2>9. Waited'
    BY <2>1, <2>2 DEF Waited, Untouched, Open
  <2> QED
    BY <2>2, <2>7, <2>8, <2>9, Moves
<1>3. CASE CountLink(l)
  <2>1. phone' = [phone EXCEPT ![l] = "done"] /\ phone[l] = "gauge" /\ gauge' = gauge - 1
        /\ UNCHANGED <<present, state, tty, wait, hook>>
    BY <1>3 DEF CountLink, Goto
  <2>2. l[1] \in LinkOwes
    BY <2>1 DEF LinkOwes
  <2>3. l[1] \notin TtyOwes /\ l[1] \notin WaitOwes /\ l[1] \notin Open
    BY <2>2, LinkDecided DEF OneOwes, Open
  <2>4. \A m \in Link : phone'[m] \in {"receipt", "gauge"}
          <=> m # l /\ phone[m] \in {"receipt", "gauge"}
    BY <2>1
  <2>5. \A m \in Link : m # l /\ phone[m] \in {"receipt", "gauge"} => m[1] # l[1]
    BY <2>1, LinkDecided
  <2>6. LinkOwes' = LinkOwes \ {l[1]}
    BY <2>4, <2>5 DEF LinkOwes
  <2>7. UNCHANGED <<Open, TtyOwes, WaitOwes>>
    BY <2>1 DEF Open, TtyOwes, WaitOwes
  <2>8. OneOwes'
    BY <2>1, <2>6, <2>7 DEF OneOwes
  <2>9. OnGauge' = OnGauge \ {l[1]} /\ l[1] \in OnGauge
    BY <2>2, <2>3, <2>6, <2>7 DEF OnGauge
  <2>10. Waited'
    BY <2>1 DEF Waited, Untouched
  <2> QED
    BY <2>1, <2>8, <2>9, <2>10, Moves
<1> QED
  BY <1>1, <1>2, <1>3 DEF PhoneStep

\* A crash forgets the requests, the arms and the gauge together.
LEMMA DaemonKeepsGauge ==
  ASSUME GInv, Counts, DaemonCrash \/ DaemonStart
  PROVE  OneOwes' /\ Waited' /\ Counts'
<1> USE DEF GInv, TypeOK, daemonVars, phoneVars, waitVars, ttyVars, hookVars
<1>1. CASE DaemonCrash
  <2>1. Open' = {} /\ TtyOwes' = {} /\ WaitOwes' = {} /\ LinkOwes' = {} /\ gauge' = 0
    BY <1>1 DEF DaemonCrash, Open, TtyOwes, WaitOwes, LinkOwes
  <2>2. OnGauge' = {}
    BY <2>1 DEF OnGauge
  <2>3. Counts'
    BY <2>1, <2>2, FS_EmptySet DEF Counts
  <2>4. Waited'
    BY <1>1 DEF DaemonCrash, Waited, Untouched
  <2> QED
    BY <2>1, <2>3, <2>4 DEF OneOwes
<1>2. CASE DaemonStart
  <2>1. UNCHANGED <<Open, TtyOwes, WaitOwes, LinkOwes, gauge, state>>
    BY <1>2 DEF DaemonStart, Open, TtyOwes, WaitOwes, LinkOwes
  <2>2. Waited'
    BY <1>2 DEF DaemonStart, Waited, Untouched
  <2> QED
    BY <2>1, <2>2, Unmoved
<1> QED
  BY <1>1, <1>2

\* What is on the gauge is open or owed, and never both.
LEMMA OnGaugeSplits ==
  ASSUME GInv, Counts
  PROVE  GaugeCountsOpen
<1>1. Uncounted = TtyOwes \cup WaitOwes \cup LinkOwes
  BY DEF Uncounted, TtyOwes, WaitOwes, LinkOwes
<1>2. OnGauge = Open \cup Uncounted
  BY <1>1 DEF OnGauge
<1>3. Open \cap Uncounted = {}
  BY <1>1, LinkDecided DEF GInv, OneOwes, Open
<1>4. IsFiniteSet(Open) /\ IsFiniteSet(Uncounted)
  BY <1>2, Finite, FS_Subset DEF GInv
<1>5. Cardinality(OnGauge) = Cardinality(Open) + Cardinality(Uncounted) - Cardinality({})
  BY <1>2, <1>3, <1>4, FS_Union
<1>6. Cardinality(Open) \in Nat /\ Cardinality(Uncounted) \in Nat /\ Cardinality({}) = 0
  BY <1>4, FS_CardinalityType, FS_EmptySet
<1> QED
  BY <1>5, <1>6 DEF Counts, GaugeCountsOpen, Open

\* approve_pending counts the requests still open and the decisions their one
\* handler has yet to count off, for any set of requests, answered from the phone,
\* the terminal or by the deadline, over any crashes of the daemon (server.go:
\* 556-574, 868-871; content_server.go:549-561).
THEOREM GaugeIsRight == Spec => []GaugeCountsOpen
<1>1. Init => OneOwes /\ Waited /\ Counts
  BY GaugeInit
<1>2. TypeOK /\ IInv /\ OneOwes /\ Waited /\ Counts /\ [Next]_vars => OneOwes' /\ Waited' /\ Counts'
  <2> SUFFICES ASSUME GInv, Counts, [Next]_vars
               PROVE  OneOwes' /\ Waited' /\ Counts'
    BY DEF GInv
  <2>1. ASSUME NEW r \in Req, Ask(r) \/ GiveUp(r) \/ HearWait(r) \/ HearTty(r)
        PROVE  OneOwes' /\ Waited' /\ Counts'
    BY <2>1, HookKeepsGauge
  <2>2. ASSUME NEW r \in Req, BeginWait(r) \/ WaitStep(r)
        PROVE  OneOwes' /\ Waited' /\ Counts'
    BY <2>2, WaiterKeepsGauge
  <2>3. ASSUME NEW r \in Req, ReceiptTty(r) \/ CountTty(r) \/ \E v \in Verdict : AnswerTty(r, v)
        PROVE  OneOwes' /\ Waited' /\ Counts'
    BY <2>3, TtyKeepsGauge
  <2>4. ASSUME NEW l \in Link, Tap(l) \/ LinkGone(l) \/ PhoneStep(l)
        PROVE  OneOwes' /\ Waited' /\ Counts'
    BY <2>4, PhoneKeepsGauge
  <2>5. CASE DaemonCrash \/ DaemonStart
    BY <2>5, DaemonKeepsGauge
  <2>6. CASE UNCHANGED vars
    <3>1. UNCHANGED <<Open, TtyOwes, WaitOwes, LinkOwes, gauge, state>>
      BY <2>6 DEF vars, daemonVars, phoneVars, waitVars, ttyVars, hookVars,
                  Open, TtyOwes, WaitOwes, LinkOwes
    <3>2. Waited'
      BY <2>6 DEF vars, daemonVars, phoneVars, waitVars, ttyVars, hookVars, Waited, Untouched, GInv
    <3> QED
      BY <3>1, <3>2, Unmoved
  <2> QED
    BY <2>1, <2>2, <2>3, <2>4, <2>5, <2>6 DEF Next
<1>3. TypeOK /\ IInv /\ OneOwes /\ Waited /\ Counts => GaugeCountsOpen
  BY OnGaugeSplits DEF GInv
<1> QED
  BY <1>1, <1>2, <1>3, Invariance, PTL DEF Spec
=============================================================================
