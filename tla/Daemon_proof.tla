---------------------------- MODULE Daemon_proof ----------------------------
(***************************************************************************)
(* The parts of the daemon, and the budget watcher, for every number of    *)
(* callers, notes, links, requests, pipes and cells, and every bound.      *)
(***************************************************************************)
EXTENDS MCDaemon, FiniteSetTheorems, WellFoundedInduction, TLAPS

-----------------------------------------------------------------------------
(* No silent loss of a notification.  WindowHasNote is not inductive alone: *)
(* a caller that comes back from a send lets go of its note, which must be *)
(* delivered by then, and one that is idle must have nothing to let go of. *)

\* What a caller holds, by its step.
CallerHolds ==
  /\ pc \in [Caller -> {"idle", "send", "meta", "queue", "sent"}]
  /\ note \in [Caller -> Note \cup {NoNote}]
  /\ \A c \in Caller : pc[c] \in {"idle", "meta"} <=> note[c] = NoNote
  /\ \A c \in Caller : pc[c] = "sent" /\ (\E s \in Slot : cooldown[s] = note[c])
                         => note[c] \in delivered

RunnerHolds == runner # "send" => todo = {}

WindowTyping == cooldown \in [Slot -> Note \cup {NoNote}]

IInv == WindowTyping /\ CallerHolds /\ RunnerHolds /\ WindowHasNote

LEMMA InitInv == Init => IInv
<1> SUFFICES ASSUME Init PROVE IInv
  OBVIOUS
<1>1. WindowTyping
  BY DEF Init, WindowTyping
<1>2. CallerHolds
  BY DEF Init, CallerHolds
<1>3. WindowHasNote
  BY DEF Init, WindowHasNote
<1>4. RunnerHolds
  BY DEF Init, RunnerHolds
<1> QED
  BY <1>1, <1>2, <1>3, <1>4 DEF IInv

\* A step that ends windows, or none, and neither moves a note nor a caller.
LEMMA Lapse ==
  ASSUME IInv,
         cooldown' \in [Slot -> Note \cup {NoNote}],
         \A s \in Slot : cooldown'[s] \in {cooldown[s], NoNote},
         UNCHANGED <<callVars, delivered, runner, todo>>,
         \A s \in Slot : cooldown'[s] \in Held /\ cooldown'[s] # NoNote => cooldown'[s] \in Held'
  PROVE  IInv'
<1>1. WindowTyping'
  BY DEF WindowTyping
<1>2. CallerHolds'
  BY DispatchAssumption DEF IInv, CallerHolds, WindowTyping, callVars
<1>3. WindowHasNote'
  BY DEF IInv, WindowHasNote
<1>4. RunnerHolds'
  BY DEF IInv, RunnerHolds
<1> QED
  BY <1>1, <1>2, <1>3, <1>4 DEF IInv

\* Released windows are gone, the others as they were.
LEMMA Released ==
  ASSUME WindowTyping, NEW N, Release(N)
  PROVE  /\ cooldown' \in [Slot -> Note \cup {NoNote}]
         /\ \A s \in Slot : cooldown'[s] \in {cooldown[s], NoNote}
         /\ \A s \in Slot : cooldown'[s] # NoNote => cooldown'[s] \notin N
  BY DEF Release, WindowTyping

LEMMA DispatchStep ==
  ASSUME IInv, NEW c \in Caller, NEW k \in Key, NEW e \in Epoch, Dispatch(c, k, e)
  PROVE  IInv'
<1> DEFINE top  == IF c \notin Explicit /\ e > maxEpoch THEN e ELSE maxEpoch
           kept == [s \in Slot |-> IF s \in Live(top) THEN cooldown[s] ELSE NoNote]
<1>k. /\ kept \in [Slot -> Note \cup {NoNote}]
      /\ \A s \in Slot : kept[s] \in {cooldown[s], NoNote}
  BY DEF IInv, WindowTyping
<1>h. UNCHANGED <<retry, runner, todo, failed>>
  BY DEF Dispatch, queueVars, runVars
<1>1. CASE cooldown' = kept /\ UNCHANGED <<note, delivered>>
           /\ (pc' = pc \/ pc' = [pc EXCEPT ![c] = "idle"] \/ pc' = [pc EXCEPT ![c] = "meta"])
  <2>1. WindowTyping'
    BY <1>1, <1>k DEF WindowTyping
  <2>2. CallerHolds'
    <3>1. pc[c] = "idle"
      BY DEF Dispatch
    <3> QED
      BY <3>1, <1>1, <1>k DEF IInv, CallerHolds
  <2>3. Held' = Held
    BY <1>1, <1>h DEF Held
  <2>4. WindowHasNote'
    BY <2>3, <1>1, <1>k DEF IInv, WindowHasNote
  <2> QED
    BY <2>1, <2>2, <2>4, <1>h DEF IInv, RunnerHolds
<1>2. CASE \E n \in Fresh :
             /\ note' = [note EXCEPT ![c] = n]
             /\ delivered' = delivered \ {n}
             /\ cooldown' = IF c \notin Explicit THEN [kept EXCEPT ![<<k, e>>] = n] ELSE kept
             /\ pc' = [pc EXCEPT ![c] = "send"]
  <2>1. PICK n \in Fresh :
             /\ note' = [note EXCEPT ![c] = n]
             /\ delivered' = delivered \ {n}
             /\ cooldown' = IF c \notin Explicit THEN [kept EXCEPT ![<<k, e>>] = n] ELSE kept
             /\ pc' = [pc EXCEPT ![c] = "send"]
    BY <1>2
  <2>2. n \in Note /\ n \notin Held /\ \A s \in Slot : cooldown[s] # n
    BY DEF Fresh
  <2>3. pc[c] = "idle" /\ note[c] = NoNote
    BY DEF Dispatch, IInv, CallerHolds
  <2>w. \A s \in Slot : cooldown'[s] \in {cooldown[s], NoNote, n}
    BY <2>1, <1>k
  <2>4. WindowTyping'
    BY <2>1, <2>2, <1>k DEF WindowTyping
  <2>5. CallerHolds'
    <3>1. \A d \in Caller : note[d] # n
      BY <2>2 DEF Held
    <3>2. pc' \in [Caller -> {"idle", "send", "meta", "queue", "sent"}]
          /\ note' \in [Caller -> Note \cup {NoNote}]
      BY <2>1, <2>2 DEF IInv, CallerHolds
    <3>3. ASSUME NEW d \in Caller PROVE pc'[d] \in {"idle", "meta"} <=> note'[d] = NoNote
      BY <2>1, <2>2, DispatchAssumption DEF IInv, CallerHolds
    <3>4. ASSUME NEW d \in Caller, pc'[d] = "sent", NEW s \in Slot, cooldown'[s] = note'[d]
          PROVE  note'[d] \in delivered'
      <4>1. d # c /\ note'[d] = note[d] /\ pc[d] = "sent"
        BY <3>4, <2>1 DEF IInv, CallerHolds
      <4>2. note[d] # NoNote /\ note[d] # n
        BY <4>1, <3>1 DEF IInv, CallerHolds
      <4> QED
        BY <4>1, <4>2, <3>4, <2>1, <2>w DEF IInv, CallerHolds
    <3> QED
      BY <3>2, <3>3, <3>4 DEF CallerHolds
  <2>6. \A m : m \in Held /\ m # NoNote => m \in Held'
    BY <2>1, <2>3, <1>h DEF Held, IInv, CallerHolds
  <2>7. n \in Held'
    BY <2>1 DEF Held, IInv, CallerHolds
  <2>8. WindowHasNote'
    BY <2>1, <2>2, <2>6, <2>7, <2>w DEF IInv, WindowHasNote
  <2> QED
    BY <2>4, <2>5, <2>8, <1>h DEF IInv, RunnerHolds
<1> QED
  BY <1>1, <1>2 DEF Dispatch

LEMMA CallerSteps ==
  ASSUME IInv, NEW c \in Caller, CallerStep(c)
  PROVE  IInv'
<1>c. /\ cooldown \in [Slot -> Note \cup {NoNote}]
      /\ pc \in [Caller -> {"idle", "send", "meta", "queue", "sent"}]
      /\ note \in [Caller -> Note \cup {NoNote}]
  BY DEF IInv, WindowTyping, CallerHolds
<1>1. CASE Send(c)
  <2>1. UNCHANGED <<cooldown, note, retry, runner, todo, failed>>
    BY <1>1 DEF Send, lockVars, queueVars, runVars
  <2>2. /\ pc' = [pc EXCEPT ![c] = "sent"] \/ pc' = [pc EXCEPT ![c] = "queue"]
        /\ pc[c] = "send"
        /\ \A m \in delivered : (\E s \in Slot : cooldown[s] = m) => m \in delivered'
        /\ pc'[c] = "sent" /\ (\E s \in Slot : cooldown[s] = note[c]) => note[c] \in delivered'
    BY <1>1, <1>c DEF Send, Deliver
  <2>3. CallerHolds'
    BY <2>1, <2>2, <1>c DEF IInv, CallerHolds
  <2>4. WindowHasNote'
    BY <2>1, <2>2 DEF IInv, WindowHasNote, Held
  <2> QED
    BY <2>1, <2>3, <2>4 DEF IInv, WindowTyping, RunnerHolds
<1>2. CASE SendFloodMeta(c)
  <2>1. UNCHANGED <<cooldown, note, retry, runner, todo, failed, delivered>>
    BY <1>2 DEF SendFloodMeta, lockVars, queueVars, runVars
  <2>2. pc' = [pc EXCEPT ![c] = "idle"] /\ pc[c] = "meta"
    BY <1>2 DEF SendFloodMeta
  <2>3. CallerHolds'
    BY <2>1, <2>2, <1>c DEF IInv, CallerHolds
  <2> QED
    BY <2>1, <2>3 DEF IInv, WindowTyping, WindowHasNote, Held, RunnerHolds
<1>3. CASE Sent(c)
  <2>1. UNCHANGED <<cooldown, retry, runner, todo, failed, delivered>>
    BY <1>3 DEF Sent, queueVars, runVars
  <2>2. /\ pc[c] = "sent" /\ pc' = [pc EXCEPT ![c] = "idle"]
        /\ note' = [note EXCEPT ![c] = NoNote]
    BY <1>3 DEF Sent
  <2>3. CallerHolds'
    BY <2>1, <2>2, <1>c DEF IInv, CallerHolds
  <2>4. ASSUME NEW s \in Slot, cooldown[s] # NoNote, cooldown[s] \in Held
        PROVE  cooldown[s] \in delivered \cup Held'
    <3>1. CASE cooldown[s] = note[c]
      BY <3>1, <2>2, <2>4 DEF IInv, CallerHolds
    <3>2. CASE cooldown[s] # note[c]
      BY <3>2, <2>1, <2>2, <2>4, <1>c DEF Held
    <3> QED
      BY <3>1, <3>2
  <2>5. WindowHasNote'
    BY <2>1, <2>4 DEF IInv, WindowHasNote
  <2> QED
    BY <2>1, <2>3, <2>5 DEF IInv, WindowTyping, RunnerHolds
<1>4. CASE EnqueueRetry(c)
  <2> DEFINE gone == Overflow(retry, RetryDepth - 1)
  <2>1. /\ pc[c] = "queue" /\ pc' = [pc EXCEPT ![c] = "idle"]
        /\ note' = [note EXCEPT ![c] = NoNote]
        /\ retry' = (retry \ gone) \cup {note[c]} /\ Release(gone)
        /\ UNCHANGED <<runner, todo, failed, delivered>>
    BY <1>4 DEF EnqueueRetry, runVars
  <2>2. /\ cooldown' \in [Slot -> Note \cup {NoNote}]
        /\ \A s \in Slot : cooldown'[s] \in {cooldown[s], NoNote}
        /\ \A s \in Slot : cooldown'[s] # NoNote => cooldown'[s] \notin gone
    BY <2>1, Released DEF IInv
  <2>3. CallerHolds'
    <3>1. ASSUME NEW d \in Caller, pc'[d] = "sent", NEW s \in Slot, cooldown'[s] = note'[d]
          PROVE  note'[d] \in delivered'
      BY <3>1, <2>1, <2>2, <1>c DEF IInv, CallerHolds
    <3> QED
      BY <3>1, <2>1, <1>c DEF IInv, CallerHolds
  <2>4. \A m : m \in Held /\ m # NoNote /\ m \notin gone => m \in Held'
    BY <2>1, <1>c DEF Held
  <2>5. WindowHasNote'
    BY <2>1, <2>2, <2>4 DEF IInv, WindowHasNote
  <2> QED
    BY <2>1, <2>2, <2>3, <2>5 DEF IInv, WindowTyping, RunnerHolds
<1> QED
  BY <1>1, <1>2, <1>3, <1>4 DEF CallerStep

LEMMA RunnerSteps ==
  ASSUME IInv, RunnerStep
  PROVE  IInv'
<1>1. CASE TakeDue
  <2> DEFINE gone == {n \in retry : n \in aged \/ attempts[n] >= MaxAttempts}
             take == (retry \ gone) \cap due
  <2>1. /\ retry' = retry \ (gone \cup take) /\ todo' = take
        /\ Release(gone) /\ UNCHANGED <<pc, note, failed, delivered>>
        /\ runner = "tick" /\ runner' = IF take = {} THEN "tick" ELSE "send"
    BY <1>1 DEF TakeDue, callVars
  <2>2. /\ cooldown' \in [Slot -> Note \cup {NoNote}]
        /\ \A s \in Slot : cooldown'[s] \in {cooldown[s], NoNote}
        /\ \A s \in Slot : cooldown'[s] # NoNote => cooldown'[s] \notin gone
    BY <2>1, Released DEF IInv
  <2>3. todo = {}
    BY <2>1 DEF IInv, RunnerHolds
  <2>4. \A m : m \in Held /\ m \notin gone => m \in Held'
    BY <2>1, <2>3 DEF Held
  <2>5. CallerHolds'
    BY <2>1, <2>2, DispatchAssumption DEF IInv, CallerHolds
  <2>6. WindowHasNote'
    BY <2>1, <2>2, <2>4 DEF IInv, WindowHasNote
  <2>7. RunnerHolds'
    BY <2>1 DEF RunnerHolds
  <2> QED
    BY <2>2, <2>5, <2>6, <2>7 DEF IInv, WindowTyping
<1>2. CASE RetrySend
  <2>1. PICK n \in todo : /\ todo' = todo \ {n}
                          /\ \/ Deliver(n) /\ UNCHANGED failed
                             \/ failed' = failed \cup {n} /\ UNCHANGED delivered
    BY <1>2 DEF RetrySend, FailsAgain
  <2>2. UNCHANGED <<cooldown, retry, pc, note>>
    BY <1>2 DEF RetrySend, lockVars, callVars
  <2>3. \A m \in delivered \cup Held :
          (\E s \in Slot : cooldown[s] = m) => m \in delivered' \cup Held'
    BY <2>1, <2>2 DEF Held, Deliver
  <2>4. \A m \in delivered : (\E s \in Slot : cooldown[s] = m) => m \in delivered'
    BY <2>1 DEF Deliver
  <2>5. CallerHolds'
    BY <2>2, <2>4 DEF IInv, CallerHolds
  <2>6. WindowHasNote'
    BY <2>2, <2>3 DEF IInv, WindowHasNote
  <2>7. RunnerHolds'
    BY <1>2 DEF RetrySend, RunnerHolds
  <2> QED
    BY <2>2, <2>5, <2>6, <2>7 DEF IInv, WindowTyping
<1>3. CASE Requeue
  <2> DEFINE gone == Overflow(retry \cup failed, RetryDepth)
  <2>1. /\ retry' = (retry \cup failed) \ gone /\ Release(gone) /\ failed' = {}
        /\ UNCHANGED <<pc, note, todo, delivered>>
        /\ runner = "requeue"
    BY <1>3 DEF Requeue, callVars
  <2>2. /\ cooldown' \in [Slot -> Note \cup {NoNote}]
        /\ \A s \in Slot : cooldown'[s] \in {cooldown[s], NoNote}
        /\ \A s \in Slot : cooldown'[s] # NoNote => cooldown'[s] \notin gone
    BY <2>1, Released DEF IInv
  <2>3. \A m : m \in Held /\ m \notin gone => m \in Held'
    BY <2>1 DEF Held
  <2>4. CallerHolds'
    BY <2>1, <2>2, DispatchAssumption DEF IInv, CallerHolds
  <2>5. WindowHasNote'
    BY <2>1, <2>2, <2>3 DEF IInv, WindowHasNote
  <2>6. RunnerHolds'
    BY <2>1 DEF IInv, RunnerHolds
  <2> QED
    BY <2>2, <2>4, <2>5, <2>6 DEF IInv, WindowTyping
<1> QED
  BY <1>1, <1>2, <1>3 DEF RunnerStep

\* The steps of time and of GET /sessions end windows at most.
LEMMA TimeSteps ==
  ASSUME IInv,
         \/ PaneStats \/ Refill
         \/ \E s \in Slot : WindowLapses(s)
         \/ \E n \in Note : FallsDue(n) \/ GrowsOld(n)
  PROVE  IInv'
<1>1. UNCHANGED <<pc, note, retry, runner, todo, failed, delivered>>
  BY DEF PaneStats, Refill, WindowLapses, FallsDue, GrowsOld, callVars, queueVars, runVars, lockVars
<1>2. /\ cooldown' \in [Slot -> Note \cup {NoNote}]
      /\ \A s \in Slot : cooldown'[s] \in {cooldown[s], NoNote}
  BY DEF PaneStats, Refill, WindowLapses, FallsDue, GrowsOld, lockVars, IInv, WindowTyping
<1>3. Held' = Held
  BY <1>1 DEF Held
<1> QED
  BY <1>1, <1>2, <1>3, Lapse DEF callVars

LEMMA Stutter == IInv /\ UNCHANGED vars => IInv'
  BY DEF IInv, WindowTyping, CallerHolds, RunnerHolds, WindowHasNote, Held,
         vars, lockVars, queueVars, callVars, runVars

LEMMA NextInv == IInv /\ [Next]_vars => IInv'
<1> SUFFICES ASSUME IInv, [Next]_vars PROVE IInv'
  OBVIOUS
<1>1. CASE \E c \in Caller : CallerStep(c)
  BY <1>1, CallerSteps
<1>2. CASE \E c \in Caller, k \in Key, e \in Epoch : Dispatch(c, k, e)
  BY <1>2, DispatchStep
<1>3. CASE RunnerStep
  BY <1>3, RunnerSteps
<1>4. CASE \/ PaneStats \/ Refill
           \/ \E s \in Slot : WindowLapses(s)
           \/ \E n \in Note : FallsDue(n) \/ GrowsOld(n)
  BY <1>4, TimeSteps
<1>5. CASE UNCHANGED vars
  BY <1>5, Stutter
<1> QED
  BY <1>1, <1>2, <1>3, <1>4, <1>5 DEF Next

\* A window that suppresses repeats has had its note delivered, or the note is
\* still tried: no interleaving of callers, retries and drops loses one silently
\* (dispatch.go:341-376).
THEOREM NothingSilentlyLost == Spec => []WindowHasNote
<1>1. IInv => WindowHasNote
  BY DEF IInv
<1> QED
  BY <1>1, InitInv, NextInv, PTL DEF Spec

-----------------------------------------------------------------------------
(* The retry queue.  Its bound rests on an order: dropOldestLocked drops    *)
(* the entries that enough others were tried after, and what is left has    *)
(* an oldest entry, which fewer than the depth come after.  So the pairs    *)
(* of firstTried must order all that wait, and what the callers hold must   *)
(* not wait yet, nor be held twice.                                         *)

Waiting == retry \cup todo \cup failed

TriedOrder ==
  /\ firstTried \subseteq Waiting \X Waiting
  /\ \A n, m \in Waiting : n # m <=> (<<n, m>> \in firstTried \/ <<m, n>> \in firstTried)
  /\ \A n, m, l \in Waiting :
       <<n, m>> \in firstTried /\ <<m, l>> \in firstTried => <<n, l>> \in firstTried

OnePlace ==
  /\ retry \cap (todo \cup failed) = {} /\ todo \cap failed = {}
  /\ \A c \in Caller : note[c] \notin Waiting
  /\ \A c, d \in Caller : c # d /\ note[c] # NoNote => note[c] # note[d]

TriesLeft ==
  /\ \A n \in todo : attempts[n] < MaxAttempts
  /\ runner = "tick" => failed = {}

DepthKept == IsFiniteSet(Waiting) /\ Cardinality(retry) <= RetryDepth

QueueInv == TypeOK /\ TriedOrder /\ OnePlace /\ TriesLeft /\ DepthKept

LEMMA FinitePart ==
  ASSUME NEW Q, IsFiniteSet(Q), NEW P, P \subseteq Q
  PROVE  /\ IsFiniteSet(P) /\ Cardinality(P) \in Nat /\ Cardinality(Q) \in Nat
         /\ Cardinality(P) <= Cardinality(Q)
  BY FS_Subset, FS_CardinalityType

\* Of a finite set that firstTried orders, one element is the oldest.
LEMMA OldestExists ==
  ASSUME NEW Q, IsFiniteSet(Q), Q # {},
         \A n, m \in Q : n # m <=> (<<n, m>> \in firstTried \/ <<m, n>> \in firstTried),
         \A n, m, l \in Q :
           <<n, m>> \in firstTried /\ <<m, l>> \in firstTried => <<n, l>> \in firstTried
  PROVE  \E x \in Q : \A y \in Q \ {x} : <<x, y>> \in firstTried
<1> DEFINE Older(n) == {m \in Q : <<m, n>> \in firstTried}
           T == {Older(n) : n \in Q}
           R == StrictSubsetOrdering(Q)
<1>1. T \subseteq FiniteSubsetsOf(Q) /\ T # {}
  <2>1. ASSUME NEW n \in Q PROVE Older(n) \in FiniteSubsetsOf(Q)
    <3>1. Older(n) \subseteq Q
      OBVIOUS
    <3>2. IsFiniteSet(Older(n))
      BY <3>1, FinitePart
    <3> QED
      BY <3>1, <3>2 DEF FiniteSubsetsOf
  <2> HIDE DEF Older
  <2>2. PICK n \in Q : TRUE
    OBVIOUS
  <2>3. Older(n) \in T
    BY <2>2
  <2> QED
    BY <2>1, <2>3
<1>2. IsWellFoundedOn(R, FiniteSubsetsOf(Q))
  BY FS_StrictSubsetOrderingWellFounded
<1> HIDE DEF T, R
<1>3. PICK t \in T : \A u \in T : ~(<<u, t>> \in R)
  BY <1>1, <1>2, WFMin
<1>4. PICK x \in Q : t = Older(x)
  BY DEF T
<1>5. ASSUME NEW y \in Q \ {x} PROVE <<x, y>> \in firstTried
  <2>1. SUFFICES ASSUME <<x, y>> \notin firstTried PROVE FALSE
    OBVIOUS
  <2>2. <<y, x>> \in firstTried
    BY <2>1
  <2>3. Older(y) \subseteq Older(x) /\ y \in Older(x) /\ y \notin Older(y)
    BY <2>2
  <2>4. Older(y) \in T
    BY DEF T
  <2>5. <<Older(y), Older(x)>> \in R
    BY <2>3 DEF R, StrictSubsetOrdering
  <2> QED
    BY <2>4, <2>5, <1>3, <1>4
<1> QED
  BY <1>5

\* What dropOldestLocked leaves is within the depth.
LEMMA OverflowLeaves ==
  ASSUME NEW Q, IsFiniteSet(Q), NEW depth \in Nat,
         \A n, m \in Q : n # m <=> (<<n, m>> \in firstTried \/ <<m, n>> \in firstTried),
         \A n, m, l \in Q :
           <<n, m>> \in firstTried /\ <<m, l>> \in firstTried => <<n, l>> \in firstTried
  PROVE  Cardinality(Q \ Overflow(Q, depth)) <= depth
<1> DEFINE L == Q \ Overflow(Q, depth)
<1>1. L \subseteq Q /\ IsFiniteSet(L) /\ Cardinality(L) \in Nat
  BY FinitePart
<1>2. CASE L = {}
  BY <1>2, FS_EmptySet
<1>3. CASE L # {}
  <2>1. PICK x \in L : \A y \in L \ {x} : <<x, y>> \in firstTried
    BY <1>1, <1>3, OldestExists
  <2> DEFINE Later == {m \in Q : <<x, m>> \in firstTried}
  <2>2. ~(Cardinality(Later) >= depth)
    BY <2>1 DEF Overflow
  <2>3. L \ {x} \subseteq Later /\ Later \subseteq Q
    BY <2>1, <1>1
  <2>4. /\ Cardinality(L \ {x}) = Cardinality(L) - 1
    BY <1>1, FS_RemoveElement
  <2>5. /\ Cardinality(L \ {x}) <= Cardinality(Later)
        /\ Cardinality(L \ {x}) \in Nat /\ Cardinality(Later) \in Nat
    <3>1. IsFiniteSet(Later)
      BY <2>3, FinitePart
    <3> QED
      BY <3>1, <2>3, FinitePart
  <2> HIDE DEF L, Later
  <2>6. Cardinality(L) <= depth
    BY <2>2, <2>4, <2>5, <1>1
  <2> QED
    BY <2>6 DEF L
<1> QED
  BY <1>2, <1>3

\* What of the entries is left keeps the depth.
LEMMA QueueShrinks ==
  ASSUME QueueInv, Waiting' \subseteq Waiting, retry' \subseteq retry
  PROVE  DepthKept'
<1>1. retry \subseteq Waiting /\ IsFiniteSet(Waiting) /\ Cardinality(retry) <= RetryDepth
  BY DEF Waiting, QueueInv, DepthKept
<1>2. IsFiniteSet(Waiting')
  BY <1>1, FinitePart
<1>3. IsFiniteSet(retry)
  BY <1>1, FinitePart
<1>4. Cardinality(retry') <= Cardinality(retry) /\ Cardinality(retry') \in Nat /\ Cardinality(retry) \in Nat
  BY <1>3, FinitePart
<1>5. Cardinality(retry') <= RetryDepth
  BY <1>1, <1>4, DispatchAssumption
<1> QED
  BY <1>2, <1>5 DEF DepthKept

LEMMA QueueInitInv == Init => QueueInv
<1> SUFFICES ASSUME Init PROVE QueueInv
  OBVIOUS
<1>0. Waiting = {} /\ Cardinality({}) = 0 /\ IsFiniteSet({})
  BY FS_EmptySet DEF Init, Waiting
<1>t. 0 \in 0..MaxAttempts /\ Capacity \in 0..Capacity
  BY DispatchAssumption
<1>1. TypeOK
  BY <1>t DEF Init, TypeOK
<1>2. TriedOrder
  BY <1>0 DEF Init, TriedOrder
<1>3. OnePlace
  BY <1>0 DEF Init, OnePlace
<1>4. TriesLeft
  BY DEF Init, TriesLeft
<1>5. DepthKept
  BY <1>0, DispatchAssumption DEF Init, DepthKept
<1> QED
  BY <1>1, <1>2, <1>3, <1>4, <1>5 DEF QueueInv

\* Nothing that waits has moved.
LEMMA QueueStays ==
  ASSUME QueueInv, UNCHANGED <<retry, todo, failed, firstTried>>
  PROVE  Waiting' = Waiting /\ TriedOrder' /\ DepthKept'
<1>1. Waiting' = Waiting
  BY DEF Waiting
<1> QED
  BY <1>1 DEF QueueInv, TriedOrder, DepthKept

\* Entries that leave for good leave an order of those that stay.
LEMMA ForgetKeepsOrder ==
  ASSUME TriedOrder, NEW N, Forget(N), Waiting' = Waiting \ N
  PROVE  TriedOrder'
  BY DEF TriedOrder, Forget

\* A new entry comes last in the order.
LEMMA EnqueueKeepsOrder ==
  ASSUME TriedOrder, NEW N, NEW n, n \notin Waiting, Waiting' = (Waiting \ N) \cup {n},
         firstTried' = {p \in firstTried : p[1] \notin N /\ p[2] \notin N}
                         \cup {<<m, n>> : m \in Waiting \ N}
  PROVE  TriedOrder'
<1>1. firstTried' \subseteq Waiting' \X Waiting'
  BY DEF TriedOrder
<1>2. ASSUME NEW a \in Waiting \ N, NEW b \in Waiting \ N
      PROVE  <<a, b>> \in firstTried' <=> <<a, b>> \in firstTried
  OBVIOUS
<1>3. ASSUME NEW a \in Waiting \ N PROVE <<a, n>> \in firstTried' /\ <<n, a>> \notin firstTried'
  BY DEF TriedOrder
<1>4. <<n, n>> \notin firstTried'
  BY DEF TriedOrder
<1>5. ASSUME NEW a \in Waiting', NEW b \in Waiting'
      PROVE  a # b <=> (<<a, b>> \in firstTried' \/ <<b, a>> \in firstTried')
  BY <1>2, <1>3, <1>4 DEF TriedOrder
<1>6. ASSUME NEW a \in Waiting', NEW b \in Waiting', NEW l \in Waiting',
             <<a, b>> \in firstTried', <<b, l>> \in firstTried'
      PROVE  <<a, l>> \in firstTried'
  <2>1. b \in Waiting \ N /\ a \in Waiting \ N
    BY <1>3, <1>4, <1>6
  <2>2. CASE l = n
    BY <2>1, <2>2, <1>3
  <2>3. CASE l # n
    BY <2>1, <2>3, <1>2, <1>6 DEF TriedOrder
  <2> QED
    BY <2>2, <2>3
<1> QED
  BY <1>1, <1>5, <1>6 DEF TriedOrder

\* Released windows lose their repeat counters.
LEMMA ReleasedCounts ==
  ASSUME TypeOK, NEW N, Release(N)
  PROVE  cooldown' \in [Slot -> Note \cup {NoNote}] /\ suppressed' \in [Slot -> BOOLEAN]
  BY DEF Release, TypeOK

LEMMA DispatchKeepsQueue ==
  ASSUME QueueInv, IInv, NEW c \in Caller, NEW k \in Key, NEW e \in Epoch, Dispatch(c, k, e)
  PROVE  QueueInv'
<1> DEFINE top  == IF c \notin Explicit /\ e > maxEpoch THEN e ELSE maxEpoch
           live == Live(top)
           kept == [s \in Slot |-> IF s \in live THEN cooldown[s] ELSE NoNote]
<1>1. /\ UNCHANGED <<retry, firstTried, attempts, due, aged, runner, todo, failed>>
      /\ maxEpoch' = top /\ pc[c] = "idle"
  BY DEF Dispatch, queueVars, runVars
<1>2. /\ kept \in [Slot -> Note \cup {NoNote}] /\ Counts(live) \in [Slot -> BOOLEAN]
      /\ <<k, e>> \in Slot
  BY DEF QueueInv, TypeOK, Counts, Slot
<1>3. Waiting' = Waiting /\ TriedOrder' /\ DepthKept' /\ TriesLeft'
  BY <1>1, QueueStays DEF QueueInv, TriesLeft
<1>4. maxEpoch' \in Epoch \cup {0}
  BY <1>1 DEF QueueInv, TypeOK
<1>n. note' \in [Caller -> Note \cup {NoNote}] /\ OnePlace' /\ delivered' \subseteq Note
  <2>1. CASE UNCHANGED <<note, delivered>>
    BY <2>1, <1>3, <1>1 DEF QueueInv, OnePlace, TypeOK
  <2>2. CASE \E n \in Fresh : note' = [note EXCEPT ![c] = n] /\ delivered' = delivered \ {n}
    <3>1. PICK n \in Fresh : note' = [note EXCEPT ![c] = n] /\ delivered' = delivered \ {n}
      BY <2>2
    <3>2. n \in Note /\ n \notin Waiting /\ \A d \in Caller : note[d] # n
      BY DEF Fresh, Held, Waiting
    <3> QED
      BY <3>1, <3>2, <1>1, <1>3 DEF QueueInv, OnePlace, TypeOK
  <2> QED
    BY <2>1, <2>2 DEF Dispatch
<1> HIDE DEF top, live
<1>s. /\ cooldown' \in [Slot -> Note \cup {NoNote}] /\ suppressed' \in [Slot -> BOOLEAN]
  <2>1. CASE cooldown' = kept
    BY <2>1, <1>2 DEF Dispatch, top, live
  <2>2. CASE \E n \in Fresh : cooldown' = IF c \notin Explicit THEN [kept EXCEPT ![<<k, e>>] = n] ELSE kept
    BY <2>2, <1>2 DEF Dispatch, Fresh, top, live
  <2> QED
    BY <2>1, <2>2 DEF Dispatch, top, live
<1>p. /\ pc' \in [Caller -> {"idle", "send", "meta", "queue", "sent"}] /\ tokens' \in 0..Capacity
  BY DispatchAssumption DEF Dispatch, QueueInv, TypeOK
<1>f. floodNotified' \in BOOLEAN
  BY DEF Dispatch, QueueInv, TypeOK
<1>5. TypeOK'
  BY <1>1, <1>4, <1>n, <1>s, <1>p, <1>f DEF QueueInv, TypeOK
<1> QED
  BY <1>3, <1>n, <1>5 DEF QueueInv

LEMMA CallerKeepsQueue ==
  ASSUME QueueInv, IInv, NEW c \in Caller, CallerStep(c)
  PROVE  QueueInv'
<1>c. note[c] \in Note \/ pc[c] \in {"idle", "meta"}
  BY DEF IInv, CallerHolds
<1>1. CASE Send(c) \/ SendFloodMeta(c) \/ Sent(c)
  <2>1. /\ UNCHANGED <<cooldown, suppressed, maxEpoch, tokens, retry, firstTried, attempts, due,
                       aged, runner, todo, failed>>
        /\ note' = note \/ note' = [note EXCEPT ![c] = NoNote]
        /\ pc' \in [Caller -> {"idle", "send", "meta", "queue", "sent"}]
    BY <1>1 DEF Send, SendFloodMeta, Sent, lockVars, queueVars, runVars, QueueInv, TypeOK
  <2>2. delivered' \subseteq Note
    BY <1>1, <1>c DEF Send, SendFloodMeta, Sent, Deliver, QueueInv, TypeOK
  <2>3. floodNotified' \in BOOLEAN
    BY <1>1 DEF Send, SendFloodMeta, Sent, lockVars, QueueInv, TypeOK
  <2>4. TypeOK'
    BY <2>1, <2>2, <2>3 DEF QueueInv, TypeOK
  <2>5. Waiting' = Waiting /\ TriedOrder' /\ DepthKept' /\ TriesLeft'
    BY <2>1, QueueStays DEF QueueInv, TriesLeft
  <2>6. \A w \in Waiting : w \in Note
    BY DEF Waiting, QueueInv, TypeOK
  <2>7. OnePlace'
    BY <2>1, <2>5, <2>6, DispatchAssumption DEF QueueInv, OnePlace, TypeOK
  <2> QED
    BY <2>4, <2>5, <2>7 DEF QueueInv
<1>2. CASE EnqueueRetry(c)
  <2> DEFINE gone == Overflow(retry, RetryDepth - 1)
             n == note[c]
  <2>1. /\ pc[c] = "queue" /\ retry' = (retry \ gone) \cup {n} /\ Release(gone)
        /\ firstTried' = {p \in firstTried : p[1] \notin gone /\ p[2] \notin gone}
                           \cup {<<m, n>> : m \in (retry \cup todo \cup failed) \ gone}
        /\ attempts' = [m \in Note |-> IF m = n THEN 1 ELSE IF m \in gone THEN 0 ELSE attempts[m]]
        /\ due' = due \ gone /\ aged' = aged \ gone
        /\ pc' = [pc EXCEPT ![c] = "idle"] /\ note' = [note EXCEPT ![c] = NoNote]
        /\ UNCHANGED <<maxEpoch, tokens, floodNotified, runner, todo, failed, delivered>>
    BY <1>2 DEF EnqueueRetry, runVars
  <2>2. n \in Note /\ n \notin Waiting /\ gone \subseteq retry
    BY <2>1, <1>c DEF QueueInv, OnePlace, Overflow
  <2> HIDE DEF gone, n
  <2>3. Waiting' = (Waiting \ gone) \cup {n}
    BY <2>1, <2>2 DEF Waiting, QueueInv, OnePlace
  <2>4. TriedOrder'
    <3>1. firstTried' = {p \in firstTried : p[1] \notin gone /\ p[2] \notin gone}
                         \cup {<<m, n>> : m \in Waiting \ gone}
      BY <2>1 DEF Waiting
    <3> QED
      BY <2>2, <2>3, <3>1, EnqueueKeepsOrder DEF QueueInv
  <2>5. DepthKept'
    <3>1. retry \subseteq Waiting /\ IsFiniteSet(Waiting)
      BY DEF Waiting, QueueInv, DepthKept
    <3>2. IsFiniteSet(retry)
      BY <3>1, FinitePart
    <3>3. RetryDepth - 1 \in Nat
      BY DispatchAssumption
    <3>4. Cardinality(retry \ gone) <= RetryDepth - 1
      BY <3>1, <3>2, <3>3, OverflowLeaves DEF gone, QueueInv, TriedOrder
    <3>5. IsFiniteSet(retry \ gone) /\ Cardinality(retry \ gone) \in Nat
      BY <3>2, FinitePart
    <3>6. Cardinality(retry') <= Cardinality(retry \ gone) + 1
      <4>1. Cardinality((retry \ gone) \cup {n}) =
              IF n \in retry \ gone THEN Cardinality(retry \ gone)
              ELSE Cardinality(retry \ gone) + 1
        BY <3>5, FS_AddElement
      <4>2. retry' = (retry \ gone) \cup {n}
        BY <2>1
      <4> QED
        BY <3>5, <4>1, <4>2
    <3>7. IsFiniteSet((Waiting \ gone) \cup {n})
      <4>1. IsFiniteSet(Waiting \ gone)
        BY <3>1, FinitePart
      <4> QED
        BY <4>1, FS_AddElement
    <3>8. IsFiniteSet(retry') /\ Cardinality(retry') \in Nat
      BY <2>1, <3>5, FS_AddElement, FS_CardinalityType
    <3>9. Cardinality(retry') <= RetryDepth
      BY <3>4, <3>5, <3>6, <3>8, DispatchAssumption
    <3> QED
      BY <2>3, <3>7, <3>9 DEF DepthKept
  <2>6. TypeOK'
    <3>1. cooldown' \in [Slot -> Note \cup {NoNote}] /\ suppressed' \in [Slot -> BOOLEAN]
      BY <2>1, ReleasedCounts DEF QueueInv
    <3>2. attempts' \in [Note -> 0..MaxAttempts]
      <4>1. 1 \in 0..MaxAttempts /\ 0 \in 0..MaxAttempts
        BY DispatchAssumption
      <4> QED
        BY <4>1, <2>1 DEF QueueInv, TypeOK
    <3>3. firstTried' \subseteq Note \X Note
      BY <2>1, <2>2 DEF QueueInv, TypeOK
    <3> QED
      BY <2>1, <2>2, <3>1, <3>2, <3>3 DEF QueueInv, TypeOK
  <2>7. OnePlace'
    <3>1. \A w \in Waiting : w \in Note
      BY DEF Waiting, QueueInv, TypeOK
    <3>2. \A d \in Caller \ {c} : note[d] # n
      BY <2>2, DispatchAssumption DEF QueueInv, OnePlace, n
    <3>3. \A d \in Caller : note'[d] \notin Waiting'
      BY <2>1, <2>2, <2>3, <3>1, <3>2, DispatchAssumption DEF QueueInv, OnePlace, TypeOK
    <3>4. retry' \cap (todo' \cup failed') = {} /\ todo' \cap failed' = {}
      BY <2>1, <2>2 DEF QueueInv, OnePlace, Waiting
    <3>5. \A d1, d2 \in Caller : d1 # d2 /\ note'[d1] # NoNote => note'[d1] # note'[d2]
      BY <2>1 DEF QueueInv, OnePlace, TypeOK
    <3> QED
      BY <3>3, <3>4, <3>5 DEF OnePlace
  <2>8. TriesLeft'
    <3>1. \A m \in todo : m \in Note /\ m # n /\ m \notin gone
      BY <2>2 DEF QueueInv, OnePlace, Waiting, TypeOK
    <3> QED
      BY <2>1, <3>1 DEF QueueInv, TriesLeft
  <2> QED
    BY <2>4, <2>5, <2>6, <2>7, <2>8 DEF QueueInv
<1> QED
  BY <1>1, <1>2 DEF CallerStep

LEMMA RunnerKeepsQueue ==
  ASSUME QueueInv, IInv, RunnerStep
  PROVE  QueueInv'
<1>1. CASE TakeDue
  <2> DEFINE gone == {n \in retry : n \in aged \/ attempts[n] >= MaxAttempts}
             take == (retry \ gone) \cap due
  <2>1. /\ runner = "tick" /\ retry' = retry \ (gone \cup take) /\ todo' = take
        /\ Release(gone) /\ Forget(gone) /\ runner' \in {"tick", "send"}
        /\ UNCHANGED <<maxEpoch, tokens, floodNotified, pc, note, failed, delivered>>
    BY <1>1 DEF TakeDue, callVars
  <2>2. todo = {} /\ failed = {}
    BY <2>1 DEF IInv, RunnerHolds, QueueInv, TriesLeft
  <2>3. Waiting' = Waiting \ gone /\ Waiting' \subseteq Waiting
    BY <2>1, <2>2 DEF Waiting
  <2>4. TriedOrder'
    BY <2>1, <2>3, ForgetKeepsOrder DEF QueueInv
  <2>5. TriesLeft'
    <3>1. \A n \in take : n \in Note /\ attempts[n] < MaxAttempts /\ n \notin gone
      BY DispatchAssumption DEF QueueInv, TypeOK
    <3> QED
      BY <2>1, <2>2, <3>1 DEF TriesLeft, Forget
  <2>6. TypeOK'
    <3>1. attempts' \in [Note -> 0..MaxAttempts] /\ firstTried' \subseteq Note \X Note
      BY <2>1, DispatchAssumption DEF Forget, QueueInv, TypeOK
    <3>2. cooldown' \in [Slot -> Note \cup {NoNote}] /\ suppressed' \in [Slot -> BOOLEAN]
      BY <2>1, ReleasedCounts DEF QueueInv
    <3> QED
      BY <2>1, <3>1, <3>2 DEF Forget, QueueInv, TypeOK
  <2>7. OnePlace'
    BY <2>1, <2>2, <2>3 DEF QueueInv, OnePlace
  <2>8. DepthKept'
    <3>1. retry' \subseteq retry /\ retry \subseteq Waiting
      BY <2>1 DEF Waiting
    <3> QED
      BY <2>3, <3>1, QueueShrinks DEF QueueInv
  <2> QED
    BY <2>4, <2>5, <2>6, <2>7, <2>8 DEF QueueInv
<1>2. CASE RetrySend
  <2>1. PICK n \in todo :
          /\ todo' = todo \ {n}
          /\ \/ Deliver(n) /\ Forget({n}) /\ UNCHANGED failed
             \/ FailsAgain(n)
    BY <1>2 DEF RetrySend
  <2>2. /\ UNCHANGED <<cooldown, suppressed, maxEpoch, tokens, floodNotified, retry, pc, note>>
        /\ runner' = IF todo' # {} THEN "send" ELSE IF failed' = {} THEN "tick" ELSE "requeue"
    BY <1>2 DEF RetrySend, lockVars, callVars
  <2>3. n \in Note /\ n \in Waiting /\ n \notin retry /\ n \notin failed /\ attempts[n] < MaxAttempts
    BY DEF QueueInv, TypeOK, OnePlace, TriesLeft, Waiting
  <2>a. \A m \in todo' : m \in Note /\ m # n /\ attempts[m] < MaxAttempts
    BY <2>1 DEF QueueInv, TypeOK, TriesLeft
  <2>4. CASE Deliver(n) /\ Forget({n}) /\ UNCHANGED failed
    <3>1. Waiting' = Waiting \ {n}
      BY <2>1, <2>2, <2>3, <2>4 DEF Waiting
    <3>2. TriedOrder'
      BY <2>4, <3>1, ForgetKeepsOrder DEF QueueInv
    <3>3. TriesLeft'
      BY <2>a, <2>2, <2>4 DEF Forget, TriesLeft
    <3>4. delivered' \subseteq Note
      BY <2>3, <2>4 DEF Deliver, QueueInv, TypeOK
    <3>5. attempts' \in [Note -> 0..MaxAttempts] /\ firstTried' \subseteq Note \X Note
      BY <2>4, DispatchAssumption DEF Forget, QueueInv, TypeOK
    <3>6. TypeOK'
      BY <2>1, <2>2, <2>4, <3>4, <3>5 DEF Forget, QueueInv, TypeOK
    <3>7. OnePlace'
      BY <2>1, <2>2, <2>4, <3>1 DEF QueueInv, OnePlace
    <3>8. DepthKept'
      BY <2>2, <3>1, QueueShrinks DEF QueueInv
    <3> QED
      BY <3>2, <3>3, <3>6, <3>7, <3>8 DEF QueueInv
  <2>5. CASE FailsAgain(n)
    <3>0. /\ failed' = failed \cup {n} /\ attempts' = [attempts EXCEPT ![n] = @ + 1]
          /\ due' = due \ {n} /\ UNCHANGED <<delivered, firstTried, aged>>
      BY <2>5 DEF FailsAgain
    <3>1. Waiting' = Waiting
      BY <2>1, <2>2, <2>3, <3>0 DEF Waiting
    <3>2. TriedOrder'
      BY <3>0, <3>1 DEF QueueInv, TriedOrder
    <3>3. TriesLeft'
      BY <2>a, <2>2, <3>0 DEF QueueInv, TypeOK, TriesLeft
    <3>5. attempts' \in [Note -> 0..MaxAttempts]
      <4>1. attempts[n] + 1 \in 0..MaxAttempts
        BY <2>3, DispatchAssumption DEF QueueInv, TypeOK
      <4> QED
        BY <4>1, <3>0 DEF QueueInv, TypeOK
    <3>6. TypeOK'
      BY <2>1, <2>2, <2>3, <3>0, <3>5 DEF QueueInv, TypeOK
    <3>7. OnePlace'
      BY <2>1, <2>2, <2>3, <3>0, <3>1 DEF QueueInv, OnePlace
    <3>8. DepthKept'
      BY <2>2, <3>1 DEF QueueInv, DepthKept
    <3> QED
      BY <3>2, <3>3, <3>6, <3>7, <3>8 DEF QueueInv
  <2> QED
    BY <2>1, <2>4, <2>5
<1>3. CASE Requeue
  <2> DEFINE gone == Overflow(retry \cup failed, RetryDepth)
  <2>1. /\ runner = "requeue" /\ runner' = "tick" /\ failed' = {}
        /\ retry' = (retry \cup failed) \ gone /\ Release(gone) /\ Forget(gone)
        /\ UNCHANGED <<maxEpoch, tokens, floodNotified, pc, note, todo, delivered>>
    BY <1>3 DEF Requeue, callVars
  <2> HIDE DEF gone
  <2>2. todo = {}
    BY <2>1 DEF IInv, RunnerHolds
  <2>3. Waiting' = Waiting \ gone /\ Waiting' \subseteq Waiting /\ Waiting = retry \cup failed
    BY <2>1, <2>2 DEF Waiting
  <2>4. TriedOrder'
    BY <2>1, <2>3, ForgetKeepsOrder DEF QueueInv
  <2>5. TriesLeft'
    BY <2>1, <2>2 DEF TriesLeft
  <2>6. TypeOK'
    <3>1. attempts' \in [Note -> 0..MaxAttempts] /\ firstTried' \subseteq Note \X Note
      BY <2>1, DispatchAssumption DEF Forget, QueueInv, TypeOK
    <3>2. cooldown' \in [Slot -> Note \cup {NoNote}] /\ suppressed' \in [Slot -> BOOLEAN]
      BY <2>1, ReleasedCounts DEF QueueInv
    <3> QED
      BY <2>1, <3>1, <3>2 DEF Forget, QueueInv, TypeOK
  <2>7. OnePlace'
    BY <2>1, <2>2, <2>3 DEF QueueInv, OnePlace
  <2>8. DepthKept'
    <3>1. IsFiniteSet(Waiting) /\ RetryDepth \in Nat
      BY DispatchAssumption DEF QueueInv, DepthKept
    <3>2. Cardinality(Waiting \ gone) <= RetryDepth
      <4>1. gone = Overflow(Waiting, RetryDepth)
        BY <2>3 DEF gone
      <4> QED
        BY <4>1, <3>1, OverflowLeaves DEF QueueInv, TriedOrder
    <3>3. IsFiniteSet(Waiting')
      BY <2>3, <3>1, FinitePart
    <3>4. retry' = Waiting \ gone
      BY <2>1, <2>3
    <3> QED
      BY <3>2, <3>3, <3>4 DEF DepthKept
  <2> QED
    BY <2>4, <2>5, <2>6, <2>7, <2>8 DEF QueueInv
<1> QED
  BY <1>1, <1>2, <1>3 DEF RunnerStep

LEMMA TimeKeepsQueue ==
  ASSUME QueueInv,
         \/ PaneStats \/ Refill
         \/ \E s \in Slot : WindowLapses(s)
         \/ \E n \in Note : FallsDue(n) \/ GrowsOld(n)
  PROVE  QueueInv'
<1>1. UNCHANGED <<pc, note, retry, firstTried, attempts, runner, todo, failed, delivered, maxEpoch>>
  BY DEF PaneStats, Refill, WindowLapses, FallsDue, GrowsOld, callVars, queueVars, runVars, lockVars
<1>2. /\ cooldown' \in [Slot -> Note \cup {NoNote}] /\ suppressed' \in [Slot -> BOOLEAN]
  BY DEF PaneStats, Refill, WindowLapses, FallsDue, GrowsOld, lockVars, QueueInv, TypeOK, Counts
<1>3. /\ tokens' \in 0..Capacity /\ due' \subseteq Note /\ aged' \subseteq Note
  BY DispatchAssumption
     DEF PaneStats, Refill, WindowLapses, FallsDue, GrowsOld, lockVars, queueVars, QueueInv, TypeOK
<1>4. UNCHANGED floodNotified
  BY DEF PaneStats, Refill, WindowLapses, FallsDue, GrowsOld, lockVars
<1>5. TypeOK'
  BY <1>1, <1>2, <1>3, <1>4 DEF QueueInv, TypeOK
<1>6. Waiting' = Waiting /\ TriedOrder' /\ DepthKept'
  BY <1>1, QueueStays
<1>7. OnePlace' /\ TriesLeft'
  BY <1>1, <1>6 DEF QueueInv, OnePlace, TriesLeft
<1> QED
  BY <1>5, <1>6, <1>7 DEF QueueInv

LEMMA QueueNextInv == QueueInv /\ IInv /\ [Next]_vars => QueueInv'
<1> SUFFICES ASSUME QueueInv, IInv, [Next]_vars PROVE QueueInv'
  OBVIOUS
<1>1. CASE \E c \in Caller : CallerStep(c)
  BY <1>1, CallerKeepsQueue
<1>2. CASE \E c \in Caller, k \in Key, e \in Epoch : Dispatch(c, k, e)
  BY <1>2, DispatchKeepsQueue
<1>3. CASE RunnerStep
  BY <1>3, RunnerKeepsQueue
<1>4. CASE \/ PaneStats \/ Refill
           \/ \E s \in Slot : WindowLapses(s)
           \/ \E n \in Note : FallsDue(n) \/ GrowsOld(n)
  BY <1>4, TimeKeepsQueue
<1>5. CASE UNCHANGED vars
  <2>1. Waiting' = Waiting /\ TriedOrder' /\ DepthKept'
    BY <1>5, QueueStays DEF vars, queueVars, runVars
  <2> QED
    BY <1>5, <2>1 DEF vars, lockVars, queueVars, callVars, runVars, QueueInv, TypeOK, OnePlace, TriesLeft
<1> QED
  BY <1>1, <1>2, <1>3, <1>4, <1>5 DEF Next

\* The retry queue keeps its depth, and an entry is in one place, whatever the callers
\* add while the runner has its entries out (dispatch.go:419-433).
THEOREM QueueKeepsItsDepth == Spec => [](TypeOK /\ QueueBounded)
<1>1. QueueInv => TypeOK /\ QueueBounded
  BY DEF QueueInv, TriedOrder, OnePlace, DepthKept, Waiting, QueueBounded
<1>2. IInv /\ [Next]_vars => IInv'
  BY NextInv
<1> QED
  BY <1>1, <1>2, InitInv, QueueInitInv, QueueNextInv, PTL DEF Spec

-----------------------------------------------------------------------------
(* The store of links.  What LinkAnswersOnce says of a step rests on this:  *)
(* a link in the store has been minted and not been answered, so it is not  *)
(* answered a second time and not minted a second time.                     *)

ServedInv ==
  /\ \A t \in entries : kind[t] # "none" /\ served[t] = 0
  /\ \A t \in Token : served[t] <= 1 /\ (kind[t] = "none" => served[t] = 0)

ContentInv == ContentTypeOK /\ ServedInv

LEMMA ContentInitInv == ContentInit => ContentInv
<1> SUFFICES ASSUME ContentInit PROVE ContentInv
  OBVIOUS
<1>1. IsFiniteSet({}) /\ Cardinality({}) <= MaxEntries
  BY FS_EmptySet, ContentAssumption
<1>2. ContentTypeOK
  BY <1>1 DEF ContentInit, ContentTypeOK
<1> QED
  BY <1>2 DEF ContentInit, ContentInv, ServedInv

\* Some of the links are kept.
LEMMA KeepTyping ==
  ASSUME ContentTypeOK, NEW E, E \subseteq entries
  PROVE  /\ IsFiniteSet(E) /\ Cardinality(E) \in Nat /\ Cardinality(E) <= Cardinality(entries)
         /\ Cardinality(E) <= MaxEntries
         /\ Keep(E) => /\ entries' \subseteq Token /\ minted' \subseteq entries' \X entries'
                       /\ IsFiniteSet(entries') /\ Cardinality(entries') <= MaxEntries
<1>1. /\ IsFiniteSet(E) /\ IsFiniteSet(entries)
      /\ Cardinality(E) <= Cardinality(entries)
  BY FS_Subset DEF ContentTypeOK
<1>2. Cardinality(E) \in Nat /\ Cardinality(entries) \in Nat
  BY <1>1, FS_CardinalityType
<1>3. Cardinality(E) <= MaxEntries
  BY <1>1, <1>2, ContentAssumption DEF ContentTypeOK
<1>4. ASSUME Keep(E) PROVE /\ entries' \subseteq Token /\ minted' \subseteq entries' \X entries'
                           /\ IsFiniteSet(entries') /\ Cardinality(entries') <= MaxEntries
  BY <1>1, <1>3, <1>4 DEF Keep, ContentTypeOK
<1> QED
  BY <1>1, <1>2, <1>3, <1>4

\* A link joins them, when there is room for it.
LEMMA JoinTyping ==
  ASSUME ContentTypeOK, NEW E, E \subseteq entries, NEW t \in Token \ E,
         Cardinality(E) < MaxEntries, Join(E, t)
  PROVE  /\ entries' \subseteq Token /\ minted' \subseteq entries' \X entries'
         /\ IsFiniteSet(entries') /\ Cardinality(entries') <= MaxEntries
<1>1. IsFiniteSet(E) /\ Cardinality(E) \in Nat
  BY KeepTyping
<1>2. IsFiniteSet(E \cup {t}) /\ Cardinality(E \cup {t}) = Cardinality(E) + 1
  BY <1>1, FS_AddElement
<1>3. Cardinality(E \cup {t}) <= MaxEntries
  BY <1>1, <1>2, ContentAssumption
<1>4. entries' = E \cup {t} /\ minted' \subseteq entries' \X entries'
  BY DEF Join
<1> QED
  BY <1>2, <1>3, <1>4 DEF ContentTypeOK

\* The victim of a full store is one of its links, and a bootstrap link only where
\* there is no other.
LEMMA VictimIsRight ==
  ASSUME NEW E, NEW v \in Victims(E)
  PROVE  v \in E /\ (kind[v] = "bootstrap" => \A u \in E : kind[u] = "bootstrap")
<1> DEFINE present == {kind[t] : t \in E}
           classes == IF present = {"bootstrap"} THEN present ELSE present \cap Evictable
<1>1. PICK k \in classes : v \in Oldest(E, k)
  BY DEF Victims
<1>2. v \in E /\ kind[v] = k
  BY <1>1 DEF Oldest
<1>3. ASSUME k = "bootstrap" PROVE \A u \in E : kind[u] = "bootstrap"
  <2>1. present = {"bootstrap"}
    BY <1>3 DEF Evictable
  <2> QED
    BY <2>1
<1> QED
  BY <1>2, <1>3

StoreStep ==
  /\ \A t \in Gone :
       \/ served'[t] > served[t]
       \/ /\ Minted /\ Cardinality(Pruned) = MaxEntries
          /\ kind[t] = "bootstrap" => \A u \in Pruned : kind[u] = "bootstrap"
  /\ \A t \in Token : served'[t] # served[t] => served'[t] = 1 /\ t \notin expired

LEMMA MintKeeps ==
  ASSUME ContentInv, NEW t \in Token, NEW k \in Kind, Mint(t, k)
  PROVE  ContentInv' /\ StoreStep
<1>1. /\ kind[t] = "none" /\ kind' = [kind EXCEPT ![t] = k] /\ UNCHANGED <<expired, served>>
      /\ kind \in [Token -> Kind \cup {"none"}] /\ k # "none"
  BY DEF Mint, ContentInv, ContentTypeOK, Kind, Evictable
<1>2. PICK E : /\ E \subseteq Pruned /\ Join(E, t) /\ Cardinality(E) < MaxEntries
               /\ \A u \in Pruned \ E :
                    /\ Cardinality(Pruned) = MaxEntries
                    /\ kind[u] = "bootstrap" => \A w \in Pruned : kind[w] = "bootstrap"
  <2>1. CASE Cardinality(Pruned) < MaxEntries /\ Join(Pruned, t)
    BY <2>1
  <2>2. CASE /\ Cardinality(Pruned) >= MaxEntries
             /\ \E v \in Victims(Pruned) : Join(Pruned \ {v}, t)
    <3>1. PICK v \in Victims(Pruned) : Join(Pruned \ {v}, t)
      BY <2>2
    <3>2. v \in Pruned /\ (kind[v] = "bootstrap" => \A w \in Pruned : kind[w] = "bootstrap")
      BY VictimIsRight
    <3>3. Pruned \subseteq entries
      BY DEF Pruned
    <3>4. /\ IsFiniteSet(Pruned) /\ Cardinality(Pruned) \in Nat /\ Cardinality(Pruned) <= MaxEntries
      BY <3>3, KeepTyping DEF ContentInv
    <3>5. Cardinality(Pruned) = MaxEntries
      BY <2>2, <3>4, ContentAssumption
    <3>6. Cardinality(Pruned \ {v}) = Cardinality(Pruned) - 1
      BY <3>2, <3>4, FS_RemoveElement
    <3>7. Cardinality(Pruned \ {v}) < MaxEntries
      BY <3>5, <3>6, ContentAssumption
    <3> QED
      BY <3>1, <3>2, <3>5, <3>7
  <2> QED
    BY <2>1, <2>2 DEF Mint
<1>3. E \subseteq entries /\ t \notin E
  BY <1>1, <1>2 DEF Pruned, ContentInv, ServedInv
<1>4. entries' = E \cup {t}
  BY <1>2 DEF Join
<1>5. ContentTypeOK'
  <2>1. /\ entries' \subseteq Token /\ minted' \subseteq entries' \X entries'
        /\ IsFiniteSet(entries') /\ Cardinality(entries') <= MaxEntries
    BY <1>2, <1>3, JoinTyping DEF ContentInv
  <2> QED
    BY <1>1, <2>1 DEF ContentInv, ContentTypeOK
<1>6. ServedInv'
  BY <1>1, <1>3, <1>4 DEF ContentInv, ContentTypeOK, ServedInv
<1>7. StoreStep
  <2>1. Minted
    BY <1>1 DEF Minted
  <2>2. ASSUME NEW u \in Gone PROVE u \in Pruned \ E
    BY <1>4 DEF Gone, Pruned
  <2> QED
    BY <1>1, <1>2, <2>1, <2>2 DEF StoreStep
<1> QED
  BY <1>5, <1>6, <1>7 DEF ContentInv

\* A look that leaves the links that have not expired, but for one it answers.
LEMMA LookKeeps ==
  ASSUME ContentInv, UNCHANGED <<kind, expired>>,
         \/ Keep(Pruned) /\ UNCHANGED served
         \/ \E t \in Pruned : Keep(Pruned \ {t}) /\ served' = [served EXCEPT ![t] = @ + 1]
  PROVE  ContentInv' /\ StoreStep
<1>1. PICK E : /\ E \subseteq Pruned /\ Keep(E)
               /\ served' \in [Token -> Nat]
               /\ \A t \in Token : IF t \in Pruned \ E THEN served'[t] = served[t] + 1
                                   ELSE served'[t] = served[t]
  <2>1. CASE Keep(Pruned) /\ UNCHANGED served
    BY <2>1 DEF ContentInv, ContentTypeOK
  <2>2. CASE \E t \in Pruned : Keep(Pruned \ {t}) /\ served' = [served EXCEPT ![t] = @ + 1]
    <3>1. PICK t \in Pruned : Keep(Pruned \ {t}) /\ served' = [served EXCEPT ![t] = @ + 1]
      BY <2>2
    <3>2. t \in Token
      BY DEF Pruned, ContentInv, ContentTypeOK
    <3> QED
      BY <3>1, <3>2 DEF ContentInv, ContentTypeOK
  <2> QED
    BY <2>1, <2>2
<1>2. E \subseteq entries /\ entries' = E /\ entries \subseteq Token
  BY <1>1 DEF Pruned, Keep, ContentInv, ContentTypeOK
<1>3. ContentTypeOK'
  <2>1. /\ entries' \subseteq Token /\ minted' \subseteq entries' \X entries'
        /\ IsFiniteSet(entries') /\ Cardinality(entries') <= MaxEntries
    BY <1>1, <1>2, KeepTyping DEF ContentInv
  <2> QED
    BY <1>1, <2>1 DEF ContentInv, ContentTypeOK
<1>4. \A t \in Pruned : served[t] = 0 /\ t \notin expired /\ kind[t] # "none"
  BY DEF Pruned, ContentInv, ServedInv
<1>5. ServedInv'
  BY <1>1, <1>2, <1>4 DEF ContentInv, ContentTypeOK, ServedInv
<1>6. StoreStep
  <2>1. ASSUME NEW t \in Gone PROVE served'[t] > served[t]
    <3>1. t \in Pruned \ E /\ t \in Token
      BY <1>2 DEF Gone, Pruned
    <3> QED
      BY <3>1, <1>1, <1>4
  <2>2. ASSUME NEW t \in Token, served'[t] # served[t] PROVE served'[t] = 1 /\ t \notin expired
    BY <2>2, <1>1, <1>4
  <2> QED
    BY <2>1, <2>2 DEF StoreStep
<1> QED
  BY <1>3, <1>5, <1>6 DEF ContentInv

LEMMA ContentStep ==
  ASSUME ContentInv, [ContentNext]_storeVars
  PROVE  ContentInv' /\ [StoreStep]_storeVars
<1>1. CASE \E t \in Token : Expire(t)
  <2>1. PICK t \in Token : Expire(t)
    BY <1>1
  <2>2. /\ UNCHANGED <<entries, minted, kind, served>> /\ expired' = expired \cup {t}
    BY <2>1 DEF Expire
  <2>3. ContentInv'
    BY <2>2 DEF ContentInv, ContentTypeOK, ServedInv
  <2>4. StoreStep
    BY <2>2 DEF StoreStep, Gone
  <2> QED
    BY <2>3, <2>4
<1>2. CASE \E t \in Token, k \in Kind : Mint(t, k)
  BY <1>2, MintKeeps
<1>3. CASE \/ \E t \in Token, authed \in BOOLEAN : Fetch(t, authed)
           \/ \E t \in Token, k \in Kind \ {"content"} : Open(t, k)
  <2>1. PICK t \in Token, k \in Kind, consume \in BOOLEAN : Lookup(t, k, consume)
    BY <1>3 DEF Fetch, Open, Kind, Evictable
  <2> QED
    BY <2>1, LookKeeps DEF Lookup
<1>4. CASE Sweep
  BY <1>4, LookKeeps DEF Sweep
<1>5. CASE UNCHANGED storeVars
  BY <1>5 DEF storeVars, ContentInv, ContentTypeOK, ServedInv
<1> QED
  BY <1>1, <1>2, <1>3, <1>4, <1>5 DEF ContentNext

\* A link of whatever class is answered once at most, before its time is over, and only
\* its answer, its time, or a store full of others takes it away (content.go:165-236).
THEOREM LinksAnswerOnce == ContentSpec => LinkAnswersOnce
<1>1. ContentInv /\ [ContentNext]_storeVars => ContentInv'
  BY ContentStep
<1>2. ContentInv /\ [ContentNext]_storeVars =>
        [/\ \A t \in Gone :
              \/ served'[t] > served[t]
              \/ /\ Minted /\ Cardinality(Pruned) = MaxEntries
                 /\ kind[t] = "bootstrap" => \A u \in Pruned : kind[u] = "bootstrap"
         /\ \A t \in Token : served'[t] # served[t] => served'[t] = 1 /\ t \notin expired]_storeVars
  BY ContentStep DEF StoreStep
<1> QED
  BY <1>1, <1>2, ContentInitInv, PTL DEF ContentSpec, LinkAnswersOnce

-----------------------------------------------------------------------------
(* The budget watcher.  NeverDecidesAlone speaks of steps; what it needs of *)
(* the states is what the answer in hand rests on: a deny the watcher heard *)
(* is the operator's, unless a deadline or the end of the run made it up,   *)
(* and a killing ladder has heard the operator's.                           *)

AskInv ==
  /\ late => asked < MaxAsks
  /\ watcher = "ask" => asked < MaxAsks
  /\ watcher \in {"wait", "heard", "grace"} => asked \in Ask

HeardInv ==
  /\ watcher = "wait" => answer[asked] \in {"pending", "approved", "denied"}
  /\ watcher = "heard" =>
       \/ heard = "approved" /\ answer[asked] = "approved"
       \/ heard = "denied" /\ answer[asked] = "denied"
       \/ heard = "denied" /\ answer[asked] = "expired" /\ (late \/ over)
  /\ watcher = "grace" => answer[asked] = "denied"

BudgetInv == BudgetTypeOK /\ AskInv /\ HeardInv

LEMMA BudgetInitInv == BudgetInit => BudgetInv
<1> SUFFICES ASSUME BudgetInit PROVE BudgetInv
  OBVIOUS
<1>1. /\ <<>> \in Seq(Hash) /\ Len(<<>>) <= StreamSize /\ Len(<<>>) <= LoopWindow
      /\ 0 \in 0..MaxAsks
  BY BudgetAssumption
<1>2. BudgetTypeOK
  BY <1>1 DEF BudgetInit, BudgetTypeOK
<1> QED
  BY <1>2 DEF BudgetInit, BudgetInv, AskInv, HeardInv

\* A command is seen and slides into the window.
LEMMA SlideTyping ==
  ASSUME NEW w \in Seq(Hash), Len(w) <= LoopWindow, NEW h \in Hash
  PROVE  Slide(w, h) \in Seq(Hash) /\ Len(Slide(w, h)) <= LoopWindow
  BY BudgetAssumption DEF Slide

\* A step of the world around the watcher, or of its reading, keeps the invariant.
LEMMA AroundTheLadder ==
  ASSUME BudgetInv,
         \/ \E h \in Hash : Command(h)
         \/ AgentEnds \/ RunEnds \/ Deadline \/ ReadHash \/ Trip \/ Ends
  PROVE  BudgetInv'
<1> USE BudgetAssumption DEF BudgetInv, ladderVars, loopVars
<1>1. CASE \E h \in Hash : Command(h)
  <2>1. stream' \in Seq(Hash) /\ Len(stream') <= StreamSize
    BY <1>1 DEF Command, BudgetTypeOK
  <2> QED
    BY <1>1, <2>1 DEF Command, BudgetTypeOK, AskInv, HeardInv, Ask
<1>2. CASE AgentEnds \/ RunEnds \/ Deadline \/ Trip \/ Ends
  <2>0. tripped' \in BOOLEAN
    BY <1>2 DEF AgentEnds, RunEnds, Deadline, Trip, Ends, BudgetTypeOK
  <2>1. BudgetTypeOK'
    <3>1. /\ agent' \in {"runs", "frozen", "gone"}
          /\ watcher' \in {"watch", "ask", "wait", "heard", "grace", "done"}
          /\ UNCHANGED <<ladder, stream, window, heard, asked, answer>>
      BY <1>2 DEF AgentEnds, RunEnds, Deadline, Trip, Ends, Freeze, BudgetTypeOK
    <3>2. late' \in BOOLEAN /\ over' \in BOOLEAN
      BY <1>2 DEF AgentEnds, RunEnds, Deadline, Trip, Ends, BudgetTypeOK
    <3>3. /\ ladder' \in BOOLEAN /\ stream' \in Seq(Hash) /\ Len(stream') <= StreamSize
          /\ window' \in Seq(Hash) /\ Len(window') <= LoopWindow
          /\ heard' \in {"none", "approved", "denied"} /\ asked' \in 0..MaxAsks
          /\ answer' \in [Ask -> {"none", "pending", "approved", "denied", "expired"}]
      BY <3>1 DEF BudgetTypeOK
    <3> QED
      BY <2>0, <3>1, <3>2, <3>3 DEF BudgetTypeOK
  <2>2. AskInv'
    <3>1. CASE Deadline
      BY <3>1 DEF Deadline, AskInv
    <3>2. CASE Trip
      BY <3>2 DEF Trip, AskInv
    <3>3. CASE AgentEnds \/ RunEnds \/ Ends
      BY <3>3 DEF AgentEnds, RunEnds, Ends, AskInv
    <3> QED
      BY <1>2, <3>1, <3>2, <3>3
  <2>3. HeardInv'
    BY <1>2 DEF AgentEnds, RunEnds, Deadline, Trip, Ends, HeardInv
  <2> QED
    BY <2>1, <2>2, <2>3
<1>3. CASE ReadHash
  <2>1. Head(stream) \in Hash /\ stream' \in Seq(Hash) /\ Len(stream') <= StreamSize
    BY <1>3 DEF ReadHash, BudgetTypeOK
  <2>2. window' \in Seq(Hash) /\ Len(window') <= LoopWindow
    BY <1>3, <2>1, SlideTyping DEF ReadHash, BudgetTypeOK
  <2>3. tripped' \in BOOLEAN
    BY <1>3 DEF ReadHash
  <2> QED
    BY <1>3, <2>1, <2>2, <2>3 DEF ReadHash, BudgetTypeOK, AskInv, HeardInv
<1> QED
  BY <1>1, <1>2, <1>3

\* So does a step of the operator or of the ladder.
LEMMA OnTheLadder ==
  ASSUME BudgetInv,
         \/ \E r \in Ask, a \in {"approved", "denied"} : Answer(r, a)
         \/ LadderStep
  PROVE  BudgetInv'
<1> USE BudgetAssumption DEF BudgetInv, ladderVars, loopVars
<1>1. CASE \E r \in Ask, a \in {"approved", "denied"} : Answer(r, a)
  <2>1. PICK r \in Ask, a \in {"approved", "denied"} : Answer(r, a)
    BY <1>1
  <2>2. /\ answer[r] = "pending" /\ answer' = [answer EXCEPT ![r] = a]
        /\ UNCHANGED <<ladder, agent, stream, window, tripped, watcher, heard, asked, late, over>>
    BY <2>1 DEF Answer
  <2>3. BudgetTypeOK' /\ AskInv'
    BY <2>2 DEF BudgetTypeOK, AskInv
  <2>4. HeardInv'
    BY <2>2 DEF BudgetTypeOK, AskInv, HeardInv
  <2> QED
    BY <2>3, <2>4
<1>2. CASE OpenApproveReq
  <2>1. asked + 1 \in Ask /\ asked + 1 \in 0..MaxAsks
    BY <1>2 DEF OpenApproveReq, BudgetTypeOK, AskInv, Ask
  <2> QED
    BY <1>2, <2>1 DEF OpenApproveReq, OpenRequest, BudgetTypeOK, AskInv, HeardInv
<1>3. CASE WaitReturns
  <2>1. /\ asked \in Ask /\ watcher = "wait" /\ watcher' = "heard"
        /\ UNCHANGED <<ladder, agent, stream, window, tripped, asked, late, over>>
    BY <1>3 DEF WaitReturns, AskInv
  <2>2. \/ /\ UNCHANGED answer
           /\ \/ answer[asked] = "approved" /\ heard' = "approved"
              \/ answer[asked] = "denied" /\ heard' = "denied"
        \/ /\ late \/ over
           /\ heard' = "denied" /\ answer' = [answer EXCEPT ![asked] = "expired"]
    BY <1>3 DEF WaitReturns, Verdict, HeardInv
  <2>3. BudgetTypeOK' /\ AskInv'
    BY <2>1, <2>2 DEF BudgetTypeOK, AskInv
  <2>4. HeardInv'
    BY <2>1, <2>2 DEF BudgetTypeOK, HeardInv
  <2> QED
    BY <2>3, <2>4
<1>4. CASE Act
  <2>1. watcher = "heard" /\ asked \in Ask /\ UNCHANGED <<ladder, stream, window, tripped, over>>
    BY <1>4 DEF Act, AskInv
  <2>2. CASE OpenRequest /\ late /\ UNCHANGED agent
    <3>1. asked + 1 \in Ask /\ asked + 1 \in 0..MaxAsks
      BY <2>1, <2>2 DEF AskInv, Ask
    <3> QED
      BY <2>1, <2>2, <3>1 DEF OpenRequest, BudgetTypeOK, AskInv, HeardInv
  <2>3. CASE Thaw /\ watcher' = "watch" /\ UNCHANGED <<heard, asked, answer, late>>
    BY <2>1, <2>3 DEF Thaw, BudgetTypeOK, AskInv, HeardInv
  <2>4. CASE /\ ~over /\ heard = "denied" /\ ~late
             /\ watcher' = "grace" /\ UNCHANGED <<agent, heard, asked, answer, late>>
    BY <2>1, <2>4 DEF BudgetTypeOK, AskInv, HeardInv
  <2> QED
    BY <1>4, <2>2, <2>3, <2>4 DEF Act
<1>5. CASE Kill
  BY <1>5 DEF Kill, BudgetTypeOK, AskInv, HeardInv, Ask
<1> QED
  BY <1>1, <1>2, <1>3, <1>4, <1>5 DEF LadderStep

LEMMA BudgetNextInv == BudgetInv /\ [BudgetNext]_budgetVars => BudgetInv'
<1> SUFFICES ASSUME BudgetInv, [BudgetNext]_budgetVars PROVE BudgetInv'
  OBVIOUS
<1>1. CASE BudgetNext
  BY <1>1, AroundTheLadder, OnTheLadder DEF BudgetNext
<1>2. CASE UNCHANGED budgetVars
  BY <1>2 DEF budgetVars, ladderVars, loopVars, BudgetInv, BudgetTypeOK, AskInv, HeardInv
<1> QED
  BY <1>1, <1>2

\* The channel and the window keep their bounds.
THEOREM BudgetTyping == BudgetSpec => []BudgetTypeOK
<1>1. BudgetInv => BudgetTypeOK
  BY DEF BudgetInv
<1> QED
  BY <1>1, BudgetInitInv, BudgetNextInv, PTL DEF BudgetSpec

\* Only the ladder's last step continues a frozen agent, with a yes or a run that is over.
LEMMA ThawsRightly ==
  ASSUME BudgetInv, BudgetNext, agent = "frozen", agent' = "runs"
  PROVE  over \/ answer[asked] = "approved"
<1>1. Act
  BY DEF BudgetNext, Command, AgentEnds, RunEnds, Deadline, Answer, ReadHash, Trip, Ends, Freeze,
         LadderStep, OpenApproveReq, WaitReturns, Kill, loopVars
<1> QED
  BY <1>1 DEF Act, BudgetInv, HeardInv

LEMMA KillsRightly ==
  ASSUME BudgetInv, BudgetNext, watcher' = "grace"
  PROVE  answer[asked] = "denied"
<1>1. CASE watcher = "grace"
  BY <1>1 DEF BudgetInv, HeardInv
<1>2. CASE watcher # "grace"
  <2>1. Act
    BY <1>2 DEF BudgetNext, Command, AgentEnds, RunEnds, Deadline, Answer, ReadHash, Trip, Ends,
           LadderStep, OpenApproveReq, OpenRequest, WaitReturns, Kill, ladderVars
  <2> QED
    BY <1>2, <2>1 DEF Act, OpenRequest, BudgetInv, HeardInv
<1> QED
  BY <1>1, <1>2

\* The watcher kills only what the operator has said no to, and continues only what he
\* has said yes to, or whose run is over, whenever the deadlines of its waits pass
\* (budget.go:452-486).
THEOREM OperatorDecides == BudgetSpec => NeverDecidesAlone
<1>1. BudgetInv /\ [BudgetNext]_budgetVars =>
        [/\ watcher' = "grace" => answer[asked] = "denied"
         /\ agent = "frozen" /\ agent' = "runs" => over \/ answer[asked] = "approved"]_budgetVars
  BY ThawsRightly, KillsRightly
<1> QED
  BY <1>1, BudgetInitInv, BudgetNextInv, PTL DEF BudgetSpec, NeverDecidesAlone

-----------------------------------------------------------------------------
(* The stream of a process.  Lines are conserved between the pipe and the   *)
(* consumer, until the goroutine is let go by a done context.               *)

InHand == IF reader = "sends" THEN 1 ELSE 0

LinesInv ==
  /\ reader # "done" => written["out"] = out + InHand + lines + taken
  /\ reader = "done" /\ ~cancelled => written["out"] = lines + taken

StreamInv == StreamTypeOK /\ LinesInv

LEMMA StreamInitInv == StreamInit => StreamInv
<1> SUFFICES ASSUME StreamInit PROVE StreamInv
  OBVIOUS
<1>1. StreamTypeOK
  <2>1. 0 \in 0..PipeCap /\ 0 \in 0..ChanDepth /\ 0 \in Nat
    BY StreamAssumption
  <2>2. written \in [{"out", "err"} -> Nat]
    BY DEF StreamInit
  <2> QED
    BY <2>1, <2>2 DEF StreamInit, StreamTypeOK
<1>2. written["out"] = 0
  BY DEF StreamInit
<1>3. LinesInv
  BY <1>2 DEF StreamInit, LinesInv, InHand
<1> QED
  BY <1>1, <1>3 DEF StreamInv

LEMMA StreamNextInv == StreamInv /\ [StreamNext]_streamVars => StreamInv'
<1> SUFFICES ASSUME StreamInv, [StreamNext]_streamVars PROVE StreamInv'
  OBVIOUS
<1> USE StreamAssumption DEF StreamInv, StreamTypeOK, LinesInv, InHand, pipeVars, userVars
<1>1. CASE WriteOut
  BY <1>1 DEF WriteOut
<1>2. CASE WriteErr
  BY <1>2 DEF WriteErr
<1>3. CASE Fork \/ ChildEnds \/ ProcessEnds \/ ContextKills
  BY <1>3 DEF Fork, ChildEnds, ProcessEnds, ContextKills
<1>4. CASE ReadOut
  BY <1>4 DEF ReadOut
<1>5. CASE SendLine
  BY <1>5 DEF SendLine
<1>6. CASE DrainErr
  BY <1>6 DEF DrainErr
<1>7. CASE Take
  BY <1>7 DEF Take
<1>8. CASE Cancel \/ BeginClose
  BY <1>8 DEF Cancel, BeginClose
<1>9. CASE EndClose
  BY <1>9 DEF EndClose
<1>10. CASE UNCHANGED streamVars
  BY <1>10 DEF streamVars
<1> QED
  BY <1>1, <1>2, <1>3, <1>4, <1>5, <1>6, <1>7, <1>8, <1>9, <1>10 DEF StreamNext

\* The reading goroutine, the channel and the pipes keep their bounds.
THEOREM StreamTyping == StreamSpec => []StreamTypeOK
<1>1. StreamInv => StreamTypeOK
  BY DEF StreamInv
<1> QED
  BY <1>1, StreamInitInv, StreamNextInv, PTL DEF StreamSpec

\* A stream that nobody cancelled has delivered every line, or holds it for the
\* consumer, when its channel closes: the first half of StreamEnds (stream.go:79-177).
THEOREM NoLineLost ==
  StreamSpec => [](reader = "done" /\ ~cancelled => taken + lines = written["out"])
<1>1. StreamInv => (reader = "done" /\ ~cancelled => taken + lines = written["out"])
  BY DEF StreamInv, StreamTypeOK, LinesInv
<1> QED
  BY <1>1, StreamInitInv, StreamNextInv, PTL DEF StreamSpec

-----------------------------------------------------------------------------
(* The file watcher.  LinesOnce is not inductive: a file that was rotated   *)
(* and not scanned yet has had no line told, and the offset into the file   *)
(* of the last scan is within it; cells that are not written yet are told   *)
(* nowhere.                                                                 *)

ScanInv ==
  /\ seen <= rotations
  /\ seen # rotations => \A i \in Cells : told[i] = 0
  /\ seen = rotations => offset <= Len(file)
  /\ \A i \in Cells : i > Len(file) => told[i] = 0

WatchInv == WatchTypeOK /\ ScanInv /\ LinesOnce

LEMMA WatchInitInv == WatchInit => WatchInv
<1> SUFFICES ASSUME WatchInit PROVE WatchInv
  OBVIOUS
<1>1. <<>> \in Seq({"text", "end"}) /\ Len(<<>>) = 0 /\ 0 \in 0..MaxCells /\ Len(<<>>) <= MaxCells
  BY WatchAssumption
<1>2. WatchTypeOK
  BY <1>1 DEF WatchInit, WatchTypeOK
<1>3. ScanInv
  BY <1>1 DEF WatchInit, ScanInv, Cells
<1>4. LinesOnce
  BY <1>1 DEF WatchInit, LinesOnce
<1> QED
  BY <1>2, <1>3, <1>4 DEF WatchInv

\* A bounded set of numbers that is not empty has a greatest.
LEMMA GreatestExists ==
  ASSUME NEW N \in Nat, NEW S, S \subseteq 0..N, S # {}
  PROVE  \E x \in S : \A y \in S : x >= y
<1> DEFINE R == OpToRel(<, Nat)
           T == {N - x : x \in S}
<1>1. IsWellFoundedOn(R, Nat)
  BY NatLessThanWellFounded
<1> HIDE DEF R
<1>a. \A x \in S : N - x \in Nat
  OBVIOUS
<1>2. T \subseteq Nat /\ T # {}
  BY <1>a
<1> HIDE DEF T
<1>3. PICK t \in T : \A u \in T : ~(<<u, t>> \in R)
  BY <1>1, <1>2, WFMin
<1>4. \A u \in T : ~(u < t)
  <2>1. ASSUME NEW u \in T, u < t PROVE <<u, t>> \in R
    BY <2>1, <1>2, Zenon DEF R, OpToRel
  <2> QED
    BY <2>1, <1>3
<1>5. PICK x \in S : t = N - x
  BY DEF T
<1>6. ASSUME NEW y \in S PROVE x >= y
  <2>1. N - y \in T
    BY DEF T
  <2> QED
    BY <2>1, <1>4, <1>5
<1> QED
  BY <1>6

\* What a scan from o returns: it ends at or behind o, within the file, and the lines
\* it tells are all that end between o and there, unless it gives up - then it gives up
\* on a line behind those.
LEMMA ScannedLines ==
  ASSUME WatchTypeOK, NEW o \in 0..Len(file)
  PROVE  /\ Scanned(o).next \in o..Len(file)
         /\ Scanned(o).failed \in BOOLEAN
         /\ Scanned(o).lines =
              {i \in o + 1..Scanned(o).next : file[i] = "end"}
<1> DEFINE tooLong(p) == /\ Len(file) - p >= MaxScanLine
                         /\ \A j \in p + 1..p + MaxScanLine : file[j] # "end"
           starts == {p \in o..Len(file) : p = o \/ file[p] = "end"}
           ends == {i \in o + 1..Len(file) : file[i] = "end" /\
                      \A p \in starts : p < i => ~tooLong(p)}
           S == {o} \cup ends
<1>1. Len(file) \in Nat /\ S \subseteq 0..Len(file) /\ S # {}
  BY DEF WatchTypeOK
<1>2. Scanned(o) = [lines |-> ends, failed |-> tooLong(Max(S)), next |-> Max(S)]
  BY DEF Scanned
<1>e. ends = {i \in o + 1..Len(file) : file[i] = "end" /\
                \A p \in starts : p < i => ~tooLong(p)}
  OBVIOUS
<1>s. S = {o} \cup ends
  OBVIOUS
<1> HIDE DEF ends, S
<1>3. \E x \in S : \A y \in S : x >= y
  BY <1>1, GreatestExists
<1>4. Max(S) \in S /\ \A y \in S : Max(S) >= y
  BY <1>3, Zenon DEF Max
<1>5. Max(S) \in o..Len(file)
  <2>1. Max(S) \in 0..Len(file)
    BY <1>1, <1>4
  <2>2. Max(S) >= o
    BY <1>4, <1>s
  <2> QED
    BY <1>1, <2>1, <2>2
<1>6. ends = {i \in o + 1..Max(S) : file[i] = "end"}
  <2>1. ASSUME NEW i \in ends PROVE i \in o + 1..Max(S) /\ file[i] = "end"
    BY <1>1, <1>4, <1>5, <1>e, <1>s
  <2>2. ASSUME NEW i \in o + 1..Max(S), file[i] = "end" PROVE i \in ends
    <3>1. Max(S) \in ends
      BY <1>4, <1>5, <1>s
    <3>2. \A p \in starts : p < Max(S) => ~tooLong(p)
      BY <3>1, <1>e
    <3>3. \A p \in starts : p < i => ~tooLong(p)
      BY <3>2, <1>1, <1>5
    <3> QED
      BY <3>3, <2>2, <1>1, <1>5, <1>e
  <2> QED
    BY <2>1, <2>2
<1> QED
  BY <1>2, <1>5, <1>6

LEMMA WriteKeeps ==
  ASSUME WatchInv, NEW cell \in {"text", "end"}, Write(cell)
  PROVE  WatchInv'
<1>1. /\ file \in Seq({"text", "end"}) /\ Len(file) \in Nat /\ Len(file) < MaxCells
      /\ file' = Append(file, cell)
      /\ UNCHANGED <<rotations, offset, seen, base, told>>
  BY DEF Write, WatchInv, WatchTypeOK
<1>2. /\ file' \in Seq({"text", "end"}) /\ Len(file') = Len(file) + 1
      /\ \A i \in 1..Len(file) : file'[i] = file[i]
  BY <1>1
<1>3. WatchTypeOK'
  <2>1. Len(file') <= MaxCells
    BY <1>1, <1>2, WatchAssumption
  <2>2. /\ rotations' \in Nat /\ offset' \in 0..MaxCells /\ seen' \in Nat
        /\ base' \in 0..MaxCells /\ told' \in [Cells -> Nat]
    BY <1>1 DEF WatchInv, WatchTypeOK
  <2> QED
    BY <1>2, <2>1, <2>2 DEF WatchTypeOK
<1>4. ScanInv'
  BY <1>1, <1>2, WatchAssumption DEF WatchInv, WatchTypeOK, ScanInv, Cells
<1>5. LinesOnce'
  <2>1. ASSUME seen' = rotations', NEW i \in 1..Len(file')
        PROVE  /\ i > offset' => told'[i] = 0
               /\ i \in base' + 1..offset' /\ file'[i] = "end" => told'[i] = 1
    <3>0. i \in Cells /\ offset <= Len(file) /\ offset \in Nat /\ base \in Nat /\ seen = rotations
      BY <2>1, <1>1, <1>2, WatchAssumption DEF WatchInv, WatchTypeOK, ScanInv, Cells
    <3>1. CASE i \in 1..Len(file)
      BY <3>0, <3>1, <2>1, <1>1, <1>2 DEF WatchInv, LinesOnce
    <3>2. CASE i = Len(file) + 1
      <4>1. i > offset
        BY <3>0, <3>2, <1>1
      <4>2. told[i] = 0
        BY <3>0, <3>2, <1>1 DEF WatchInv, ScanInv
      <4> QED
        BY <3>0, <4>1, <4>2, <1>1
    <3> QED
      BY <3>1, <3>2, <1>1, <1>2
  <2>2. \A i \in Cells : told'[i] <= 1
    BY <1>1 DEF WatchInv, LinesOnce
  <2> QED
    BY <2>1, <2>2 DEF LinesOnce
<1> QED
  BY <1>3, <1>4, <1>5 DEF WatchInv

LEMMA RotateKeeps ==
  ASSUME WatchInv, RotateFile
  PROVE  WatchInv'
<1>1. /\ rotations' = rotations + 1 /\ file' = <<>> /\ told' = [i \in Cells |-> 0]
      /\ UNCHANGED <<offset, seen, base>>
  BY DEF RotateFile
<1>2. file' \in Seq({"text", "end"}) /\ Len(file') = 0
  BY <1>1
<1>3. seen' # rotations' /\ seen' <= rotations'
  BY <1>1 DEF WatchInv, WatchTypeOK, ScanInv
<1>4. WatchTypeOK'
  BY <1>1, <1>2, WatchAssumption DEF WatchInv, WatchTypeOK
<1>5. ScanInv'
  BY <1>1, <1>2, <1>3 DEF ScanInv
<1>6. LinesOnce'
  BY <1>1, <1>3 DEF LinesOnce
<1> QED
  BY <1>4, <1>5, <1>6 DEF WatchInv

LEMMA ScanKeeps ==
  ASSUME WatchInv, Scan
  PROVE  WatchInv'
<1> DEFINE o == IF Len(file) < offset THEN 0 ELSE offset
           scan == Scanned(o)
<1>1. /\ offset' = IF scan.failed THEN Len(file) ELSE scan.next
      /\ told' = [i \in Cells |-> IF i \in scan.lines THEN told[i] + 1 ELSE told[i]]
      /\ base' = IF scan.failed THEN Len(file)
                 ELSE IF Len(file) < offset \/ seen # rotations THEN o ELSE base
      /\ seen' = rotations /\ UNCHANGED <<file, rotations>>
  BY DEF Scan
<1>2. /\ Len(file) \in Nat /\ Len(file) <= MaxCells /\ offset \in Nat /\ MaxCells \in Nat
      /\ rotations \in Nat /\ base \in 0..MaxCells /\ told \in [Cells -> Nat] /\ WatchTypeOK
  BY WatchAssumption DEF WatchInv, WatchTypeOK
<1>3. o \in 0..Len(file)
  BY <1>2
<1>4. /\ scan.next \in o..Len(file) /\ scan.failed \in BOOLEAN
      /\ scan.lines = {i \in o + 1..scan.next : file[i] = "end"}
  BY <1>2, <1>3, ScannedLines
<1>o. seen = rotations => o = offset
  BY <1>2 DEF WatchInv, ScanInv
<1>u. ASSUME NEW i \in Cells, i > o, i <= Len(file) PROVE told[i] = 0
  <2>1. i \in 1..Len(file)
    BY <1>u, <1>2 DEF Cells
  <2> QED
    BY <1>u, <2>1, <1>o DEF WatchInv, ScanInv, LinesOnce
<1>f. ASSUME NEW i \in Cells, i > Len(file) PROVE told[i] = 0
  BY <1>f DEF WatchInv, ScanInv
<1> HIDE DEF o, scan
<1>t. ASSUME NEW i \in Cells
      PROVE  told'[i] = IF i \in o + 1..scan.next /\ file[i] = "end" THEN told[i] + 1 ELSE told[i]
  BY <1>1, <1>4
<1>5. offset' \in o..Len(file) /\ base' \in 0..MaxCells
  BY <1>1, <1>2, <1>3, <1>4
<1>6. told' \in [Cells -> Nat]
  BY <1>1, <1>2
<1>7. WatchTypeOK'
  <2>1. offset' \in 0..MaxCells
    BY <1>5, <1>2, <1>3
  <2> QED
    BY <2>1, <1>1, <1>2, <1>5, <1>6 DEF WatchTypeOK
<1>8. ScanInv'
  <2>1. ASSUME NEW i \in Cells, i > Len(file) PROVE told'[i] = 0
    BY <2>1, <1>f, <1>t, <1>2, <1>3, <1>4 DEF Cells
  <2> QED
    BY <2>1, <1>1, <1>2, <1>5 DEF ScanInv
<1>9. LinesOnce'
  <2>1. ASSUME NEW i \in Cells PROVE told'[i] <= 1
    <3>1. CASE i \in o + 1..scan.next /\ file[i] = "end"
      <4>1. i > o /\ i <= Len(file)
        BY <3>1, <1>2, <1>3, <1>4
      <4> QED
        BY <3>1, <4>1, <1>u, <1>t
    <3>2. CASE ~(i \in o + 1..scan.next /\ file[i] = "end")
      BY <3>2, <1>t DEF WatchInv, LinesOnce
    <3> QED
      BY <3>1, <3>2
  <2>2. ASSUME NEW i \in 1..Len(file), i > offset' PROVE told'[i] = 0
    <3>1. i \in Cells /\ i > o /\ i <= Len(file)
      BY <2>2, <1>2, <1>3, <1>5 DEF Cells
    <3>2. i > scan.next
      BY <2>2, <1>1, <1>2, <1>3, <1>4
    <3> QED
      BY <3>1, <3>2, <1>u, <1>t, <1>2, <1>3, <1>4
  <2>3. ASSUME NEW i \in 1..Len(file), i \in base' + 1..offset', file[i] = "end"
        PROVE  told'[i] = 1
    <3>1. ~scan.failed /\ offset' = scan.next
      BY <2>3, <1>1, <1>2, <1>4
    <3>2. i \in Cells
      BY <1>2 DEF Cells
    <3>3. CASE i > o
      <4>1. told[i] = 0
        BY <3>2, <3>3, <1>u
      <4>2. i \in o + 1..scan.next
        BY <2>3, <3>1, <3>3, <1>2, <1>3, <1>4, <1>5
      <4> QED
        BY <2>3, <3>2, <4>1, <4>2, <1>t
    <3>4. CASE ~(i > o)
      <4>1. seen = rotations /\ base' = base
        BY <2>3, <3>1, <3>4, <1>1, <1>2, <1>3, <1>5
      <4>2. i \in base + 1..offset
        BY <2>3, <3>4, <4>1, <1>o, <1>2, <1>3, <1>5
      <4>3. told[i] = 1
        BY <2>3, <4>1, <4>2 DEF WatchInv, LinesOnce
      <4>4. ~(i \in o + 1..scan.next)
        BY <3>4, <1>3, <1>2, <1>4
      <4> QED
        BY <3>2, <4>3, <4>4, <1>t
    <3> QED
      BY <3>3, <3>4
  <2> QED
    BY <2>1, <2>2, <2>3, <1>1 DEF LinesOnce
<1> QED
  BY <1>7, <1>8, <1>9 DEF WatchInv

LEMMA WatchNextInv == WatchInv /\ [WatchNext]_watchVars => WatchInv'
<1> SUFFICES ASSUME WatchInv, [WatchNext]_watchVars PROVE WatchInv'
  OBVIOUS
<1>1. CASE WatchNext
  BY <1>1, WriteKeeps, RotateKeeps, ScanKeeps DEF WatchNext
<1>2. CASE UNCHANGED watchVars
  BY <1>2 DEF watchVars, WatchInv, WatchTypeOK, ScanInv, LinesOnce
<1> QED
  BY <1>1, <1>2

\* However a log is written, rotated and polled, the watcher tells every line that ends
\* once, except those it has to skip (watch.go:102-168).
THEOREM EveryLineOnce == WatchSpec => []LinesOnce
<1>1. WatchInv => LinesOnce
  BY DEF WatchInv
<1> QED
  BY <1>1, WatchInitInv, WatchNextInv, PTL DEF WatchSpec

-----------------------------------------------------------------------------
(* All.                                                                    *)

\* The map of links keeps its bound (content.go:123-127).
THEOREM ContentTyping == ContentSpec => []ContentTypeOK
<1>1. ContentInv /\ [ContentNext]_storeVars => ContentInv'
  BY ContentStep
<1>2. ContentInv => ContentTypeOK
  BY DEF ContentInv
<1> QED
  BY <1>1, <1>2, ContentInitInv, PTL DEF ContentSpec

\* The watcher's offset and counts stay in range.
THEOREM WatchTyping == WatchSpec => []WatchTypeOK
<1>1. WatchInv => WatchTypeOK
  BY DEF WatchInv
<1> QED
  BY <1>1, WatchInitInv, WatchNextInv, PTL DEF WatchSpec

\* Each of the five is in the daemon what it is alone.
LEMMA DaemonParts ==
  DaemonSpec => Spec /\ ContentSpec /\ BudgetSpec /\ StreamSpec /\ WatchSpec
<1>1. DaemonInit => Init /\ ContentInit /\ BudgetInit /\ StreamInit /\ WatchInit
  BY DEF DaemonInit
<1>2. [DaemonNext]_allVars =>
        /\ [Next]_vars /\ [ContentNext]_storeVars /\ [BudgetNext]_budgetVars
        /\ [StreamNext]_streamVars /\ [WatchNext]_watchVars
  BY DEF DaemonNext, allVars
<1> QED
  BY <1>1, <1>2, PTL DEF DaemonSpec, Spec, ContentSpec, BudgetSpec, StreamSpec, WatchSpec

\* The type invariants of all hold together, and the queue of retries is bounded.
THEOREM DaemonTyping == DaemonSpec => []AllTypeOK
BY DaemonParts, QueueKeepsItsDepth, ContentTyping, BudgetTyping, StreamTyping, WatchTyping, PTL
   DEF AllTypeOK
=============================================================================
