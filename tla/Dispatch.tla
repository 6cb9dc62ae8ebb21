------------------------------ MODULE Dispatch ------------------------------
(***************************************************************************)
(* Notifications of the daemon (daemon/dispatch.go): the bridge from the   *)
(* session registry and the POST /notify handlers call dispatch at once;   *)
(* one runner retries what could not be sent.  Every critical section of   *)
(* the mutex is one step, and the sends run between them, unlocked.        *)
(*                                                                         *)
(* Time is abstract: windows lapse, tokens come, entries fall due and grow *)
(* old at any moment, older entries first.  The instant `until` of a window*)
(* names the note that armed it, and so does the model.                    *)
(***************************************************************************)
EXTENDS Integers, FiniteSets

CONSTANTS
  Key,          \* (pane, kind) pairs of the bridge
  Caller,       \* goroutines that dispatch
  Explicit,     \* those that serve POST /notify
  Note,         \* rendered notes, taken again once nobody holds them
  NoNote,
  Epoch,        \* tmux server epochs, 0..n
  RetryDepth,   \* entries of the retry queue (32)
  MaxAttempts,  \* tries of one entry (6)
  Capacity      \* tokens of the bucket (30)

ASSUME DispatchAssumption ==
  /\ Explicit \subseteq Caller /\ NoNote \notin Note /\ Epoch \subseteq Nat
  /\ RetryDepth \in Nat \ {0} /\ MaxAttempts \in Nat \ {0} /\ Capacity \in Nat \ {0}

Slot == Key \X Epoch   \* cooldownKey

VARIABLES
  cooldown,    \* of each slot: the note that armed its window, or NoNote
  suppressed,  \* of each slot: repeats were counted under the window
  maxEpoch, tokens, floodNotified,
  retry,       \* the queue
  firstTried,  \* the pairs of notes that failed once of which the first failed first
  attempts, due, aged,  \* of each such note: its tries, NextTry has come, over retryMaxAge
  pc, note,    \* each caller
  runner, todo, failed, \* the runner: its step, the entries it took, those that failed again
  delivered    \* history: the notes delivered whose window is live

lockVars  == <<cooldown, suppressed, maxEpoch, tokens, floodNotified>>
queueVars == <<retry, firstTried, attempts, due, aged>>
callVars  == <<pc, note>>
runVars   == <<runner, todo, failed>>
vars == <<lockVars, queueVars, callVars, runVars, delivered>>

TypeOK ==
  /\ cooldown \in [Slot -> Note \cup {NoNote}] /\ suppressed \in [Slot -> BOOLEAN]
  /\ maxEpoch \in Epoch \cup {0} /\ tokens \in 0..Capacity /\ floodNotified \in BOOLEAN
  /\ retry \subseteq Note /\ firstTried \subseteq Note \X Note
  /\ attempts \in [Note -> 0..MaxAttempts] /\ due \subseteq Note /\ aged \subseteq Note
  /\ pc \in [Caller -> {"idle", "send", "meta", "queue", "sent"}]
  /\ note \in [Caller -> Note \cup {NoNote}]
  /\ runner \in {"tick", "send", "requeue"} /\ todo \subseteq Note /\ failed \subseteq Note
  /\ delivered \subseteq Note

Init ==
  /\ cooldown = [s \in Slot |-> NoNote] /\ suppressed = [s \in Slot |-> FALSE]
  /\ maxEpoch = 0 /\ tokens = Capacity /\ floodNotified = FALSE
  /\ retry = {} /\ firstTried = {} /\ attempts = [n \in Note |-> 0] /\ due = {} /\ aged = {}
  /\ pc = [c \in Caller |-> "idle"] /\ note = [c \in Caller |-> NoNote]
  /\ runner = "tick" /\ todo = {} /\ failed = {}
  /\ delivered = {}

-----------------------------------------------------------------------------
(* Time.                                                                   *)

\* A window is over; the next prune deletes it, and its counter.
WindowLapses(s) ==
  /\ cooldown[s] # NoNote
  /\ cooldown' = [cooldown EXCEPT ![s] = NoNote]
  /\ UNCHANGED <<suppressed, maxEpoch, tokens, floodNotified, queueVars, callVars, runVars,
                 delivered>>

\* Mutant: the bucket has no capacity.
RefillUncapped ==
  /\ tokens' = tokens + 1
  /\ UNCHANGED <<cooldown, suppressed, maxEpoch, floodNotified, queueVars, callVars, runVars,
                 delivered>>

\* refillLocked.
Refill ==
  /\ tokens < Capacity /\ tokens' = tokens + 1
  /\ UNCHANGED <<cooldown, suppressed, maxEpoch, floodNotified, queueVars, callVars, runVars,
                 delivered>>

FallsDue(n) ==
  /\ n \in retry \ due /\ due' = due \cup {n}
  /\ UNCHANGED <<lockVars, retry, firstTried, attempts, aged, callVars, runVars, delivered>>

\* Nobody gets old before those tried first.
GrowsOld(n) ==
  /\ n \in retry \ aged
  /\ \A m \in Note : <<m, n>> \in firstTried => m \in aged
  /\ aged' = aged \cup {n}
  /\ UNCHANGED <<lockVars, retry, firstTried, attempts, due, callVars, runVars, delivered>>

-----------------------------------------------------------------------------
(* Under the mutex.                                                        *)

\* The windows and counters that outlive pruneLocked at epoch e.
Live(e) == {s \in Slot : cooldown[s] # NoNote /\ s[2] >= e}

\* pruneLocked of the counters, when the windows S are live.
Counts(S) == [s \in Slot |-> s \in S /\ suppressed[s]]

\* Notes somebody holds: a sender, the queue, or the runner.
Held == {note[c] : c \in Caller} \cup retry \cup todo \cup failed

\* A note nobody holds and no window names; which one does not matter.
Fresh == {n \in Note : n \notin Held /\ \A s \in Slot : cooldown[s] # n}

\* dispatch, first section: prune; repeats of a live window are counted only;
\* without a token the note is dropped, and the first such of an episode
\* announced; else a token is taken and the window armed.
Dispatch(c, k, e) ==
  LET heuristic == c \notin Explicit
      top  == IF heuristic /\ e > maxEpoch THEN e ELSE maxEpoch
      live == Live(top)
      kept == [s \in Slot |-> IF s \in live THEN cooldown[s] ELSE NoNote]
      s0   == <<k, e>>
      repeat == heuristic /\ s0 \in live
  IN /\ pc[c] = "idle"
     /\ maxEpoch' = top
     /\ \/ /\ repeat
           /\ suppressed' = [Counts(live) EXCEPT ![s0] = TRUE]
           /\ cooldown' = kept
           /\ UNCHANGED <<tokens, floodNotified, pc, note, delivered>>
        \/ /\ ~repeat /\ tokens = 0
           /\ suppressed' = Counts(live)
           /\ cooldown' = kept
           /\ floodNotified' = TRUE
           /\ pc' = [pc EXCEPT ![c] = IF floodNotified THEN "idle" ELSE "meta"]
           /\ UNCHANGED <<tokens, note, delivered>>
        \/ /\ ~repeat /\ tokens > 0 /\ tokens' = tokens - 1
           /\ suppressed' = Counts(live)
           /\ \E n \in Fresh :
                /\ note' = [note EXCEPT ![c] = n]
                /\ delivered' = delivered \ {n}
                /\ cooldown' = IF heuristic THEN [kept EXCEPT ![s0] = n] ELSE kept
           /\ pc' = [pc EXCEPT ![c] = "send"]
           /\ UNCHANGED floodNotified
     /\ UNCHANGED <<queueVars, runVars>>

\* paneStats: GET /sessions prunes, so that it reports live windows only.
PaneStats ==
  /\ LET live == Live(maxEpoch)
     IN /\ cooldown' = [s \in Slot |-> IF s \in live THEN cooldown[s] ELSE NoNote]
        /\ suppressed' = Counts(live)
  /\ UNCHANGED <<maxEpoch, tokens, floodNotified, queueVars, callVars, runVars, delivered>>

\* A note is delivered; history keeps it while a window bears its name.
Deliver(n) == delivered' = {m \in delivered \cup {n} : \E s \in Slot : cooldown[s] = m}

\* The wake goes out, or fails; the flood notice goes out, or fails, for good.
Send(c) ==
  /\ pc[c] = "send"
  /\ \/ /\ pc' = [pc EXCEPT ![c] = "sent"] /\ Deliver(note[c])
     \/ /\ pc' = [pc EXCEPT ![c] = "queue"] /\ UNCHANGED delivered
  /\ UNCHANGED <<lockVars, queueVars, note, runVars>>

SendFloodMeta(c) ==
  /\ pc[c] = "meta" /\ pc' = [pc EXCEPT ![c] = "idle"]
  /\ UNCHANGED <<lockVars, queueVars, note, runVars, delivered>>

\* dispatch, last section.
Sent(c) ==
  /\ pc[c] = "sent"
  /\ pc' = [pc EXCEPT ![c] = "idle"] /\ note' = [note EXCEPT ![c] = NoNote]
  /\ floodNotified' = FALSE
  /\ UNCHANGED <<cooldown, suppressed, maxEpoch, tokens, queueVars, runVars, delivered>>

-----------------------------------------------------------------------------
(* The retry queue.                                                        *)

\* Mutant: the windows of dropped entries stay.
ReleaseNone(N) == UNCHANGED <<cooldown, suppressed>>

\* releaseCooldownLocked, on the entries N: the windows still theirs are deleted.
Release(N) ==
  /\ cooldown' = [s \in Slot |-> IF cooldown[s] \in N THEN NoNote ELSE cooldown[s]]
  /\ suppressed' = [s \in Slot |-> cooldown[s] \notin N /\ suppressed[s]]

\* The state of entries that leave for good goes with them.
Forget(N) ==
  /\ firstTried' = {p \in firstTried : p[1] \notin N /\ p[2] \notin N}
  /\ attempts' = [n \in Note |-> IF n \in N THEN 0 ELSE attempts[n]]
  /\ due' = due \ N /\ aged' = aged \ N

\* dropOldestLocked, until Q is within the depth: the entries that go are those of
\* which enough others were tried later.
Overflow(Q, depth) ==
  {n \in Q : Cardinality({m \in Q : <<n, m>> \in firstTried}) >= depth}

\* enqueueRetry: a full queue drops its oldest entry for the new one.
EnqueueRetry(c) ==
  LET n    == note[c]
      gone == Overflow(retry, RetryDepth - 1)
  IN /\ pc[c] = "queue"
     /\ retry' = (retry \ gone) \cup {n} /\ Release(gone)
     /\ firstTried' = {p \in firstTried : p[1] \notin gone /\ p[2] \notin gone}
                        \cup {<<m, n>> : m \in (retry \cup todo \cup failed) \ gone}
     /\ attempts' = [m \in Note |-> IF m = n THEN 1 ELSE IF m \in gone THEN 0 ELSE attempts[m]]
     /\ due' = due \ gone /\ aged' = aged \ gone
     /\ pc' = [pc EXCEPT ![c] = "idle"] /\ note' = [note EXCEPT ![c] = NoNote]
     /\ UNCHANGED <<maxEpoch, tokens, floodNotified, runVars, delivered>>

\* processRetries, first section: what is too old or was tried too often goes,
\* what is due is taken.
TakeDue ==
  LET gone == {n \in retry : n \in aged \/ attempts[n] >= MaxAttempts}
      take == (retry \ gone) \cap due
  IN /\ runner = "tick" /\ gone \cup take # {}
     /\ retry' = retry \ (gone \cup take) /\ todo' = take
     /\ Release(gone) /\ Forget(gone)
     /\ runner' = IF take = {} THEN "tick" ELSE "send"
     /\ UNCHANGED <<maxEpoch, tokens, floodNotified, callVars, failed, delivered>>

\* Mutant: a failed try is not counted.
FailsAgainUncounted(n) ==
  /\ failed' = failed \cup {n}
  /\ UNCHANGED <<delivered, firstTried, attempts, due, aged>>

FailsAgain(n) ==
  /\ failed' = failed \cup {n}
  /\ attempts' = [attempts EXCEPT ![n] = @ + 1]
  /\ due' = due \ {n}
  /\ UNCHANGED <<delivered, firstTried, aged>>

\* Each entry it took is sent once more.
RetrySend ==
  /\ runner = "send"
  /\ \E n \in todo :
       /\ todo' = todo \ {n}
       /\ \/ Deliver(n) /\ Forget({n}) /\ UNCHANGED failed
          \/ FailsAgain(n)
  /\ runner' = IF todo' # {} THEN "send" ELSE IF failed' = {} THEN "tick" ELSE "requeue"
  /\ UNCHANGED <<lockVars, retry, callVars>>

\* Those that failed go back, under the depth bound: the queue may have filled up.
Requeue ==
  LET gone == Overflow(retry \cup failed, RetryDepth)
  IN /\ runner = "requeue" /\ runner' = "tick" /\ failed' = {}
     /\ retry' = (retry \cup failed) \ gone /\ Release(gone) /\ Forget(gone)
     /\ UNCHANGED <<maxEpoch, tokens, floodNotified, callVars, todo, delivered>>

-----------------------------------------------------------------------------
CallerStep(c) == Send(c) \/ SendFloodMeta(c) \/ Sent(c) \/ EnqueueRetry(c)
RunnerStep == TakeDue \/ RetrySend \/ Requeue

Next ==
  \/ \E c \in Caller : CallerStep(c) \/ \E k \in Key, e \in Epoch : Dispatch(c, k, e)
  \/ PaneStats \/ RunnerStep \/ Refill
  \/ \E s \in Slot : WindowLapses(s)
  \/ \E n \in Note : FallsDue(n) \/ GrowsOld(n)

Spec == Init /\ [][Next]_vars

\* Sends end (the notifier's client has a timeout), the ticker ticks, time passes.
Fairness ==
  /\ \A c \in Caller : WF_vars(CallerStep(c))
  /\ WF_vars(RunnerStep)
  /\ \A n \in Note : WF_vars(FallsDue(n))

FairSpec == Spec /\ Fairness

-----------------------------------------------------------------------------
(* Properties.                                                             *)

\* No silent loss: while a window suppresses the repeats of a notification, the
\* notification itself has been delivered, or is still being tried - however
\* sends, retries, overflows and re-armed windows interleave (dispatch.go:341-376).
WindowHasNote ==
  \A s \in Slot : cooldown[s] # NoNote => cooldown[s] \in delivered \cup Held

\* An entry is in one place, and the queue keeps its depth whatever the callers
\* add while the runner has its entries out (dispatch.go:419-433).
QueueBounded ==
  /\ Cardinality(retry) <= RetryDepth
  /\ retry \cap (todo \cup failed) = {} /\ todo \cap failed = {}
  /\ \A n, m \in retry \cup todo \cup failed :
       n # m <=> (<<n, m>> \in firstTried \/ <<m, n>> \in firstTried)

\* Nothing is retried for ever: a note that somebody holds is given up or
\* delivered, if no send ever succeeds too.
RetriesEnd == \A n \in Note : []<>(n \notin Held)
=============================================================================
