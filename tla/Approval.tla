------------------------------ MODULE Approval ------------------------------
(***************************************************************************)
(* The phone approve loop: the hook process (cli/cmd_approve.go) asks the  *)
(* daemon to open a request and then waits for it on one arm and prompts   *)
(* the terminal on the other, while the phone may tap the approve or the   *)
(* deny link (daemon/content_server.go); the registry (approve/registry.go)*)
(* decides by compare-and-swap which answer counts.                        *)
(*                                                                         *)
(* A handler's step is everything up to the next point at which another    *)
(* handler of the same daemon can see or change the registry.  The signing *)
(* of the links and the tier rules are not modelled: a request here is one *)
(* the phone may answer.                                                   *)
(***************************************************************************)
EXTENDS Integers, Sequences, FiniteSets

CONSTANTS
  Req,         \* the hooks' requests, one hook process each
  MaxCrashes   \* bound on daemon crashes

ASSUME ApprovalAssumption == IsFiniteSet(Req) /\ MaxCrashes \in Nat

VARIABLES
  up,        \* the daemon runs
  present,   \* the requests in the registry's map
  state,     \* what was decided of each request (kept past a prune or crash)
  links,     \* the capability links that still work: <<request, action>>
  gauge,     \* approvePending
  receipts,  \* the approve-decision entries audited for each request
  phone,     \* where the handler of a tapped link is
  page,      \* what the phone was shown for it
  wait,      \* where the request's GET /approve/wait handler is
  reply,     \* what that handler answers
  tty,       \* where its POST /approve/resolve handler is
  said,      \* what was typed at the terminal
  hook,      \* where the hook process is
  result,    \* what it told its caller: "none", "allow" (exit 0), "block" (2)
  crashes

daemonVars == <<up, present, state, gauge, receipts>>
phoneVars  == <<links, phone, page>>
waitVars   == <<wait, reply>>
ttyVars    == <<tty, said>>
hookVars   == <<hook, result>>
vars == <<daemonVars, phoneVars, waitVars, ttyVars, hookVars, crashes>>

Verdict == {"approved", "denied"}
Link == Req \X Verdict

TypeOK ==
  /\ up \in BOOLEAN /\ present \subseteq Req
  /\ state \in [Req -> Verdict \cup {"pending"}]
  /\ links \subseteq Link /\ gauge \in Int
  /\ receipts \in [Req -> Seq(Verdict)]
  /\ phone \in [Link -> {"idle", "lookup", "resolve", "receipt", "gauge", "outcome", "done"}]
  /\ page \in [Link -> Verdict \cup {"none", "miss"}]
  /\ wait \in [Req -> {"none", "waiting", "woken", "expired", "done"}]
  /\ reply \in [Req -> Verdict \cup {"none"}]
  /\ tty \in [Req -> {"none", "prompt", "receipt", "gauge", "won", "done"}]
  /\ said \in [Req -> Verdict \cup {"none"}]
  /\ hook \in [Req -> {"new", "asked", "done"}]
  /\ result \in [Req -> {"none", "allow", "block"}]
  /\ crashes \in 0..MaxCrashes

Init ==
  /\ up = TRUE /\ present = {} /\ state = [r \in Req |-> "pending"]
  /\ links = {} /\ gauge = 0 /\ receipts = [r \in Req |-> <<>>]
  /\ phone = [l \in Link |-> "idle"] /\ page = [l \in Link |-> "none"]
  /\ wait = [r \in Req |-> "none"] /\ reply = [r \in Req |-> "none"]
  /\ tty = [r \in Req |-> "none"] /\ said = [r \in Req |-> "none"]
  /\ hook = [r \in Req |-> "new"] /\ result = [r \in Req |-> "none"]
  /\ crashes = 0

-----------------------------------------------------------------------------
(* The registry.                                                           *)

\* pendingReq.resolve on the entry a handler holds: the CAS won.
Resolve(r, d) ==
  /\ state[r] = "pending"
  /\ state' = [state EXCEPT ![r] = d]

\* Registry.Resolve looks the entry up first: a pruned request is not decided.
Resolvable(r) == r \in present /\ state[r] = "pending"

-----------------------------------------------------------------------------
(* The hook: runApproveCheck.                                              *)

Exit(r, code) ==
  /\ hook' = [hook EXCEPT ![r] = "done"]
  /\ result' = [result EXCEPT ![r] = code]

\* POST /approve/request: the entry is opened, the two links minted and sent,
\* and the request counted as pending.
Ask(r) ==
  /\ hook[r] = "new" /\ up
  /\ hook' = [hook EXCEPT ![r] = "asked"]
  /\ present' = present \cup {r}
  /\ links' = links \cup {<<r, v>> : v \in Verdict}
  /\ gauge' = gauge + 1
  /\ tty' = [tty EXCEPT ![r] = "prompt"]
  /\ UNCHANGED <<up, state, receipts, phone, page, waitVars, said, result, crashes>>

\* No daemon to ask, the deadline of the hook, or its caller killing it.
GiveUp(r) ==
  /\ hook[r] # "done"
  /\ Exit(r, "block")
  /\ UNCHANGED <<daemonVars, phoneVars, waitVars, ttyVars, crashes>>

\* The wait arm is answered first.
HearWait(r) ==
  /\ hook[r] = "asked" /\ wait[r] = "done"
  /\ Exit(r, IF reply[r] = "approved" THEN "allow" ELSE "block")
  /\ UNCHANGED <<daemonVars, phoneVars, waitVars, ttyVars, crashes>>

\* The terminal arm is answered first: it only counts if the daemon says it won.
HearTty(r) ==
  /\ hook[r] = "asked" /\ tty[r] = "won"
  /\ Exit(r, IF said[r] = "approved" THEN "allow" ELSE "block")
  /\ tty' = [tty EXCEPT ![r] = "done"]
  /\ UNCHANGED <<daemonVars, phoneVars, waitVars, said, crashes>>

-----------------------------------------------------------------------------
(* GET /approve/wait: handleApproveWait, WaitByID, Wait.                   *)

BeginWait(r) ==
  /\ hook[r] = "asked" /\ wait[r] = "none" /\ up
  /\ \/ r \in present /\ wait' = [wait EXCEPT ![r] = "waiting"] /\ UNCHANGED reply
     \/ /\ r \notin present                     \* 404, which the hook denies on
        /\ wait' = [wait EXCEPT ![r] = "done"] /\ reply' = [reply EXCEPT ![r] = "denied"]
  /\ UNCHANGED <<daemonVars, phoneVars, ttyVars, hookVars, crashes>>

\* The channel has the resolution; or the context is done (deadline, or the hook
\* hung up) and the waiter loses the CAS and reads what was decided.
WakeResolved(r) ==
  /\ wait[r] = "waiting" /\ state[r] # "pending"
  /\ wait' = [wait EXCEPT ![r] = "woken"]
  /\ reply' = [reply EXCEPT ![r] = state[r]]
  /\ UNCHANGED <<daemonVars, phoneVars, ttyVars, hookVars, crashes>>

\* The context is done and nobody has answered: the waiter itself denies.
WakeExpired(r) ==
  /\ wait[r] = "waiting"
  /\ Resolve(r, "denied")
  /\ wait' = [wait EXCEPT ![r] = "expired"]
  /\ reply' = [reply EXCEPT ![r] = "denied"]
  /\ UNCHANGED <<up, present, gauge, receipts, phoneVars, ttyVars, hookVars, crashes>>

\* Mutants of EndWait: any denial is counted here; only an expiry prunes.
EndWaitCountsAny(r) ==
  /\ wait[r] \in {"woken", "expired"}
  /\ gauge' = IF reply[r] = "denied" THEN gauge - 1 ELSE gauge
  /\ present' = present \ {r}
  /\ wait' = [wait EXCEPT ![r] = "done"]
  /\ UNCHANGED <<up, state, receipts, phoneVars, reply, ttyVars, hookVars, crashes>>

EndWaitKeeps(r) ==
  /\ wait[r] \in {"woken", "expired"}
  /\ gauge' = IF wait[r] = "expired" THEN gauge - 1 ELSE gauge
  /\ present' = IF wait[r] = "expired" THEN present \ {r} ELSE present
  /\ wait' = [wait EXCEPT ![r] = "done"]
  /\ UNCHANGED <<up, state, receipts, phoneVars, reply, ttyVars, hookVars, crashes>>

\* The handler counts its own denial, answers and, as it returns, prunes.
EndWait(r) ==
  /\ wait[r] \in {"woken", "expired"}
  /\ gauge' = IF wait[r] = "expired" THEN gauge - 1 ELSE gauge
  /\ present' = present \ {r}
  /\ wait' = [wait EXCEPT ![r] = "done"]
  /\ UNCHANGED <<up, state, receipts, phoneVars, reply, ttyVars, hookVars, crashes>>

-----------------------------------------------------------------------------
(* The terminal: promptTTY and POST /approve/resolve.                      *)

\* The answer is posted and the registry asked to resolve; an answer that comes
\* too late, or finds the entry gone, changes nothing.
AnswerTty(r, v) ==
  /\ hook[r] = "asked" /\ tty[r] = "prompt" /\ up
  /\ said' = [said EXCEPT ![r] = v]
  /\ \/ Resolvable(r) /\ Resolve(r, v) /\ tty' = [tty EXCEPT ![r] = "receipt"]
     \/ ~Resolvable(r) /\ tty' = [tty EXCEPT ![r] = "done"] /\ UNCHANGED state
  /\ UNCHANGED <<up, present, gauge, receipts, phoneVars, waitVars, hookVars, crashes>>

\* The winner writes the audit receipt (a failure to is only logged) ...
ReceiptTty(r) ==
  /\ tty[r] = "receipt"
  /\ \/ receipts' = [receipts EXCEPT ![r] = Append(@, said[r])]
     \/ UNCHANGED receipts
  /\ tty' = [tty EXCEPT ![r] = "gauge"]
  /\ UNCHANGED <<up, present, state, gauge, phoneVars, waitVars, said, hookVars, crashes>>

\* ... counts the decision and answers that it won.
CountTty(r) ==
  /\ tty[r] = "gauge"
  /\ gauge' = gauge - 1
  /\ tty' = [tty EXCEPT ![r] = "won"]
  /\ UNCHANGED <<up, present, state, receipts, phoneVars, waitVars, said, hookVars, crashes>>

-----------------------------------------------------------------------------
(* The phone: handleApprove and handleDeny.                                *)

Goto(l, pc) == phone' = [phone EXCEPT ![l] = pc]

\* A link works once.
Tap(l) ==
  /\ up /\ l \in links
  /\ links' = links \ {l}
  /\ Goto(l, "lookup")
  /\ UNCHANGED <<daemonVars, page, waitVars, ttyVars, hookVars, crashes>>

\* A link nobody tapped expires, or is dropped from the full store.
LinkGone(l) ==
  /\ l \in links /\ links' = links \ {l}
  /\ UNCHANGED <<daemonVars, phone, page, waitVars, ttyVars, hookVars, crashes>>

\* Mutant of LookupRequest: shows the state it looked up, decided or not.
LookupRequestShows(l) ==
  /\ phone[l] = "lookup"
  /\ page' = [page EXCEPT ![l] = IF l[1] \in present THEN state[l[1]] ELSE "miss"]
  /\ Goto(l, IF l[1] \in present THEN "resolve" ELSE "done")
  /\ UNCHANGED <<daemonVars, links, waitVars, ttyVars, hookVars, crashes>>

\* Lookup of the request: one that is pruned by now is a miss.
LookupRequest(l) ==
  /\ phone[l] = "lookup"
  /\ \/ l[1] \in present /\ Goto(l, "resolve") /\ UNCHANGED page
     \/ /\ l[1] \notin present
        /\ Goto(l, "done") /\ page' = [page EXCEPT ![l] = "miss"]
  /\ UNCHANGED <<daemonVars, links, waitVars, ttyVars, hookVars, crashes>>

\* Mutant of ResolveLink: does not look at who won.
ResolveLinkUnchecked(l) ==
  /\ phone[l] = "resolve"
  /\ \/ Resolvable(l[1]) /\ Resolve(l[1], l[2])
     \/ ~Resolvable(l[1]) /\ UNCHANGED state
  /\ Goto(l, "receipt")
  /\ UNCHANGED <<up, present, gauge, receipts, links, page, waitVars, ttyVars,
                 hookVars, crashes>>

ResolveLink(l) ==
  /\ phone[l] = "resolve"
  /\ \/ Resolvable(l[1]) /\ Resolve(l[1], l[2]) /\ Goto(l, "receipt")
     \/ ~Resolvable(l[1]) /\ Goto(l, "outcome") /\ UNCHANGED state
  /\ UNCHANGED <<up, present, gauge, receipts, links, page, waitVars, ttyVars,
                 hookVars, crashes>>

\* The winner writes the audit receipt (a failure to is only logged) ...
ReceiptLink(l) ==
  /\ phone[l] = "receipt"
  /\ \/ receipts' = [receipts EXCEPT ![l[1]] = Append(@, l[2])]
     \/ UNCHANGED receipts
  /\ Goto(l, "gauge")
  /\ UNCHANGED <<up, present, state, gauge, links, page, waitVars, ttyVars,
                 hookVars, crashes>>

\* ... counts the decision and shows it.
CountLink(l) ==
  /\ phone[l] = "gauge"
  /\ gauge' = gauge - 1
  /\ Goto(l, "done") /\ page' = [page EXCEPT ![l] = l[2]]
  /\ UNCHANGED <<up, present, state, receipts, links, waitVars, ttyVars,
                 hookVars, crashes>>

\* Mutant of ShowOutcome: claims the tapped action.
ShowOutcomeAsTapped(l) ==
  /\ phone[l] = "outcome"
  /\ page' = [page EXCEPT ![l] = l[2]]
  /\ Goto(l, "done")
  /\ UNCHANGED <<daemonVars, links, waitVars, ttyVars, hookVars, crashes>>

\* finalApproveOutcome after a lost CAS: what was decided, or a miss when the
\* request is pruned by now.
ShowOutcome(l) ==
  /\ phone[l] = "outcome"
  /\ page' = [page EXCEPT ![l] = IF l[1] \in present THEN state[l[1]] ELSE "miss"]
  /\ Goto(l, "done")
  /\ UNCHANGED <<daemonVars, links, waitVars, ttyVars, hookVars, crashes>>

-----------------------------------------------------------------------------

\* The registry, the links and the counters are in memory; every handler dies
\* with its connection, which the hook's wait arm takes for a denial.
DaemonCrash ==
  /\ up /\ crashes < MaxCrashes /\ crashes' = crashes + 1
  /\ up' = FALSE /\ present' = {} /\ links' = {} /\ gauge' = 0
  /\ phone' = [l \in Link |-> IF phone[l] = "idle" THEN "idle" ELSE "done"]
  /\ LET inFlight(r) == wait[r] \in {"waiting", "woken", "expired"}
     IN /\ wait' = [r \in Req |-> IF inFlight(r) THEN "done" ELSE wait[r]]
        /\ reply' = [r \in Req |-> IF inFlight(r) THEN "denied" ELSE reply[r]]
  /\ tty' = [r \in Req |-> IF tty[r] \in {"receipt", "gauge"} THEN "done" ELSE tty[r]]
  /\ UNCHANGED <<state, receipts, page, said, hookVars>>

DaemonStart ==
  /\ ~up /\ up' = TRUE
  /\ UNCHANGED <<present, state, gauge, receipts, phoneVars, waitVars, ttyVars,
                 hookVars, crashes>>

WaitStep(r) == WakeResolved(r) \/ WakeExpired(r) \/ EndWait(r)
PhoneStep(l) ==
  \/ LookupRequest(l) \/ ResolveLink(l) \/ ReceiptLink(l) \/ CountLink(l) \/ ShowOutcome(l)

Next ==
  \/ \E r \in Req :
       \/ Ask(r) \/ GiveUp(r) \/ HearWait(r) \/ HearTty(r)
       \/ BeginWait(r) \/ WaitStep(r)
       \/ ReceiptTty(r) \/ CountTty(r) \/ \E v \in Verdict : AnswerTty(r, v)
  \/ \E l \in Link : Tap(l) \/ LinkGone(l) \/ PhoneStep(l)
  \/ DaemonCrash \/ DaemonStart

Spec == Init /\ [][Next]_vars

\* Handlers run on, and a waiter's context ends.
Fairness == \A r \in Req : WF_vars(WaitStep(r))

FairSpec == Spec /\ Fairness

-----------------------------------------------------------------------------
(* Properties.                                                             *)

A == INSTANCE Answer WITH Screen <- Link, decision <- state, shown <- page

\* First answer wins on every arm: whatever the order in which phone, terminal,
\* deadline and crash come, the hook lets the tool call through only on an
\* approval, and no page shows another decision than the one that was made
\* (docs/agent-safety.md:26-29, content_server.go:708-725).
FirstAnswerWins == A!Spec

\* Decisions made whose handler has not counted them yet.
Uncounted ==
  {r \in Req : tty[r] \in {"receipt", "gauge"}} \cup {r \in Req : wait[r] = "expired"}
  \cup {l[1] : l \in {m \in Link : phone[m] \in {"receipt", "gauge"}}}

\* approve_pending counts the requests still open, whichever of the three arms
\* decides and whether or not the decider is the one that prunes (server.go:
\* 556-574, 868-871; content_server.go:549-561): a decision is counted off once.
GaugeCountsOpen ==
  gauge = Cardinality({r \in present : state[r] = "pending"}) + Cardinality(Uncounted)

\* The audit log holds at most one receipt per request and never one of a
\* decision that was not made (content_server.go:547-557).
ReceiptIsDecision ==
  \A r \in Req : receipts[r] \in {<<>>, <<state[r]>>}

\* The waiter owns the entry: a request somebody waits for leaves the registry,
\* whoever decides it (server.go:833-839; registry.go:281-292).
WaiterPrunes == \A r \in Req : wait[r] = "waiting" ~> r \notin present

=============================================================================
