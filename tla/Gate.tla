-------------------------------- MODULE Gate ---------------------------------
(***************************************************************************)
(* The gate every execution passes (internal/gate) with the quorum engine  *)
(* behind it (internal/quorum): a caller's operation is looked at by the   *)
(* floor and four verifiers at once, their votes are collected under two   *)
(* timeouts and combined, and the gate runs the operation, refuses it or   *)
(* asks for an approval, whose token a later call brings along.  Callers   *)
(* are concurrent; what they share is V3's history of executions, and the  *)
(* script of each operation, which somebody may edit.  What V4's probes and*)
(* their cache say of the work tree is any of the votes they can give.     *)
(***************************************************************************)
EXTENDS Votes, Sequences

CONSTANTS
  Caller, Op,
  Attributes,     \* of each operation
  RateMaxOps,     \* destructive executions per window
  RingCap,        \* of V3's ring (512)
  PerVerifier, TotalBudget,  \* timeouts (2 s, 5 s)
  Overrides,      \* TierOverrides, of each verifier
  HomeKnown,      \* the home directory resolves
  Hangs,          \* bound: the sets of verifiers that may hang
  MaxEdits,       \* bound on edits of a script
  None            \* no token, no operation

Verifier == 1..4

ASSUME GateAssumption ==
  /\ Attributes \in [Op -> Operations] /\ Overrides \in [Verifier -> Tiers]
  /\ RateMaxOps \in Nat \ {0} /\ RingCap \in Nat /\ RingCap >= RateMaxOps
  /\ PerVerifier \in Nat \ {0} /\ TotalBudget \in Nat \ {0} /\ MaxEdits \in Nat
  /\ HomeKnown \in BOOLEAN /\ Hangs \subseteq SUBSET Verifier /\ None \notin Op
  /\ IsFiniteSet(Caller) /\ Caller # {}

VARIABLES
  mode,          \* "enforcing", "shadow", "noquorum": enforcing without an engine
  version,       \* of each operation's script
  ring,          \* V3's executions within the window
  granted,       \* the operator's last token
  pc, op, tok,   \* each caller: its step, its operation and its token,
  votes, dec,    \* the votes collected, the decision,
  checked, ran   \* the version hashed last, whether a shadowed operation has run

callVars == <<pc, op, tok, votes, dec, checked, ran>>
gateVars == <<mode, version, ring, granted, callVars>>

Versions == 0..MaxEdits
Token    == [op : Op, version : Versions, tier : Tiers]
Event    == [op : Op, auto : BOOLEAN]   \* auto: history, it needed no approval

NoVotes    == [i \in Verifier |-> Abstains]
Undecided  == [outcome |-> "none", tier |-> Benign]
Refusal    == [outcome |-> "deny", tier |-> Critical]
Decisions  == [outcome : {"none", "allow", "escalate", "deny"}, tier : Tiers]

GateTypeOK ==
  /\ mode \in {"enforcing", "shadow", "noquorum"}
  /\ version \in [Op -> Versions]
  /\ ring \in Seq(Event) /\ Len(ring) <= RingCap
  /\ granted \in Token \cup {None}
  /\ pc \in [Caller -> {"idle", "look", "enforce", "run", "ask"}]
  /\ op \in [Caller -> Op \cup {None}] /\ tok \in [Caller -> Token \cup {None}]
  /\ votes \in [Caller -> [Verifier -> Vote]] /\ dec \in [Caller -> Decisions]
  /\ checked \in [Caller -> Versions] /\ ran \in [Caller -> BOOLEAN]

GateInit ==
  /\ mode \in {"enforcing", "shadow", "noquorum"}
  /\ version = [o \in Op |-> 0] /\ ring = <<>> /\ granted = None
  /\ pc = [c \in Caller |-> "idle"] /\ op = [c \in Caller |-> None]
  /\ tok = [c \in Caller |-> None]
  /\ votes = [c \in Caller |-> NoVotes] /\ dec = [c \in Caller |-> Undecided]
  /\ checked = [c \in Caller |-> 0] /\ ran = [c \in Caller |-> FALSE]

-----------------------------------------------------------------------------
(* The world, and time.                                                    *)

Edit(o) ==
  /\ version[o] < MaxEdits /\ version' = [version EXCEPT ![o] = @ + 1]
  /\ UNCHANGED <<mode, ring, granted, callVars>>

\* The oldest execution leaves V3's window.
WindowMoves ==
  /\ ring # <<>> /\ ring' = Tail(ring)
  /\ UNCHANGED <<mode, version, granted, callVars>>

-----------------------------------------------------------------------------
(* The engine.                                                             *)

\* RecordExec: the ring keeps the newest.
RecordExec(o, auto) ==
  ring' = LET r == Append(ring, [op |-> o, auto |-> auto])
          IN IF Len(r) > RingCap THEN Tail(r) ELSE r

Destructive(r) == {i \in 1..Len(r) : Attributes[r[i].op].destructive}

\* V3 may object at any time, to the spend or for want of a dry run; it does once
\* the window holds as many destructive operations as the rate allows.
Objections == {Escalate(Sensitive), Escalate(Critical)}

\* Mutant: one more than the rate allows.
V3VotesOver(o) ==
  IF Attributes[o].destructive /\ Cardinality(Destructive(ring)) > RateMaxOps
  THEN Objections ELSE Objections \cup {Yes}

V3Votes(o) ==
  IF Attributes[o].destructive /\ Cardinality(Destructive(ring)) >= RateMaxOps
  THEN Objections ELSE Objections \cup {Yes}

\* V4 finds an undo, none, or nothing out, for what mutates.
V4Votes(o) == IF Attributes[o].mutates THEN {Yes, Escalate(Sensitive), Abstains} ELSE {Yes}

\* The gate observes a call.  Without an engine it goes straight to the token; in
\* shadow mode the execution is recorded and evaluated on the side.
Enter(c, o, t) ==
  /\ pc[c] = "idle"
  /\ op' = [op EXCEPT ![c] = o] /\ tok' = [tok EXCEPT ![c] = t]
  /\ pc' = [pc EXCEPT ![c] = IF mode = "noquorum" THEN "enforce" ELSE "look"]
  /\ IF mode = "shadow" THEN RecordExec(o, FALSE) ELSE UNCHANGED ring
  /\ UNCHANGED <<mode, version, granted, votes, dec, checked, ran>>

\* The vote of each verifier once collected, its tier raised.
Cast(o, i, v3, v4, hung) ==
  LET v == IF i \in hung THEN Abstains
           ELSE CASE i = 1 -> SyntacticVote(Attributes[o])
                  [] i = 2 -> PolicyVote(Attributes[o], HomeKnown)
                  [] i = 3 -> v3
                  [] OTHER -> v4
  IN Raise(v, Overrides[i])

\* Evaluate: the floor, or a call cancelled, refuses alone.  Else the verifiers
\* vote, V3 on a snapshot of its ring; runVerifiers collects the votes one after
\* the other, each under its own timer, all under the budget: too many that hang
\* refuse.  Then the votes are combined, and the decision is audited.
Evaluate(c) ==
  LET o == op[c]
  IN /\ pc[c] = "look" /\ pc' = [pc EXCEPT ![c] = "enforce"]
     /\ \/ dec' = [dec EXCEPT ![c] = Refusal] /\ UNCHANGED votes
        \/ /\ ~Attributes[o].floor
           /\ \E hung \in Hangs, v3 \in V3Votes(o), v4 \in V4Votes(o) :
                /\ Cardinality(hung) * PerVerifier < TotalBudget
                /\ votes' = [votes EXCEPT ![c] = [i \in Verifier |-> Cast(o, i, v3, v4, hung)]]
           /\ dec' = [dec EXCEPT ![c] = Combine(votes'[c])]
     /\ UNCHANGED <<mode, version, ring, granted, op, tok, checked, ran>>

-----------------------------------------------------------------------------
(* The gate.                                                               *)

\* A call is over; what it kept is of no use to anybody.
Return(c) ==
  /\ op' = [op EXCEPT ![c] = None] /\ tok' = [tok EXCEPT ![c] = None]
  /\ votes' = [votes EXCEPT ![c] = NoVotes]
  /\ dec' = [dec EXCEPT ![c] = Undecided] /\ checked' = [checked EXCEPT ![c] = 0]
  /\ ran' = [ran EXCEPT ![c] = FALSE]

\* The closure hash of the call, taken now, is the token's.
Matches(c) == tok[c].op = op[c] /\ tok[c].version = version[op[c]]

\* An escalation to a higher tier than the token's is asked again.
Enough(c) == dec[c].outcome = "escalate" => tok[c].tier >= dec[c].tier

Goes(c) ==
  /\ pc' = [pc EXCEPT ![c] = "run"]
  /\ checked' = [checked EXCEPT ![c] = version[op[c]]]
  /\ UNCHANGED <<op, tok, votes, dec, ran>>

\* checkQuorum, and checkEnforcing without an engine.
Enforce(c) ==
  /\ pc[c] = "enforce" /\ mode # "shadow"
  /\ \/ /\ dec[c].outcome = "deny" \/ (tok[c] # None /\ ~Matches(c))
        /\ pc' = [pc EXCEPT ![c] = "idle"] /\ Return(c) /\ UNCHANGED ring
     \/ /\ dec[c].outcome # "deny" /\ tok[c] # None /\ Matches(c) /\ Enough(c)
        /\ Goes(c) /\ IF mode = "enforcing" THEN RecordExec(op[c], FALSE) ELSE UNCHANGED ring
     \/ /\ tok[c] = None /\ dec[c].outcome = "allow"
        /\ Goes(c) /\ RecordExec(op[c], TRUE)
     \/ /\ \/ tok[c] = None /\ dec[c].outcome \in {"escalate", "none"}
           \/ tok[c] # None /\ Matches(c) /\ dec[c].outcome # "deny" /\ ~Enough(c)
        /\ pc' = [pc EXCEPT ![c] = "ask"]
        /\ votes' = [votes EXCEPT ![c] = NoVotes] /\ tok' = [tok EXCEPT ![c] = None]
        /\ UNCHANGED <<ring, op, dec, checked, ran>>
  /\ UNCHANGED <<mode, version, granted>>

\* The operator approves the request at its tier, for the script as it is now, or
\* nobody does.
Approved(c) ==
  /\ pc[c] = "ask" /\ pc' = [pc EXCEPT ![c] = "idle"] /\ Return(c)
  /\ \/ UNCHANGED granted
     \/ granted' = [op |-> op[c], version |-> version[op[c]], tier |-> dec[c].tier]
  /\ UNCHANGED <<mode, version, ring>>

\* The inner runner.
Run(c) ==
  /\ pc[c] = "run" /\ pc' = [pc EXCEPT ![c] = "idle"] /\ Return(c)
  /\ UNCHANGED <<mode, version, ring, granted>>

\* In shadow mode it runs beside the evaluation, whose decision is only written down.
ShadowRun(c) ==
  /\ mode = "shadow" /\ pc[c] # "idle" /\ ~ran[c] /\ ran' = [ran EXCEPT ![c] = TRUE]
  /\ UNCHANGED <<mode, version, ring, granted, pc, op, tok, votes, dec, checked>>

ShadowEnds(c) ==
  /\ mode = "shadow" /\ pc[c] = "enforce" /\ ran[c]
  /\ pc' = [pc EXCEPT ![c] = "idle"] /\ Return(c)
  /\ UNCHANGED <<mode, version, ring, granted>>

-----------------------------------------------------------------------------
CallStep(c) ==
  \/ Evaluate(c) \/ Enforce(c)
  \/ Run(c) \/ ShadowRun(c) \/ ShadowEnds(c)

GateNext ==
  \/ \E c \in Caller :
       \/ CallStep(c) \/ Approved(c)
       \/ \E o \in Op, t \in {granted, None} : Enter(c, o, t)
  \/ \E o \in Op : Edit(o)
  \/ WindowMoves

GateSpec == GateInit /\ [][GateNext]_gateVars

-----------------------------------------------------------------------------
(* Properties.                                                             *)

\* What an enforcing gate lets through was neither vetoed nor on the floor, and had
\* four confident yeses of its own or an approval of the very script hashed last, at
\* the tier of its gravest vote - the highest, when two verifiers failed
\* (gate.go:276-320, verdict.go:213-252).
Covered(c) ==
  /\ tok[c] # None /\ tok[c].op = op[c] /\ tok[c].version = checked[c]
  /\ \A i \in Verifier : ~Confident(votes[c][i]) => tok[c].tier >= votes[c][i].tier
  /\ Cardinality({i \in Verifier : Failed(votes[c][i])}) >= 2 => tok[c].tier = Critical
NoEscape ==
  \A c \in Caller : pc[c] = "run" /\ mode = "enforcing" =>
    /\ ~Attributes[op[c]].floor
    /\ \A i \in Verifier : votes[c][i].verdict # "deny"
    /\ (\A i \in Verifier : Confident(votes[c][i])) \/ Covered(c)

\* Between the look at the ring and the entry in it other callers may enter: within
\* a window at most as many destructive operations run without an approval as the
\* rate allows, and one more for each other caller (verifier_behavior.go:156-206).
RateHolds ==
  Cardinality({i \in Destructive(ring) : ring[i].auto}) <= RateMaxOps + Cardinality(Caller) - 1
=============================================================================
