----------------------------- MODULE Guard_proof -----------------------------
(***************************************************************************)
(* The gate lets nothing through but on four confident yeses or a token,   *)
(* and its rate is overrun by its concurrent callers only: for any number  *)
(* of callers and of operations, and every rate, timeout and override.     *)
(* The sentinel's detector misses nothing and remembers a bounded number   *)
(* of reads, for every window.  An up applies what it has shown, in the    *)
(* order of the dependencies, for every graph of modules.                  *)
(***************************************************************************)
EXTENDS MCGuard, Approval_proof, SequenceTheorems, FunctionTheorems, WellFoundedInduction

-----------------------------------------------------------------------------
(* Votes.                                                                  *)

\* A set of tiers has a highest.
LEMMA MaxOfTiers ==
  ASSUME NEW S \in SUBSET Tiers, S # {}
  PROVE  MaxOf(S) \in S /\ \A k \in S : k <= MaxOf(S)
<1>1. \E n \in S : \A k \in S : k <= n
  <2>1. CASE 2 \in S
    BY <2>1 DEF Tiers, Benign, Sensitive, Critical
  <2>2. CASE 2 \notin S /\ 1 \in S
    BY <2>2 DEF Tiers, Benign, Sensitive, Critical
  <2>3. CASE 2 \notin S /\ 1 \notin S
    <3>1. S = {0}
      BY <2>3 DEF Tiers, Benign, Sensitive, Critical
    <3> QED
      BY <3>1
  <2> QED
    BY <2>1, <2>2, <2>3
<1> QED
  BY <1>1, Zenon DEF MaxOf

\* There is a most restrictive vote among those cast: of the highest tier among
\* those of the highest rank.
LEMMA WorstIsCast ==
  ASSUME NEW V \in SUBSET Vote, NEW best \in Vote
  PROVE  Worst(V, best) \in Vote
<1> DEFINE C == V \cup {best}
           R == {Rank(v) : v \in C}
           T == {v.tier : v \in {w \in C : Rank(w) = MaxOf(R)}}
<1>1. C \in SUBSET Vote /\ C # {}
  OBVIOUS
<1>2. \A v \in C : Rank(v) \in Tiers /\ v.tier \in Tiers
  BY <1>1 DEF Rank, Vote, Tiers, Benign, Sensitive, Critical
<1>3. MaxOf(R) \in R /\ \A k \in R : k <= MaxOf(R)
  <2>1. R \in SUBSET Tiers /\ R # {}
    BY <1>1, <1>2
  <2> HIDE DEF R
  <2> QED
    BY <2>1, MaxOfTiers
<1>4. MaxOf(T) \in T /\ \A k \in T : k <= MaxOf(T)
  <2>1. T \in SUBSET Tiers /\ T # {}
    BY <1>2, <1>3
  <2> HIDE DEF T
  <2> QED
    BY <2>1, MaxOfTiers
<1>5. PICK v \in C : Rank(v) = MaxOf(R) /\ v.tier = MaxOf(T)
  BY <1>4
<1>6. \A w \in C : ~MoreRestrictive(w, v)
  <2> SUFFICES ASSUME NEW w \in C
               PROVE  ~MoreRestrictive(w, v)
    OBVIOUS
  <2>1. Rank(w) <= Rank(v) /\ (Rank(w) = Rank(v) => w.tier <= v.tier)
    BY <1>3, <1>4, <1>5
  <2> QED
    BY <1>2, <2>1 DEF MoreRestrictive, Tiers, Benign, Sensitive, Critical
<1>7. Worst(V, best) \in C
  <2> HIDE DEF C
  <2> QED
    BY <1>6, Zenon DEF Worst, C
<1> QED
  BY <1>1, <1>7

\* The votes there are.
LEMMA VoteTypes ==
  /\ Yes \in Vote /\ Unsure \in Vote /\ Abstains \in Vote /\ Veto \in Vote
  /\ \A t \in Tiers : Escalate(t) \in Vote
  /\ Sensitive \in Tiers /\ Critical \in Tiers /\ Benign \in Tiers
BY DEF Yes, Unsure, Abstains, Veto, Escalate, Vote, Tiers, Benign, Sensitive, Critical

\* The verifiers vote.
LEMMA SyntacticTypes ==
  ASSUME NEW o \in Operations
  PROVE  SyntacticVote(o) \in Vote
<1>1. Worst(o.rules, Yes) \in Vote
  BY VoteTypes, WorstIsCast DEF Operations
<1> QED
  BY <1>1, VoteTypes DEF SyntacticVote

LEMMA PolicyTypes ==
  ASSUME NEW o \in Operations, NEW h \in BOOLEAN
  PROVE  PolicyVote(o, h) \in Vote
<1>1. \A t \in o.targets : TargetVote(t) \in Vote
  BY VoteTypes DEF TargetVote
<1>2. Worst({TargetVote(t) : t \in o.targets}, Yes) \in Vote
  <2>1. {TargetVote(t) : t \in o.targets} \in SUBSET Vote
    BY <1>1
  <2> QED
    BY <2>1, VoteTypes, WorstIsCast
<1> QED
  BY <1>2, VoteTypes DEF PolicyVote

LEMMA RaiseTypes ==
  ASSUME NEW v \in Vote, NEW t \in Tiers
  PROVE  /\ Raise(v, t) \in Vote
         /\ Confident(Raise(v, t)) => Confident(v)
BY DEF Raise, Vote, Confident

\* What combine makes of the votes: an escalation is at a tier no lower than that
\* of any vote that is no confident yes.
LEMMA Combined ==
  ASSUME NEW vs \in [Verifier -> Vote]
  PROVE  /\ Combine(vs) \in Decisions
         /\ Combine(vs).outcome # "none"
         /\ Combine(vs).outcome # "deny" => \A i \in Verifier : vs[i].verdict # "deny"
         /\ Combine(vs).outcome = "allow" => \A i \in Verifier : Confident(vs[i])
         /\ Combine(vs).outcome = "escalate" =>
              /\ \A i \in Verifier : ~Confident(vs[i]) => Combine(vs).tier >= vs[i].tier
              /\ Cardinality({i \in Verifier : Failed(vs[i])}) >= 2
                   => Combine(vs).tier = Critical
<1> DEFINE cast == {vs[i] : i \in DOMAIN vs}
           D == {Demand(v) : v \in {w \in cast : ~Confident(w)}}
           two == Cardinality({i \in DOMAIN vs : Failed(vs[i])}) >= 2
<1>1. DOMAIN vs = Verifier /\ \A i \in Verifier : vs[i] \in cast
  OBVIOUS
<1>2. \A v \in cast : v \in Vote
  OBVIOUS
<1>3. CASE \E v \in cast : v.verdict = "deny"
  <2>1. Combine(vs) = [outcome |-> "deny", tier |-> Benign]
    BY <1>3 DEF Combine
  <2> QED
    BY <2>1, VoteTypes DEF Decisions
<1>4. CASE (\A v \in cast : v.verdict # "deny") /\ \A v \in cast : Confident(v)
  <2>1. Combine(vs) = [outcome |-> "allow", tier |-> Benign]
    BY <1>4 DEF Combine
  <2> QED
    BY <1>1, <1>4, <2>1, VoteTypes DEF Decisions
<1>5. CASE (\A v \in cast : v.verdict # "deny") /\ ~\A v \in cast : Confident(v)
  <2>1. Combine(vs) = [outcome |-> "escalate", tier |-> IF two THEN Critical ELSE MaxOf(D)]
    BY <1>5 DEF Combine
  <2>2. D \in SUBSET Tiers /\ D # {}
    BY <1>2, <1>5 DEF Demand, Vote, Tiers, Benign, Sensitive, Critical
  <2>3. MaxOf(D) \in Tiers /\ \A k \in D : k <= MaxOf(D)
    <3> HIDE DEF D
    <3> QED
      BY <2>2, MaxOfTiers
  <2>4. Combine(vs) \in Decisions
    BY <2>1, <2>3, VoteTypes DEF Decisions
  <2>5. ASSUME NEW i \in Verifier, ~Confident(vs[i])
        PROVE  Combine(vs).tier >= vs[i].tier
    <3>1. Demand(vs[i]) \in D /\ vs[i].tier \in Tiers
      BY <1>1, <1>2, <2>5 DEF Vote
    <3>2. vs[i].tier <= Demand(vs[i])
      BY <3>1 DEF Demand, Tiers, Benign, Sensitive, Critical
    <3>3. Demand(vs[i]) \in Tiers /\ Demand(vs[i]) <= MaxOf(D)
      BY <2>2, <2>3, <3>1
    <3> HIDE DEF D, two
    <3> QED
      BY <2>1, <2>3, <3>1, <3>2, <3>3 DEF Tiers, Benign, Sensitive, Critical
  <2>6. Cardinality({i \in Verifier : Failed(vs[i])}) >= 2 => Combine(vs).tier = Critical
    <3>1. two <=> Cardinality({i \in Verifier : Failed(vs[i])}) >= 2
      BY <1>1
    <3> HIDE DEF two, D
    <3> QED
      BY <2>1, <3>1
  <2>7. Combine(vs).outcome = "escalate"
    BY <2>1
  <2>8. \A i \in Verifier : vs[i].verdict # "deny"
    BY <1>1, <1>5
  <2> HIDE DEF cast, two, D
  <2> QED
    BY <2>4, <2>5, <2>6, <2>7, <2>8
<1> QED
  BY <1>3, <1>4, <1>5

-----------------------------------------------------------------------------
(* Types.                                                                  *)

\* What verifier i's vote is once collected.
LEMMA CastTypes ==
  ASSUME NEW o \in Op, NEW i \in Verifier, NEW v3 \in V3Votes(o),
         NEW v4 \in V4Votes(o), NEW hung
  PROVE  Cast(o, i, v3, v4, hung) \in Vote
<1>1. Attributes[o] \in Operations /\ Overrides[i] \in Tiers /\ HomeKnown \in BOOLEAN
  BY GateAssumption
<1>2. v3 \in Vote /\ v4 \in Vote
  BY VoteTypes DEF V3Votes, V4Votes, Objections
<1>3. SyntacticVote(Attributes[o]) \in Vote /\ PolicyVote(Attributes[o], HomeKnown) \in Vote
  BY <1>1, SyntacticTypes, PolicyTypes
<1> DEFINE v == IF i \in hung THEN Abstains
                ELSE CASE i = 1 -> SyntacticVote(Attributes[o])
                       [] i = 2 -> PolicyVote(Attributes[o], HomeKnown)
                       [] i = 3 -> v3
                       [] OTHER -> v4
<1>4. v \in Vote
  <2>1. CASE i \in hung
    BY <1>2, <1>3, <2>1, VoteTypes
  <2>2. CASE i \notin hung
    BY <1>2, <1>3, <2>2
  <2> QED
    BY <2>1, <2>2
<1>5. Cast(o, i, v3, v4, hung) = Raise(v, Overrides[i])
  BY DEF Cast
<1> HIDE DEF v
<1> QED
  BY <1>1, <1>4, <1>5, RaiseTypes

\* A caller inside a call has an operation.
HasOp == \A c \in Caller : pc[c] # "idle" => op[c] \in Op

\* What an evaluation leaves: a refusal, or votes and what combine makes of them.
LEMMA EvaluateTypes ==
  ASSUME GateTypeOK, HasOp, NEW c \in Caller, Evaluate(c)
  PROVE  /\ votes' \in [Caller -> [Verifier -> Vote]] /\ dec' \in [Caller -> Decisions]
         /\ op' = op /\ tok' = tok /\ pc' = [pc EXCEPT ![c] = "enforce"]
         /\ \/ dec' = [dec EXCEPT ![c] = Refusal]
            \/ /\ ~Attributes[op[c]].floor /\ dec' = [dec EXCEPT ![c] = Combine(votes'[c])]
               /\ \E v3 \in V3Votes(op[c]), v4 \in V4Votes(op[c]), hung \in Hangs :
                    votes' = [votes EXCEPT ![c] =
                                [i \in Verifier |-> Cast(op[c], i, v3, v4, hung)]]
<1>1. op[c] \in Op
  BY DEF HasOp, Evaluate
<1>2. CASE dec' = [dec EXCEPT ![c] = Refusal] /\ UNCHANGED votes
  <2>1. Refusal \in Decisions
    BY VoteTypes DEF Refusal, Decisions
  <2> QED
    BY <1>2, <2>1 DEF Evaluate, GateTypeOK
<1>3. ASSUME ~Attributes[op[c]].floor, dec' = [dec EXCEPT ![c] = Combine(votes'[c])],
             NEW v3 \in V3Votes(op[c]), NEW v4 \in V4Votes(op[c]), NEW hung \in Hangs,
             votes' = [votes EXCEPT ![c] = [i \in Verifier |-> Cast(op[c], i, v3, v4, hung)]]
      PROVE  votes' \in [Caller -> [Verifier -> Vote]] /\ dec' \in [Caller -> Decisions]
  <2>1. [i \in Verifier |-> Cast(op[c], i, v3, v4, hung)] \in [Verifier -> Vote]
    BY <1>1, CastTypes
  <2>2. votes' \in [Caller -> [Verifier -> Vote]]
    <3> DEFINE vs == [i \in Verifier |-> Cast(op[c], i, v3, v4, hung)]
    <3>1. votes' = [votes EXCEPT ![c] = vs] /\ vs \in [Verifier -> Vote]
      BY <1>3, <2>1
    <3> HIDE DEF vs
    <3> QED
      BY <3>1 DEF GateTypeOK
  <2>3. Combine(votes'[c]) \in Decisions
    <3>1. votes'[c] \in [Verifier -> Vote]
      BY <2>2
    <3> QED
      BY <3>1, Combined
  <2> QED
    BY <1>3, <2>2, <2>3 DEF GateTypeOK
<1>4. op' = op /\ tok' = tok /\ pc' = [pc EXCEPT ![c] = "enforce"]
  BY DEF Evaluate
<1>5. \/ dec' = [dec EXCEPT ![c] = Refusal] /\ UNCHANGED votes
      \/ /\ ~Attributes[op[c]].floor /\ dec' = [dec EXCEPT ![c] = Combine(votes'[c])]
         /\ \E v3 \in V3Votes(op[c]), v4 \in V4Votes(op[c]), hung \in Hangs :
              votes' = [votes EXCEPT ![c] =
                          [i \in Verifier |-> Cast(op[c], i, v3, v4, hung)]]
  BY ZenonT(30) DEF Evaluate
<1>6. CASE dec' = [dec EXCEPT ![c] = Refusal] /\ UNCHANGED votes
  BY <1>2, <1>4, <1>6
<1>7. CASE /\ ~Attributes[op[c]].floor /\ dec' = [dec EXCEPT ![c] = Combine(votes'[c])]
           /\ \E v3 \in V3Votes(op[c]), v4 \in V4Votes(op[c]), hung \in Hangs :
                votes' = [votes EXCEPT ![c] =
                            [i \in Verifier |-> Cast(op[c], i, v3, v4, hung)]]
  <2>1. votes' \in [Caller -> [Verifier -> Vote]] /\ dec' \in [Caller -> Decisions]
    BY <1>3, <1>7
  <2> QED
    BY <1>4, <1>7, <2>1
<1> QED
  BY <1>5, <1>6, <1>7

\* The ring takes an execution and keeps the newest.
LEMMA RecordTypes ==
  ASSUME ring \in Seq(Event), Len(ring) <= RingCap,
         NEW o \in Op, NEW auto \in BOOLEAN, RecordExec(o, auto)
  PROVE  ring' \in Seq(Event) /\ Len(ring') <= RingCap
<1> DEFINE e == [op |-> o, auto |-> auto]
           r == Append(ring, e)
<1>1. e \in Event /\ RingCap \in Nat
  BY GateAssumption DEF Event
<1>2. r \in Seq(Event) /\ Len(r) = Len(ring) + 1 /\ r # <<>>
  BY <1>1
<1>3. Tail(r) \in Seq(Event) /\ Len(Tail(r)) = Len(ring)
  BY <1>2
<1>4. ring' = IF Len(r) > RingCap THEN Tail(r) ELSE r
  BY DEF RecordExec
<1> HIDE DEF r
<1> QED
  BY <1>1, <1>2, <1>3, <1>4

\* A call that is over leaves nothing behind.
LEMMA ReturnTypes ==
  ASSUME GateTypeOK, NEW c \in Caller, Return(c)
  PROVE  /\ op' \in [Caller -> Op \cup {None}] /\ tok' \in [Caller -> Token \cup {None}]
         /\ votes' \in [Caller -> [Verifier -> Vote]] /\ dec' \in [Caller -> Decisions]
         /\ checked' \in [Caller -> Versions] /\ ran' \in [Caller -> BOOLEAN]
<1>1. NoVotes \in [Verifier -> Vote] /\ Undecided \in Decisions
  BY VoteTypes DEF NoVotes, Undecided, Decisions
<1>2. op' \in [Caller -> Op \cup {None}] /\ tok' \in [Caller -> Token \cup {None}]
  BY DEF GateTypeOK, Return
<1>3. votes' \in [Caller -> [Verifier -> Vote]] /\ dec' \in [Caller -> Decisions]
  BY <1>1 DEF GateTypeOK, Return
<1>4. checked' \in [Caller -> Versions] /\ ran' \in [Caller -> BOOLEAN]
  <2>1. 0 \in Versions
    BY GateAssumption DEF Versions
  <2> QED
    BY <2>1 DEF GateTypeOK, Return
<1> QED
  BY <1>2, <1>3, <1>4

\* The window of V3 moves.
LEMMA RingTail ==
  ASSUME ring \in Seq(Event), Len(ring) <= RingCap, ring # <<>>
  PROVE  Tail(ring) \in Seq(Event) /\ Len(Tail(ring)) <= RingCap
<1>1. Len(Tail(ring)) = Len(ring) - 1 /\ Len(ring) \in Nat /\ RingCap \in Nat
  BY GateAssumption
<1> QED
  BY <1>1

\* A caller's own steps.
LEMMA EnforceTypes ==
  ASSUME GateTypeOK, HasOp, NEW c \in Caller, Enforce(c)
  PROVE  GateTypeOK' /\ HasOp'
<1>1. op[c] \in Op /\ UNCHANGED <<mode, version, granted>>
  BY DEF HasOp, Enforce
<1>2. CASE pc' = [pc EXCEPT ![c] = "idle"] /\ Return(c) /\ UNCHANGED ring
  <2>1. HasOp'
    BY <1>2 DEF HasOp, Return, GateTypeOK
  <2> QED
    BY <1>1, <1>2, <2>1, ReturnTypes DEF GateTypeOK
<1>3. ASSUME NEW auto \in BOOLEAN, Goes(c), RecordExec(op[c], auto) \/ UNCHANGED ring
      PROVE  GateTypeOK' /\ HasOp'
  <2>1. ring' \in Seq(Event) /\ Len(ring') <= RingCap
    BY <1>1, <1>3, RecordTypes DEF GateTypeOK
  <2>2. version[op[c]] \in Versions
    BY <1>1 DEF GateTypeOK
  <2>3. HasOp'
    BY <1>1, <1>3 DEF HasOp, Goes, GateTypeOK
  <2> QED
    BY <1>1, <1>3, <2>1, <2>2, <2>3 DEF GateTypeOK, Goes
<1>4. CASE /\ pc' = [pc EXCEPT ![c] = "ask"]
           /\ votes' = [votes EXCEPT ![c] = NoVotes] /\ tok' = [tok EXCEPT ![c] = None]
           /\ UNCHANGED <<ring, op, dec, checked, ran>>
  <2>1. NoVotes \in [Verifier -> Vote]
    BY VoteTypes DEF NoVotes
  <2>2. HasOp'
    BY <1>1, <1>4 DEF HasOp, GateTypeOK
  <2> QED
    BY <1>1, <1>4, <2>1, <2>2 DEF GateTypeOK
<1> QED
  BY <1>2, <1>3, <1>4, Zenon DEF Enforce

LEMMA CallTypes ==
  ASSUME GateTypeOK, HasOp, NEW c \in Caller, CallStep(c) \/ Approved(c)
  PROVE  GateTypeOK' /\ HasOp'
<1>1. CASE Evaluate(c)
  <2>1. UNCHANGED <<mode, version, ring, granted, checked, ran>> /\ pc[c] = "look"
    BY <1>1 DEF Evaluate
  <2>2. HasOp'
    BY <1>1, <2>1, EvaluateTypes DEF HasOp, GateTypeOK
  <2> QED
    BY <1>1, <2>1, <2>2, EvaluateTypes DEF GateTypeOK
<1>2. CASE Enforce(c)
  BY <1>2, EnforceTypes
<1>3. CASE Run(c) \/ ShadowEnds(c) \/ Approved(c)
  <2>1. pc' = [pc EXCEPT ![c] = "idle"] /\ Return(c) /\ UNCHANGED <<mode, version, ring>>
        /\ pc[c] # "idle"
    BY <1>3 DEF Run, ShadowEnds, Approved
  <2>2. op[c] \in Op
    BY <2>1 DEF HasOp
  <2>3. granted' \in Token \cup {None}
    BY <1>3, <2>2 DEF Run, ShadowEnds, Approved, GateTypeOK, Token, Decisions
  <2>4. HasOp'
    BY <2>1 DEF HasOp, Return, GateTypeOK
  <2> QED
    BY <2>1, <2>3, <2>4, ReturnTypes DEF GateTypeOK
<1>4. CASE ShadowRun(c)
  BY <1>4 DEF ShadowRun, GateTypeOK, HasOp
<1> QED
  BY <1>1, <1>2, <1>3, <1>4 DEF CallStep

LEMMA EnterTypes ==
  ASSUME GateTypeOK, HasOp, NEW c \in Caller, NEW o \in Op, NEW t \in {granted, None},
         Enter(c, o, t)
  PROVE  GateTypeOK' /\ HasOp'
<1>1. ring' \in Seq(Event) /\ Len(ring') <= RingCap
  BY RecordTypes DEF Enter, GateTypeOK
<1>2. HasOp'
  BY DEF HasOp, Enter, GateTypeOK
<1> QED
  BY <1>1, <1>2 DEF Enter, GateTypeOK

LEMMA TypeInit == GateInit => GateTypeOK /\ HasOp
<1> SUFFICES ASSUME GateInit PROVE GateTypeOK /\ HasOp
  OBVIOUS
<1>1. 0 \in Versions /\ RingCap \in Nat
  BY GateAssumption DEF Versions
<1>2. NoVotes \in [Verifier -> Vote] /\ Undecided \in Decisions
  BY VoteTypes DEF NoVotes, Undecided, Decisions
<1>3. <<>> \in Seq(Event) /\ Len(<<>>) <= RingCap
  BY <1>1
<1> QED
  BY <1>1, <1>2, <1>3 DEF GateInit, GateTypeOK, HasOp

LEMMA TypeStep == GateTypeOK /\ HasOp /\ [GateNext]_gateVars => GateTypeOK' /\ HasOp'
<1> SUFFICES ASSUME GateTypeOK, HasOp, [GateNext]_gateVars PROVE GateTypeOK' /\ HasOp'
  OBVIOUS
<1>1. ASSUME NEW c \in Caller, CallStep(c) \/ Approved(c)
      PROVE  GateTypeOK' /\ HasOp'
  BY <1>1, CallTypes
<1>2. ASSUME NEW c \in Caller, NEW o \in Op, NEW t \in {granted, None}, Enter(c, o, t)
      PROVE  GateTypeOK' /\ HasOp'
  BY <1>2, EnterTypes
<1>3. ASSUME NEW o \in Op, Edit(o)
      PROVE  GateTypeOK' /\ HasOp'
  <2>1. version[o] + 1 \in Versions
    BY <1>3, GateAssumption DEF Edit, GateTypeOK, Versions
  <2> QED
    BY <1>3, <2>1 DEF Edit, GateTypeOK, HasOp, callVars
<1>4. CASE WindowMoves
  BY <1>4, RingTail DEF WindowMoves, GateTypeOK, HasOp, callVars
<1>5. CASE UNCHANGED gateVars
  BY <1>5 DEF gateVars, callVars, GateTypeOK, HasOp
<1> QED
  BY <1>1, <1>2, <1>3, <1>4, <1>5 DEF GateNext

-----------------------------------------------------------------------------
(* What an enforcing gate knows of a call it is about to decide, or lets through. *)

Judged(c) ==
  \/ dec[c] = Refusal
  \/ ~Attributes[op[c]].floor /\ dec[c] = Combine(votes[c])

Vetted(c) ==
  /\ ~Attributes[op[c]].floor
  /\ \A i \in Verifier : votes[c][i].verdict # "deny"
  /\ (\A i \in Verifier : Confident(votes[c][i])) \/ Covered(c)

Knows ==
  mode = "enforcing" => \A c \in Caller : /\ pc[c] = "enforce" => Judged(c)
                                          /\ pc[c] = "run" => Vetted(c)

\* Whoever moves leaves what the other callers know alone.
LEMMA OthersKnow ==
  ASSUME GateTypeOK, Knows, NEW c \in Caller, mode' = mode,
         \A d \in Caller \ {c} :
           UNCHANGED <<pc[d], op[d], tok[d], votes[d], dec[d], checked[d]>>,
         mode = "enforcing" /\ pc'[c] = "enforce" => Judged(c)',
         mode = "enforcing" /\ pc'[c] = "run" => Vetted(c)'
  PROVE  Knows'
<1> SUFFICES ASSUME mode = "enforcing", NEW d \in Caller
             PROVE  /\ pc'[d] = "enforce" => Judged(d)'
                    /\ pc'[d] = "run" => Vetted(d)'
  BY DEF Knows
<1>1. CASE d = c
  BY <1>1
<1>2. CASE d # c
  <2>1. UNCHANGED <<pc[d], op[d], tok[d], votes[d], dec[d], checked[d]>>
    BY <1>2
  <2>2. /\ pc[d] = "enforce" => Judged(d)
        /\ pc[d] = "run" => Vetted(d)
    BY DEF Knows
  <2> QED
    BY <2>1, <2>2 DEF Judged, Vetted, Covered
<1> QED
  BY <1>1, <1>2

\* A call that goes has been vetted.
LEMMA GoesVetted ==
  ASSUME GateTypeOK, HasOp, NEW c \in Caller, Judged(c), Goes(c), dec[c].outcome # "deny",
         \/ tok[c] # None /\ Matches(c) /\ Enough(c)
         \/ tok[c] = None /\ dec[c].outcome = "allow"
  PROVE  Vetted(c)'
<1>1. dec[c] # Refusal
  BY DEF Refusal
<1>2. ~Attributes[op[c]].floor /\ dec[c] = Combine(votes[c])
  BY <1>1 DEF Judged
<1>3. votes[c] \in [Verifier -> Vote] /\ dec[c] \in Decisions
  BY DEF GateTypeOK
<1>4. /\ dec[c].outcome \in {"allow", "escalate"}
      /\ \A i \in Verifier : votes[c][i].verdict # "deny"
  BY <1>2, <1>3, Combined DEF Decisions
<1>5. UNCHANGED <<op, tok, votes, dec>> /\ checked'[c] = version[op[c]]
  BY DEF Goes, GateTypeOK
<1>6. CASE dec[c].outcome = "allow"
  <2>1. \A i \in Verifier : Confident(votes[c][i])
    BY <1>2, <1>3, <1>6, Combined
  <2> QED
    BY <1>2, <1>4, <1>5, <2>1 DEF Vetted
<1>7. CASE dec[c].outcome = "escalate"
  <2>1. tok[c] # None /\ tok[c].op = op[c] /\ tok[c].version = checked'[c]
        /\ tok[c].tier >= dec[c].tier
    BY <1>5, <1>7 DEF Matches, Enough
  <2>2. tok[c].tier \in Tiers /\ dec[c].tier \in Tiers
    BY <1>3, <2>1 DEF GateTypeOK, Token, Decisions
  <2>3. ASSUME NEW i \in Verifier, ~Confident(votes[c][i])
        PROVE  tok[c].tier >= votes[c][i].tier
    <3>1. dec[c].tier >= votes[c][i].tier
      BY <1>2, <1>3, <1>7, <2>3, Combined
    <3>2. votes[c][i].tier \in Tiers
      BY <1>3 DEF Vote
    <3> QED
      BY <2>1, <2>2, <3>1, <3>2 DEF Tiers, Benign, Sensitive, Critical
  <2>4. Cardinality({i \in Verifier : Failed(votes[c][i])}) >= 2 => tok[c].tier = Critical
    <3> SUFFICES ASSUME Cardinality({i \in Verifier : Failed(votes[c][i])}) >= 2
                 PROVE  tok[c].tier = Critical
      OBVIOUS
    <3>1. dec[c].tier = Critical
      BY <1>2, <1>3, <1>7, Combined
    <3> QED
      BY <2>1, <2>2, <3>1 DEF Tiers, Benign, Sensitive, Critical
  <2>5. Covered(c)'
    BY <1>5, <2>1, <2>3, <2>4 DEF Covered
  <2> QED
    BY <1>2, <1>4, <1>5, <2>5 DEF Vetted
<1> QED
  BY <1>4, <1>6, <1>7

LEMMA CallKnows ==
  ASSUME GateTypeOK, HasOp, Knows, NEW c \in Caller, CallStep(c) \/ Approved(c)
  PROVE  Knows'
<1>1. mode' = mode
      /\ \A d \in Caller \ {c} :
           UNCHANGED <<pc[d], op[d], tok[d], votes[d], dec[d], checked[d]>>
  <2>1. CASE Evaluate(c)
    BY <2>1 DEF Evaluate, GateTypeOK
  <2>2. CASE Enforce(c)
    BY <2>2 DEF Enforce, Return, Goes, GateTypeOK
  <2>3. CASE Run(c) \/ ShadowRun(c) \/ ShadowEnds(c) \/ Approved(c)
    BY <2>3 DEF Run, ShadowRun, ShadowEnds, Approved, Return, GateTypeOK
  <2> QED
    BY <2>1, <2>2, <2>3 DEF CallStep
<1>2. ASSUME mode = "enforcing"
      PROVE  /\ pc'[c] = "enforce" => Judged(c)'
             /\ pc'[c] = "run" => Vetted(c)'
  <2>1. CASE Evaluate(c)
    <3>1. /\ op' = op /\ pc'[c] = "enforce"
          /\ \/ dec'[c] = Refusal
             \/ ~Attributes[op[c]].floor /\ dec'[c] = Combine(votes'[c])
      BY <2>1, EvaluateTypes DEF GateTypeOK
    <3> QED
      BY <3>1 DEF Judged
  <2>2. CASE Enforce(c)
    <3>1. pc[c] = "enforce"
      BY <2>2 DEF Enforce
    <3>2. Judged(c)
      BY <1>2, <3>1 DEF Knows
    <3>3. \/ pc'[c] \in {"idle", "ask"}
          \/ /\ Goes(c) /\ dec[c].outcome # "deny"
             /\ \/ tok[c] # None /\ Matches(c) /\ Enough(c)
                \/ tok[c] = None /\ dec[c].outcome = "allow"
      BY <2>2 DEF Enforce, GateTypeOK
    <3>4. CASE pc'[c] \in {"idle", "ask"}
      BY <3>4
    <3>5. CASE /\ Goes(c) /\ dec[c].outcome # "deny"
               /\ \/ tok[c] # None /\ Matches(c) /\ Enough(c)
                  \/ tok[c] = None /\ dec[c].outcome = "allow"
      <4>1. pc'[c] = "run"
        BY <3>5 DEF Goes, GateTypeOK
      <4> QED
        BY <3>2, <3>5, <4>1, GoesVetted
    <3> QED
      BY <3>3, <3>4, <3>5
  <2>3. CASE Run(c) \/ ShadowEnds(c) \/ Approved(c)
    BY <2>3 DEF Run, ShadowEnds, Approved, GateTypeOK
  <2>4. CASE ShadowRun(c)
    BY <1>2, <2>4 DEF ShadowRun
  <2> QED
    BY <2>1, <2>2, <2>3, <2>4 DEF CallStep
<1> QED
  BY <1>1, <1>2, OthersKnow

LEMMA KnowsStep == GateTypeOK /\ HasOp /\ Knows /\ [GateNext]_gateVars => Knows'
<1> SUFFICES ASSUME GateTypeOK, HasOp, Knows, [GateNext]_gateVars PROVE Knows'
  OBVIOUS
<1>1. ASSUME NEW c \in Caller, CallStep(c) \/ Approved(c)
      PROVE  Knows'
  BY <1>1, CallKnows
<1>2. ASSUME NEW c \in Caller, NEW o \in Op, NEW t \in {granted, None}, Enter(c, o, t)
      PROVE  Knows'
  <2>1. mode' = mode
        /\ \A d \in Caller \ {c} :
             UNCHANGED <<pc[d], op[d], tok[d], votes[d], dec[d], checked[d]>>
    BY <1>2 DEF Enter, GateTypeOK
  <2>2. mode = "enforcing" => pc'[c] = "look"
    BY <1>2 DEF Enter, GateTypeOK
  <2> QED
    BY <2>1, <2>2, OthersKnow
<1>3. CASE \/ \E o \in Op : Edit(o)
           \/ WindowMoves
           \/ UNCHANGED gateVars
  <2>1. UNCHANGED <<mode, pc, op, tok, votes, dec, checked>>
    BY <1>3 DEF Edit, WindowMoves, gateVars, callVars
  <2> QED
    BY <2>1 DEF Knows, Judged, Vetted, Covered
<1> QED
  BY <1>1, <1>2, <1>3 DEF GateNext

-----------------------------------------------------------------------------
(* The rate.  A caller whose destructive operation is allowed and not yet in the  *)
(* ring is in flight: the window and the flights together keep to the bound.      *)

Autos(r) == {n \in Destructive(r) : r[n].auto}
InFlight ==
  {c \in Caller : pc[c] = "enforce" /\ dec[c].outcome = "allow" /\ Attributes[op[c]].destructive}
Room == Cardinality(Autos(ring)) + Cardinality(InFlight) <= RateMaxOps + Cardinality(Caller) - 1

\* A decision belongs to a call.
Fresh == \A c \in Caller : pc[c] \in {"idle", "look"} => dec[c] = Undecided

RateInv == GateTypeOK /\ HasOp /\ Fresh /\ Room

LEMMA AutosFinite ==
  ASSUME NEW r \in Seq(Event)
  PROVE  /\ IsFiniteSet(Destructive(r)) /\ Cardinality(Destructive(r)) \in Nat
         /\ IsFiniteSet(Autos(r)) /\ Cardinality(Autos(r)) \in Nat
         /\ Cardinality(Autos(r)) <= Cardinality(Destructive(r))
<1>1. IsFiniteSet(1..Len(r))
  BY FS_Interval
<1>2. Destructive(r) \in SUBSET (1..Len(r)) /\ Autos(r) \in SUBSET Destructive(r)
  BY DEF Destructive, Autos
<1>3. IsFiniteSet(Destructive(r))
  BY <1>1, <1>2, FS_Subset
<1>4. IsFiniteSet(Autos(r)) /\ Cardinality(Autos(r)) <= Cardinality(Destructive(r))
  BY <1>2, <1>3, FS_Subset
<1> QED
  BY <1>3, <1>4, FS_CardinalityType

LEMMA FlightsFinite ==
  /\ IsFiniteSet(InFlight) /\ Cardinality(InFlight) \in Nat
  /\ Cardinality(Caller) \in Nat /\ Cardinality(InFlight) <= Cardinality(Caller)
<1>1. InFlight \in SUBSET Caller
  BY DEF InFlight
<1>2. IsFiniteSet(Caller)
  BY GateAssumption
<1>3. IsFiniteSet(InFlight) /\ Cardinality(InFlight) <= Cardinality(Caller)
  BY <1>1, <1>2, FS_Subset
<1> QED
  BY <1>2, <1>3, FS_CardinalityType

\* When the oldest entry leaves no execution is counted that was not before.
LEMMA AutosTail ==
  ASSUME NEW r \in Seq(Event), r # <<>>
  PROVE  Cardinality(Autos(Tail(r))) <= Cardinality(Autos(r))
<1> DEFINE f == [n \in Autos(Tail(r)) |-> n + 1]
<1>1. Tail(r) \in Seq(Event) /\ Len(Tail(r)) = Len(r) - 1 /\ Len(r) \in Nat
      /\ \A n \in 1..Len(Tail(r)) : Tail(r)[n] = r[n + 1]
  OBVIOUS
<1>2. \A n \in Autos(Tail(r)) : n \in Nat /\ n + 1 \in Autos(r)
  BY <1>1 DEF Autos, Destructive
<1>3. f \in Injection(Autos(Tail(r)), Autos(r))
  BY <1>2, Fun_IsInj DEF Injection, IsInjective
<1>4. IsFiniteSet(Autos(r))
  BY AutosFinite
<1> HIDE DEF f
<1> QED
  BY <1>3, <1>4, FS_Injection

\* An entry counts for one at most, and only an execution of a destructive operation
\* that needed no approval counts.
LEMMA AutosAppend ==
  ASSUME NEW r \in Seq(Event), NEW e \in Event
  PROVE  /\ Cardinality(Autos(Append(r, e))) <= Cardinality(Autos(r)) + 1
         /\ ~e.auto \/ ~Attributes[e.op].destructive
              => Cardinality(Autos(Append(r, e))) <= Cardinality(Autos(r))
<1> DEFINE n == Len(r) + 1
<1>1. Len(Append(r, e)) = n /\ Append(r, e)[n] = e /\ Len(r) \in Nat
      /\ \A k \in 1..Len(r) : Append(r, e)[k] = r[k]
  OBVIOUS
<1>2. Autos(Append(r, e)) = Autos(r) \/ Autos(Append(r, e)) = Autos(r) \cup {n}
  BY <1>1 DEF Autos, Destructive
<1>3. ~e.auto \/ ~Attributes[e.op].destructive => Autos(Append(r, e)) = Autos(r)
  BY <1>1 DEF Autos, Destructive
<1>4. IsFiniteSet(Autos(r)) /\ Cardinality(Autos(r)) \in Nat
  BY AutosFinite
<1>5. Cardinality(Autos(r) \cup {n}) <= Cardinality(Autos(r)) + 1
  <2> HIDE DEF n
  <2>1. Cardinality(Autos(r) \cup {n})
          = IF n \in Autos(r) THEN Cardinality(Autos(r)) ELSE Cardinality(Autos(r)) + 1
    BY <1>4, FS_AddElement
  <2> QED
    BY <1>4, <2>1
<1> HIDE DEF n
<1>6. CASE Autos(Append(r, e)) = Autos(r)
  BY <1>4, <1>6
<1>7. CASE Autos(Append(r, e)) = Autos(r) \cup {n} /\ e.auto /\ Attributes[e.op].destructive
  BY <1>5, <1>7
<1>8. Attributes[e.op].destructive \in BOOLEAN /\ e.auto \in BOOLEAN
  BY GateAssumption DEF Event, Operations
<1> QED
  BY <1>2, <1>3, <1>6, <1>7, <1>8

LEMMA AutosRecord ==
  ASSUME ring \in Seq(Event), NEW o \in Op, NEW auto \in BOOLEAN, RecordExec(o, auto)
  PROVE  /\ ring' \in Seq(Event)
         /\ Cardinality(Autos(ring')) <= Cardinality(Autos(ring)) + 1
         /\ ~auto \/ ~Attributes[o].destructive
              => Cardinality(Autos(ring')) <= Cardinality(Autos(ring))
<1> DEFINE e == [op |-> o, auto |-> auto]
           r == Append(ring, e)
<1>1. e \in Event /\ e.op = o /\ e.auto = auto
  BY DEF Event
<1>2. r \in Seq(Event) /\ r # <<>>
  BY <1>1
<1>3. /\ Cardinality(Autos(r)) <= Cardinality(Autos(ring)) + 1
      /\ ~auto \/ ~Attributes[o].destructive
           => Cardinality(Autos(r)) <= Cardinality(Autos(ring))
  BY <1>1, AutosAppend
<1>4. Tail(r) \in Seq(Event) /\ Cardinality(Autos(Tail(r))) <= Cardinality(Autos(r))
  <2> HIDE DEF r
  <2> QED
    BY <1>2, AutosTail
<1>5. ring' = r \/ ring' = Tail(r)
  BY DEF RecordExec
<1>6. /\ Cardinality(Autos(ring)) \in Nat /\ Cardinality(Autos(r)) \in Nat
      /\ Cardinality(Autos(Tail(r))) \in Nat
  BY <1>2, <1>4, AutosFinite
<1> HIDE DEF r, e
<1>7. CASE ring' = r
  BY <1>2, <1>3, <1>7
<1>8. CASE ring' = Tail(r)
  <2>1. Cardinality(Autos(Tail(r))) <= Cardinality(Autos(ring)) + 1
    BY <1>3, <1>4, <1>6
  <2>2. ~auto \/ ~Attributes[o].destructive
          => Cardinality(Autos(Tail(r))) <= Cardinality(Autos(ring))
    BY <1>3, <1>4, <1>6
  <2> QED
    BY <1>4, <1>8, <2>1, <2>2
<1> QED
  BY <1>5, <1>7, <1>8

\* V3 agrees to a destructive operation only while the window has room.
LEMMA AllowedHasRoom ==
  ASSUME GateTypeOK, HasOp, NEW c \in Caller, Evaluate(c),
         dec'[c].outcome = "allow", Attributes[op[c]].destructive
  PROVE  Cardinality(Destructive(ring)) < RateMaxOps
<1>1. dec'[c] # Refusal
  BY DEF Refusal
<1>2. PICK v3 \in V3Votes(op[c]), v4 \in V4Votes(op[c]), hung \in Hangs :
        votes' = [votes EXCEPT ![c] = [n \in Verifier |-> Cast(op[c], n, v3, v4, hung)]]
  BY <1>1, EvaluateTypes DEF GateTypeOK
<1>3. dec'[c] = Combine(votes'[c]) /\ votes'[c] \in [Verifier -> Vote]
  BY <1>1, EvaluateTypes DEF GateTypeOK
<1>4. 3 \in Verifier /\ Confident(votes'[c][3])
  <2>1. 3 \in Verifier
    BY DEF Verifier
  <2> DEFINE vs == votes'[c]
  <2>2. vs \in [Verifier -> Vote] /\ Combine(vs).outcome = "allow"
    BY <1>3
  <2> HIDE DEF vs
  <2>3. \A k \in Verifier : Confident(vs[k])
    BY <2>2, Combined
  <2> QED
    BY <2>1, <2>3 DEF vs
<1>5. votes'[c][3] = Cast(op[c], 3, v3, v4, hung)
  BY <1>2, <1>4 DEF GateTypeOK
<1>6. v3 \in Vote /\ Overrides[3] \in Tiers
  BY <1>4, VoteTypes, GateAssumption DEF V3Votes, Objections
<1>7. Confident(v3)
  <2>1. CASE 3 \in hung
    <3>1. Cast(op[c], 3, v3, v4, hung) = Raise(Abstains, Overrides[3])
      BY <2>1 DEF Cast
    <3>2. ~Confident(Raise(Abstains, Overrides[3]))
      BY DEF Raise, Abstains, Failed, Confident
    <3> QED
      BY <1>4, <1>5, <3>1, <3>2
  <2>2. CASE 3 \notin hung
    <3>1. Cast(op[c], 3, v3, v4, hung) = Raise(v3, Overrides[3])
      BY <2>2 DEF Cast
    <3> QED
      BY <1>4, <1>5, <1>6, <3>1, RaiseTypes
  <2> QED
    BY <2>1, <2>2
<1>8. v3 \notin Objections
  BY <1>7 DEF Objections, Escalate, Confident
<1>9. ~(Cardinality(Destructive(ring)) >= RateMaxOps)
  BY <1>2, <1>8 DEF V3Votes
<1> QED
  BY <1>9, AutosFinite, GateAssumption DEF GateTypeOK

\* Room is kept when nothing is added to the window or the flights, and when what
\* was in flight lands.
LEMMA RoomKept ==
  ASSUME GateTypeOK, GateTypeOK', Room
  PROVE  /\ /\ Cardinality(Autos(ring)') <= Cardinality(Autos(ring)) /\ InFlight' \subseteq InFlight
            => Room'
         /\ \A c : /\ Cardinality(Autos(ring)') <= Cardinality(Autos(ring)) + 1
                   /\ c \in InFlight /\ InFlight' = InFlight \ {c}
                   => Room'
<1>1. /\ IsFiniteSet(InFlight) /\ Cardinality(InFlight) \in Nat /\ Cardinality(Caller) \in Nat
      /\ Cardinality(Autos(ring)) \in Nat /\ RateMaxOps \in Nat
  BY FlightsFinite, AutosFinite, GateAssumption DEF GateTypeOK
<1>2. Cardinality(InFlight') \in Nat /\ Cardinality(Autos(ring)') \in Nat
  <2>1. ring' \in Seq(Event)
    BY DEF GateTypeOK
  <2>2. Cardinality(Autos(ring')) \in Nat
    BY <2>1, AutosFinite
  <2>3. InFlight' \in SUBSET Caller
    BY DEF InFlight
  <2>4. Cardinality(InFlight') \in Nat
    BY <2>3, GateAssumption, FS_Subset, FS_CardinalityType
  <2> QED
    BY <2>2, <2>4 DEF Autos, Destructive
<1>3. InFlight' \subseteq InFlight => Cardinality(InFlight') <= Cardinality(InFlight)
  BY <1>1, FS_Subset
<1>4. ASSUME NEW c, c \in InFlight, InFlight' = InFlight \ {c}
      PROVE  Cardinality(InFlight') = Cardinality(InFlight) - 1
  BY <1>1, <1>4, FS_RemoveElement
<1> QED
  BY <1>1, <1>2, <1>3, <1>4 DEF Room

LEMMA FreshStep == GateTypeOK /\ Fresh /\ [GateNext]_gateVars => Fresh'
<1> SUFFICES ASSUME GateTypeOK, Fresh, [GateNext]_gateVars PROVE Fresh'
  OBVIOUS
<1>1. ASSUME NEW c \in Caller, Evaluate(c) \/ ShadowRun(c)
      PROVE  Fresh'
  <2>1. \A d \in Caller : pc'[d] \in {"idle", "look"} => pc'[d] = pc[d] /\ dec'[d] = dec[d]
    BY <1>1 DEF Evaluate, ShadowRun, GateTypeOK
  <2> QED
    BY <2>1 DEF Fresh
<1>2. ASSUME NEW c \in Caller, Enforce(c)
      PROVE  Fresh'
  <2>1. \A d \in Caller \ {c} : pc'[d] = pc[d] /\ dec'[d] = dec[d]
    BY <1>2 DEF Enforce, Return, Goes, GateTypeOK
  <2>2. pc'[c] \in {"idle", "look"} => dec'[c] = Undecided
    BY <1>2 DEF Enforce, Return, Goes, GateTypeOK
  <2> QED
    BY <2>1, <2>2 DEF Fresh
<1>3. ASSUME NEW c \in Caller, Run(c) \/ ShadowEnds(c) \/ Approved(c)
      PROVE  Fresh'
  BY <1>3 DEF Run, ShadowEnds, Approved, Return, GateTypeOK, Fresh
<1>4. ASSUME NEW c \in Caller, NEW o \in Op, NEW t \in {granted, None}, Enter(c, o, t)
      PROVE  Fresh'
  <2>1. pc[c] = "idle" /\ dec' = dec /\ \A d \in Caller \ {c} : pc'[d] = pc[d]
    BY <1>4 DEF Enter, GateTypeOK
  <2> QED
    BY <2>1 DEF Fresh
<1>5. CASE (\E o \in Op : Edit(o)) \/ WindowMoves \/ UNCHANGED gateVars
  <2>1. UNCHANGED <<pc, dec>>
    BY <1>5 DEF Edit, WindowMoves, gateVars, callVars
  <2> QED
    BY <2>1 DEF Fresh
<1> QED
  BY <1>1, <1>2, <1>3, <1>4, <1>5 DEF GateNext, CallStep

\* Callers that do not arrive at the decision are in flight only if they were.
LEMMA NoFlight ==
  ASSUME NEW c \in Caller,
         \A d \in Caller \ {c} : UNCHANGED <<pc[d], dec[d], op[d]>>,
         pc'[c] # "enforce" \/ dec'[c].outcome # "allow" \/ ~Attributes[op'[c]].destructive
  PROVE  InFlight' = InFlight \ {c}
BY DEF InFlight

LEMMA EvaluateRoom ==
  ASSUME RateInv, GateTypeOK', NEW c \in Caller, Evaluate(c)
  PROVE  Room'
<1>1. ring' = ring /\ op' = op
      /\ \A d \in Caller \ {c} : UNCHANGED <<pc[d], dec[d], op[d]>>
  BY DEF Evaluate, RateInv, GateTypeOK
<1>2. Autos(ring)' = Autos(ring)
  BY <1>1 DEF Autos, Destructive
<1>3. Cardinality(Autos(ring)) \in Nat /\ Cardinality(Destructive(ring)) \in Nat
      /\ Cardinality(Autos(ring)) <= Cardinality(Destructive(ring))
  BY AutosFinite DEF RateInv, GateTypeOK
<1>4. CASE dec'[c].outcome = "allow" /\ Attributes[op[c]].destructive
  <2>1. Cardinality(Destructive(ring)) < RateMaxOps
    BY <1>4, AllowedHasRoom DEF RateInv
  <2>2. InFlight' \in SUBSET Caller
    BY DEF InFlight
  <2>3. Cardinality(InFlight') \in Nat /\ Cardinality(InFlight') <= Cardinality(Caller)
        /\ Cardinality(Caller) \in Nat
    BY <2>2, GateAssumption, FS_Subset, FS_CardinalityType
  <2> QED
    BY <1>2, <1>3, <2>1, <2>3, GateAssumption DEF Room
<1>5. CASE dec'[c].outcome # "allow" \/ ~Attributes[op[c]].destructive
  <2>1. InFlight' = InFlight \ {c}
    BY <1>1, <1>5, NoFlight
  <2>2. Cardinality(Autos(ring)') <= Cardinality(Autos(ring))
    BY <1>2, <1>3
  <2>3. InFlight' \subseteq InFlight
    BY <2>1
  <2> QED
    BY <2>2, <2>3, RoomKept DEF RateInv
<1> QED
  BY <1>4, <1>5

LEMMA EnforceRoom ==
  ASSUME RateInv, GateTypeOK', NEW c \in Caller, Enforce(c)
  PROVE  Room'
<1>1. /\ \A d \in Caller \ {c} : UNCHANGED <<pc[d], dec[d], op[d]>>
      /\ pc[c] = "enforce" /\ pc'[c] # "enforce" /\ op[c] \in Op
  <2>1. /\ pc[c] = "enforce"
        /\ \E s \in {"idle", "run", "ask"} : pc' = [pc EXCEPT ![c] = s]
        /\ dec' = dec \/ dec' = [dec EXCEPT ![c] = Undecided]
        /\ op' = op \/ op' = [op EXCEPT ![c] = None]
    BY DEF Enforce, Return, Goes
  <2>2. op[c] \in Op
    BY <2>1 DEF RateInv, HasOp
  <2>3. DOMAIN pc = Caller /\ DOMAIN dec = Caller /\ DOMAIN op = Caller
    BY DEF RateInv, GateTypeOK
  <2> QED
    BY <2>1, <2>2, <2>3
<1>2. InFlight' = InFlight \ {c}
  BY <1>1, NoFlight
<1>3. Cardinality(Autos(ring)) \in Nat /\ ring \in Seq(Event)
  BY AutosFinite DEF RateInv, GateTypeOK
<1>4. CASE UNCHANGED ring
  <2>1. Autos(ring)' = Autos(ring)
    BY <1>4 DEF Autos, Destructive
  <2>2. Cardinality(Autos(ring)') <= Cardinality(Autos(ring)) /\ InFlight' \subseteq InFlight
    BY <1>2, <1>3, <2>1
  <2> QED
    BY <2>2, RoomKept DEF RateInv
<1>5. ASSUME NEW auto \in BOOLEAN, RecordExec(op[c], auto),
             ~auto \/ ~Attributes[op[c]].destructive
      PROVE  Room'
  <2>1. Cardinality(Autos(ring')) <= Cardinality(Autos(ring))
    BY <1>1, <1>3, <1>5, AutosRecord
  <2>2. Autos(ring)' = Autos(ring')
    BY DEF Autos, Destructive
  <2>3. Cardinality(Autos(ring)') <= Cardinality(Autos(ring)) /\ InFlight' \subseteq InFlight
    BY <1>2, <2>1, <2>2
  <2> QED
    BY <2>3, RoomKept DEF RateInv
<1>6. ASSUME RecordExec(op[c], TRUE), dec[c].outcome = "allow", Attributes[op[c]].destructive
      PROVE  Room'
  <2>1. Cardinality(Autos(ring')) <= Cardinality(Autos(ring)) + 1
    BY <1>1, <1>3, <1>6, AutosRecord
  <2>2. Autos(ring)' = Autos(ring')
    BY DEF Autos, Destructive
  <2>3. c \in InFlight
    BY <1>1, <1>6 DEF InFlight
  <2>4. Cardinality(Autos(ring)') <= Cardinality(Autos(ring)) + 1
    BY <2>1, <2>2
  <2> QED
    BY <1>2, <2>3, <2>4, RoomKept DEF RateInv
<1>7. \/ UNCHANGED ring
      \/ RecordExec(op[c], FALSE)
      \/ RecordExec(op[c], TRUE) /\ dec[c].outcome = "allow"
  BY DEF Enforce
<1>8. Attributes[op[c]].destructive \in BOOLEAN
  BY <1>1, GateAssumption DEF Operations
<1> QED
  BY <1>4, <1>5, <1>6, <1>7, <1>8

\* Whatever else happens adds no flight, and no execution that counts.
Elsewhere ==
  \/ \E c \in Caller : \/ Run(c) \/ ShadowRun(c) \/ ShadowEnds(c) \/ Approved(c)
                       \/ \E o \in Op, t \in {granted, None} : Enter(c, o, t)
  \/ \E o \in Op : Edit(o)
  \/ WindowMoves
  \/ UNCHANGED gateVars

LEMMA OthersRoom ==
  ASSUME RateInv, GateTypeOK', Elsewhere
  PROVE  Room'
<1>1. Cardinality(Autos(ring)) \in Nat /\ ring \in Seq(Event)
  BY AutosFinite DEF RateInv, GateTypeOK
<1>2. Autos(ring)' = Autos(ring')
  BY DEF Autos, Destructive
<1>3. CASE \E c \in Caller : Run(c) \/ ShadowEnds(c) \/ Approved(c)
  <2>1. PICK c \in Caller : Run(c) \/ ShadowEnds(c) \/ Approved(c)
    BY <1>3
  <2>2. ring' = ring /\ pc'[c] # "enforce"
        /\ \A d \in Caller \ {c} : UNCHANGED <<pc[d], dec[d], op[d]>>
    BY <2>1 DEF Run, ShadowEnds, Approved, Return, RateInv, GateTypeOK
  <2>3. InFlight' \subseteq InFlight
    BY <2>2, NoFlight
  <2>4. Cardinality(Autos(ring)') <= Cardinality(Autos(ring))
    BY <1>1, <1>2, <2>2
  <2> QED
    BY <2>3, <2>4, RoomKept DEF RateInv
<1>4. CASE \E c \in Caller, o \in Op, t \in {granted, None} : Enter(c, o, t)
  <2>1. PICK c \in Caller, o \in Op, t \in {granted, None} : Enter(c, o, t)
    BY <1>4
  <2>2. pc[c] = "idle" /\ dec' = dec
        /\ \A d \in Caller \ {c} : UNCHANGED <<pc[d], dec[d], op[d]>>
    BY <2>1 DEF Enter, RateInv, GateTypeOK
  <2>3. dec'[c].outcome # "allow"
    BY <2>2 DEF RateInv, Fresh, Undecided
  <2>4. InFlight' \subseteq InFlight
    BY <2>2, <2>3, NoFlight
  <2>5. RecordExec(o, FALSE) \/ UNCHANGED ring
    BY <2>1 DEF Enter
  <2>6. Cardinality(Autos(ring')) <= Cardinality(Autos(ring))
    <3>1. CASE RecordExec(o, FALSE)
      BY <1>1, <3>1, AutosRecord
    <3>2. CASE UNCHANGED ring
      BY <1>1, <3>2
    <3> QED
      BY <2>5, <3>1, <3>2
  <2> QED
    BY <1>2, <2>4, <2>6, RoomKept DEF RateInv
<1>5. CASE (\E c \in Caller : ShadowRun(c)) \/ (\E o \in Op : Edit(o)) \/ WindowMoves
           \/ UNCHANGED gateVars
  <2>1. UNCHANGED <<pc, dec, op>>
    BY <1>5 DEF ShadowRun, Edit, WindowMoves, gateVars, callVars
  <2>2. InFlight' \subseteq InFlight
    BY <2>1 DEF InFlight
  <2>3. UNCHANGED ring \/ (ring # <<>> /\ ring' = Tail(ring))
    BY <1>5 DEF ShadowRun, Edit, WindowMoves, gateVars, callVars
  <2>4. Cardinality(Autos(ring')) <= Cardinality(Autos(ring))
    <3>1. CASE UNCHANGED ring
      BY <1>1, <3>1
    <3>2. CASE ring # <<>> /\ ring' = Tail(ring)
      BY <1>1, <3>2, AutosTail
    <3> QED
      BY <2>3, <3>1, <3>2
  <2> QED
    BY <1>2, <2>2, <2>4, RoomKept DEF RateInv
<1> QED
  BY <1>3, <1>4, <1>5 DEF Elsewhere

LEMMA RoomInit == GateInit => Room /\ Fresh
<1> SUFFICES ASSUME GateInit PROVE Room /\ Fresh
  OBVIOUS
<1>1. Autos(ring) = {} /\ InFlight = {}
  BY DEF GateInit, Autos, Destructive, InFlight
<1>2. Cardinality(Caller) \in Nat /\ Cardinality(Caller) # 0
  BY GateAssumption, FS_CardinalityType, FS_EmptySet
<1>3. Cardinality({}) = 0
  BY FS_EmptySet
<1>4. Room
  BY <1>1, <1>2, <1>3, GateAssumption DEF Room
<1> QED
  BY <1>4 DEF GateInit, Fresh

LEMMA RateStep == RateInv /\ [GateNext]_gateVars => RateInv'
<1> SUFFICES ASSUME RateInv, [GateNext]_gateVars PROVE RateInv'
  OBVIOUS
<1>1. GateTypeOK' /\ HasOp' /\ Fresh'
  BY TypeStep, FreshStep DEF RateInv
<1>2. ASSUME NEW c \in Caller, Evaluate(c)
      PROVE  Room'
  BY <1>1, <1>2, EvaluateRoom
<1>3. ASSUME NEW c \in Caller, Enforce(c)
      PROVE  Room'
  BY <1>1, <1>3, EnforceRoom
<1>4. ASSUME Elsewhere
      PROVE  Room'
  BY <1>1, <1>4, OthersRoom
<1>5. Room'
  BY <1>2, <1>3, <1>4 DEF GateNext, CallStep, Elsewhere
<1> QED
  BY <1>1, <1>5 DEF RateInv

-----------------------------------------------------------------------------
(* The theorems.                                                           *)

\* Every variable of the gate keeps its type, whatever its callers do (gate.go).
THEOREM GateTyping == GateSpec => []GateTypeOK
<1>1. GateInit => GateTypeOK /\ HasOp
  BY TypeInit
<1>2. GateTypeOK /\ HasOp /\ [GateNext]_gateVars => GateTypeOK' /\ HasOp'
  BY TypeStep
<1> QED
  BY <1>1, <1>2, PTL DEF GateSpec

\* An enforcing gate lets nothing through that is on the floor or was vetoed, and
\* nothing without four confident yeses or an approval of this very script at the
\* tier of the gravest vote, for any callers, edits, failing verifiers and
\* approvals (gate.go:276-320, verdict.go:213-252).
THEOREM NothingEscapes == GateSpec => []NoEscape
<1> DEFINE I == GateTypeOK /\ HasOp /\ Knows
<1>1. GateInit => I
  <2>1. GateInit => Knows
    BY DEF GateInit, Knows
  <2> QED
    BY <2>1, TypeInit
<1>2. I /\ [GateNext]_gateVars => I'
  BY TypeStep, KnowsStep
<1>3. I => NoEscape
  BY DEF Knows, Vetted, NoEscape
<1> HIDE DEF I
<1> QED
  BY <1>1, <1>2, <1>3, PTL DEF GateSpec

\* Within a window at most as many destructive operations run without an approval as
\* the rate allows, and one more for each other caller, for any number of callers and
\* any rate (verifier_behavior.go:156-206).
THEOREM RateIsKept == GateSpec => []RateHolds
<1>1. GateInit => RateInv
  BY TypeInit, RoomInit DEF RateInv
<1>2. RateInv /\ [GateNext]_gateVars => RateInv'
  BY RateStep
<1>3. RateInv => RateHolds
  <2> SUFFICES ASSUME RateInv PROVE RateHolds
    OBVIOUS
  <2>1. Cardinality(Autos(ring)) \in Nat /\ Cardinality(InFlight) \in Nat
        /\ Cardinality(Caller) \in Nat
    BY AutosFinite, FlightsFinite DEF RateInv, GateTypeOK
  <2>2. Cardinality(Autos(ring)) <= RateMaxOps + Cardinality(Caller) - 1
    BY <2>1, GateAssumption DEF RateInv, Room
  <2> QED
    BY <2>2 DEF RateHolds, Autos
<1> QED
  BY <1>1, <1>2, <1>3, PTL DEF GateSpec

-----------------------------------------------------------------------------
(* The detector.                                                           *)

\* Reads are in the past, no two have one number, and those that wait are within the
\* window of commands.
Waiting ==
  /\ pending \subseteq reads /\ matched \subseteq reads /\ pending \cap matched = {}
  /\ \A r \in reads : r.seq \in 0..seq
  /\ \A r, s \in reads : r.seq = s.seq => r = s
  /\ \A r \in pending : seq - r.seq <= WindowExecs
  /\ \A r \in reads \ matched : Within(r, seq, now) => r \in pending

SentinelInv == SentinelTypeOK /\ Waiting

\* Initially nothing has been observed.
LEMMA SentinelInitInv == SentinelInit => SentinelInv
BY DEF SentinelInit, SentinelInv, SentinelTypeOK, Waiting

\* What an observation throws out is outside a window, and the rest is inside.
LEMMA PrunedFits ==
  ASSUME SentinelInv, Observe
  PROVE  /\ SentinelTypeOK /\ seq' = seq + 1 /\ now' = now /\ seq' \in Nat /\ Pruned \subseteq pending
         /\ \A r \in reads : r.seq \in 0..seq' /\ r.seq # seq'
         /\ \A r \in Pruned : seq' - r.seq <= WindowExecs
         /\ \A r \in reads \ matched : Within(r, seq', now) => r \in Pruned
<1>1. /\ SentinelTypeOK /\ Waiting /\ seq' = seq + 1 /\ now' = now /\ seq' \in Nat
  BY DEF SentinelInv, Observe, SentinelTypeOK
<1>2. \A r \in reads : r.seq \in 0..seq' /\ r.seq # seq' /\ r.at \in Nat /\ r.seq \in Nat
  BY <1>1 DEF Waiting, SentinelTypeOK, Read
<1>3. Pruned \subseteq pending /\ \A r \in Pruned : seq' - r.seq <= WindowExecs
  BY <1>1, <1>2 DEF Pruned, Within, Waiting
<1>4. ASSUME NEW r \in reads \ matched, Within(r, seq', now)
      PROVE  r \in Pruned
  <2>1. Within(r, seq, now)
    BY <1>1, <1>2, <1>4, SentinelAssumption DEF Within, SentinelTypeOK
  <2>2. r \in pending
    BY <1>1, <2>1 DEF Waiting
  <2> QED
    BY <1>1, <1>4, <2>2 DEF Pruned
<1> QED
  BY <1>1, <1>2, <1>3, <1>4

\* Every step keeps the invariant.
LEMMA SentinelNextInv ==
  ASSUME SentinelInv, [SentinelNext]_sentinelVars
  PROVE  SentinelInv'
<1> USE SentinelAssumption
<1>0. SentinelTypeOK /\ Waiting
  BY DEF SentinelInv
<1>1. CASE Tick
  <2>1. SentinelTypeOK'
    BY <1>0, <1>1 DEF Tick, SentinelTypeOK
  <2>2. \A r \in reads : Within(r, seq, now') => Within(r, seq, now)
    BY <1>0, <1>1 DEF Tick, Within, SentinelTypeOK, Read
  <2> QED
    BY <1>0, <1>1, <2>1, <2>2 DEF Tick, SentinelInv, Waiting, Within
<1>2. CASE ObserveNone \/ ObserveBoth
  <2>1. Observe /\ pending' = Pruned /\ UNCHANGED <<reads, matched>>
    BY <1>2 DEF ObserveNone, ObserveBoth
  <2> QED
    BY <1>0, <2>1, PrunedFits DEF SentinelInv, Waiting, SentinelTypeOK, Within
<1>3. CASE ObserveRead
  <2> DEFINE r0 == [seq |-> seq + 1, at |-> now]
  <2>1. Observe /\ pending' = Pruned \cup {r0} /\ reads' = reads \cup {r0} /\ matched' = matched
    BY <1>3 DEF ObserveRead
  <2>2. r0 \in Read /\ r0.seq = seq' /\ r0 \notin reads
    BY <1>0, <2>1, PrunedFits DEF Read, SentinelTypeOK
  <2> HIDE DEF r0
  <2>3. SentinelTypeOK'
    BY <1>0, <2>1, <2>2, PrunedFits DEF SentinelTypeOK
  <2>4. pending' \subseteq reads' /\ matched' \subseteq reads' /\ pending' \cap matched' = {}
    BY <1>0, <2>1, <2>2, PrunedFits DEF Waiting
  <2>5. /\ \A r \in reads' : r.seq \in 0..seq'
        /\ \A r, s \in reads' : r.seq = s.seq => r = s
        /\ \A r \in pending' : seq' - r.seq <= WindowExecs
    BY <1>0, <2>1, <2>2, PrunedFits DEF Waiting
  <2>6. \A r \in reads' \ matched' : Within(r, seq', now') => r \in pending'
    BY <2>1, <2>2, PrunedFits
  <2> QED
    BY <2>3, <2>4, <2>5, <2>6 DEF SentinelInv, Waiting, Within
<1>4. CASE ObserveEgress
  <2> DEFINE latest == {r \in Pruned : \A p \in Pruned : p.seq <= r.seq}
  <2>1. /\ Observe /\ pending' = Pruned \ latest /\ matched' = matched \cup latest
        /\ reads' = reads /\ latest \subseteq Pruned
    BY <1>4 DEF ObserveEgress
  <2> HIDE DEF latest
  <2>2. SentinelTypeOK'
    BY <1>0, <2>1, PrunedFits DEF SentinelTypeOK
  <2> QED
    BY <1>0, <2>1, <2>2, PrunedFits DEF SentinelInv, Waiting, Within
<1>5. CASE UNCHANGED sentinelVars
  BY <1>0, <1>5 DEF sentinelVars, SentinelInv, SentinelTypeOK, Waiting, Within
<1> QED
  BY <1>1, <1>2, <1>3, <1>4, <1>5 DEF SentinelNext

\* The reads that wait have different numbers out of the last WindowExecs + 1.
LEMMA PendingBounded ==
  ASSUME SentinelInv
  PROVE  Cardinality(pending) <= WindowExecs + 1
<1> USE SentinelAssumption
<1> DEFINE Lately == (seq - WindowExecs)..seq
           number == [r \in pending |-> r.seq]
<1>1. /\ seq \in Nat /\ \A r \in pending : r.seq \in Nat /\ r.seq <= seq /\ seq - r.seq <= WindowExecs
      /\ \A r, s \in pending : r.seq = s.seq => r = s
  BY DEF SentinelInv, SentinelTypeOK, Waiting, Read
<1>2. number \in Injection(pending, Lately)
  <2>1. number \in [pending -> Lately]
    BY <1>1
  <2> QED
    BY <1>1, <2>1 DEF Injection, IsInjective
<1>3. IsFiniteSet(Lately) /\ Cardinality(Lately) = WindowExecs + 1
  BY <1>1, FS_Interval
<1> QED
  BY <1>1, <1>2, <1>3, FS_Injection, FS_CardinalityType

\* No read that could still lead to a detection is ever forgotten, one that has led to
\* its detection leads to no other, and the memory is bounded, for every window
\* (engine.go:181-249).
THEOREM SentinelMissesNothing == SentinelSpec => []NothingMissed
<1>1. SentinelInv => NothingMissed
  BY PendingBounded DEF SentinelInv, Waiting, NothingMissed
<1>2. SentinelInv /\ [SentinelNext]_sentinelVars => SentinelInv'
  BY SentinelNextInv
<1> QED
  BY <1>1, <1>2, SentinelInitInv, PTL DEF SentinelSpec

-----------------------------------------------------------------------------
(* Converge: the sort.                                                     *)

\* The first k - 1 modules of the order.
Upto(k) == {sorted[j] : j \in 1..(k - 1)}

\* The queue holds the modules, not yet in the order, whose dependencies all are; the
\* degree of a module counts its dependencies that are not.
SortInv ==
  /\ IsInjective(sorted) /\ IsInjective(queue) /\ ToSet(sorted) \cap ToSet(queue) = {}
  /\ phase = "start" => sorted = <<>> /\ queue = <<>>
  /\ phase = "sort" => \A m \in Module :
       /\ degree[m] = Cardinality(deps[m] \ ToSet(sorted))
       /\ (m \in ToSet(sorted) \cup ToSet(queue) <=> deps[m] \subseteq ToSet(sorted))
  /\ \A k \in 1..Len(sorted) : deps[sorted[k]] \subseteq Upto(k)

\* The modules are finitely many, as many as were registered.
LEMMA ModulesCounted ==
  /\ IsFiniteSet(Module) /\ Cardinality(Module) = Len(Registry) /\ Len(Registry) \in Nat
  /\ Registry \in Surjection(1..Len(Registry), Module)
<1>1. /\ Registry \in [1..Len(Registry) -> Module] /\ Len(Registry) \in Nat
      /\ DOMAIN Registry = 1..Len(Registry)
  BY LenProperties, ConvergeAssumption DEF ConvergeAssumption
<1>2. Registry \in Surjection(1..Len(Registry), Module)
  BY <1>1, ConvergeAssumption DEF Surjection, ConvergeAssumption, ToSet
<1>3. Registry \in Injection(1..Len(Registry), Module)
  BY <1>1, ConvergeAssumption DEF Injection, ConvergeAssumption
<1>4. IsFiniteSet(1..Len(Registry)) /\ Cardinality(1..Len(Registry)) = Len(Registry)
  <2>1. \A n \in Nat : IsFiniteSet(1..n) /\ Cardinality(1..n) = IF 1 > n THEN 0 ELSE n - 1 + 1
    BY FS_Interval
  <2>2. \A n \in Nat : IsFiniteSet(1..n) /\ Cardinality(1..n) = n
    BY <2>1
  <2> QED
    BY <1>1, <2>2
<1> QED
  BY <1>1, <1>2, <1>3, <1>4, FS_Surjection

\* The modules of a set in the order of their registration: each once.
LEMMA OrderLists ==
  ASSUME NEW S \in SUBSET Module, NEW q \in InOrder(S)
  PROVE  q \in Seq(Module) /\ ToSet(q) = S /\ IsInjective(q)
<1>1. IsFiniteSet(S) /\ Cardinality(S) \in Nat
  BY ModulesCounted, FS_Subset, FS_CardinalityType
<1>2. q \in [1..Cardinality(S) -> S] /\ ToSet(q) = S
  BY DEF InOrder
<1>3. q \in Seq(Module)
  BY <1>1, <1>2
<1>4. \A a, b \in DOMAIN q : a < b => q[a] # q[b]
  <2> SUFFICES ASSUME NEW a \in DOMAIN q, NEW b \in DOMAIN q, a < b, q[a] = q[b]
               PROVE  FALSE
    OBVIOUS
  <2>1. PICK j \in DOMAIN Registry, k \in DOMAIN Registry :
          j < k /\ Registry[j] = q[a] /\ Registry[k] = q[b]
    BY DEF InOrder
  <2>2. j = k
    BY <2>1, ConvergeAssumption DEF ConvergeAssumption, IsInjective
  <2>3. j \in Nat
    BY ModulesCounted DEF Surjection
  <2> QED
    BY <2>1, <2>2, <2>3
<1>5. IsInjective(q)
  <2>1. DOMAIN q \subseteq Nat
    BY <1>1, <1>2
  <2> QED
    BY <2>1, <1>4 DEF IsInjective
<1> QED
  BY <1>2, <1>3, <1>5

\* The order as a sequence: its first modules, and the whole.
LEMMA OrderParts ==
  ASSUME sorted \in Seq(Module)
  PROVE  /\ Len(sorted) \in Nat /\ DOMAIN sorted = 1..Len(sorted)
         /\ \A k \in 1..Len(sorted) : sorted[k] \in Module
         /\ Upto(1) = {} /\ Upto(Len(sorted) + 1) = ToSet(sorted)
         /\ \A k \in 1..Len(sorted) : Upto(k + 1) = Upto(k) \cup {sorted[k]}
         /\ \A k \in 1..(Len(sorted) + 1) : ToSet(SubSeq(sorted, 1, k - 1)) = Upto(k)
<1>1. Len(sorted) \in Nat /\ DOMAIN sorted = 1..Len(sorted) /\ \A k \in 1..Len(sorted) : sorted[k] \in Module
  BY LenProperties, ElementOfSeq
<1>2. Upto(1) = {} /\ Upto(Len(sorted) + 1) = ToSet(sorted)
  BY <1>1 DEF Upto, ToSet
<1>3. ASSUME NEW k \in 1..Len(sorted)
      PROVE  Upto(k + 1) = Upto(k) \cup {sorted[k]}
  <2>1. 1..k = 1..(k - 1) \cup {k} /\ k + 1 - 1 = k
    BY <1>1
  <2> QED
    BY <2>1 DEF Upto
<1>4. ASSUME NEW k \in 1..(Len(sorted) + 1)
      PROVE  ToSet(SubSeq(sorted, 1, k - 1)) = Upto(k)
  <2>1. SubSeq(sorted, 1, k - 1) = [i \in 1..(k - 1) |-> sorted[i]]
    BY <1>1, SubSeqProperties
  <2> HIDE DEF ToSet
  <2>2. DOMAIN SubSeq(sorted, 1, k - 1) = 1..(k - 1) /\ \A i \in 1..(k - 1) : SubSeq(sorted, 1, k - 1)[i] = sorted[i]
    BY <2>1
  <2> QED
    BY <2>2 DEF ToSet, Upto
<1> QED
  BY <1>1, <1>2, <1>3, <1>4

\* A step that leaves the order alone.
LEMMA UptoUnchanged == sorted' = sorted => \A k : Upto(k)' = Upto(k)
  BY DEF Upto

LEMMA SortInit == UpInit => ConvergeTypeOK /\ SortInv
<1> SUFFICES ASSUME UpInit
             PROVE  ConvergeTypeOK /\ SortInv
  OBVIOUS
<1>1. ConvergeTypeOK
  <2>1. <<>> \in Seq(Module) /\ 0 \in 0..MaxDrift
    BY EmptySeq, ConvergeAssumption DEF ConvergeAssumption
  <2>2. degree \in [Module -> Nat]
    BY DEF UpInit
  <2> QED
    BY <2>1, <2>2 DEF UpInit, ConvergeTypeOK, Phases
<1>2. IsInjective(sorted) /\ IsInjective(queue) /\ ToSet(sorted) = {} /\ Len(sorted) = 0
  BY DEF UpInit, IsInjective, ToSet
<1>3. phase = "start" /\ sorted = <<>> /\ queue = <<>>
  BY DEF UpInit
<1> QED
  BY <1>1, <1>2, <1>3 DEF SortInv

LEMMA CountKeepsSort ==
  ASSUME ConvergeTypeOK, SortInv, CountDegrees
  PROVE  ConvergeTypeOK' /\ SortInv'
<1>1. /\ phase = "start" /\ phase' = "sort" /\ sorted = <<>> /\ sorted' = sorted
      /\ degree' = [m \in Module |-> Cardinality(deps[m])]
      /\ UNCHANGED <<deps, turn, needs, shown, applied, failed, gated, outcome, drifts>>
  BY DEF CountDegrees, SortInv
<1>2. \A m \in Module : deps[m] \in SUBSET Module /\ IsFiniteSet(deps[m]) /\ Cardinality(deps[m]) \in Nat
  BY ModulesCounted, FS_Subset, FS_CardinalityType DEF ConvergeTypeOK
<1>3. queue' \in Seq(Module) /\ ToSet(queue') = {m \in Module : deps[m] = {}} /\ IsInjective(queue')
  BY OrderLists DEF CountDegrees
<1>4. IsInjective(sorted) /\ ToSet(sorted) = {} /\ Len(sorted) = 0
  BY <1>1 DEF IsInjective, ToSet
<1>5. ConvergeTypeOK'
  BY <1>1, <1>2, <1>3 DEF ConvergeTypeOK, Phases
<1>6. \A m \in Module : /\ degree'[m] = Cardinality(deps[m] \ {})
                        /\ (m \in {} \cup ToSet(queue') <=> deps[m] \subseteq {})
  <2> SUFFICES ASSUME NEW m \in Module
               PROVE  /\ degree'[m] = Cardinality(deps[m] \ {})
                      /\ (m \in ToSet(queue') <=> deps[m] = {})
    OBVIOUS
  <2>1. deps[m] \ {} = deps[m]
    OBVIOUS
  <2> QED
    BY <1>1, <1>3, <2>1
<1>7. ToSet(sorted') = {} /\ IsInjective(sorted') /\ Len(sorted') = 0 /\ phase' # "start" /\ deps' = deps
  BY <1>1, <1>4
<1> QED
  BY <1>3, <1>5, <1>6, <1>7 DEF SortInv

\* One module leaves the queue for the order, and those it frees enter.
LEMMA PopKeepsSort ==
  ASSUME ConvergeTypeOK, SortInv, PopFront
  PROVE  ConvergeTypeOK' /\ SortInv'
<1> DEFINE n == Head(queue)
           S == ToSet(sorted)
           Q == ToSet(queue)
           F == Freed(n)
<1>1. /\ phase = "sort" /\ phase' = "sort" /\ queue # <<>> /\ sorted' = Append(sorted, n)
      /\ degree' = [m \in Module |-> IF n \in deps[m] THEN degree[m] - 1 ELSE degree[m]]
      /\ UNCHANGED <<deps, turn, needs, shown, applied, failed, gated, outcome, drifts>>
  BY DEF PopFront
<1>2. PICK q \in InOrder(F) : queue' = Tail(queue) \o q
  BY DEF PopFront
<1>3. sorted \in Seq(Module) /\ queue \in Seq(Module) /\ deps \in [Module -> SUBSET Module]
      /\ degree \in [Module -> Nat]
  BY DEF ConvergeTypeOK
<1>4. /\ Len(queue) \in Nat /\ DOMAIN queue = 1..Len(queue) /\ Len(queue) >= 1 /\ n = queue[1] /\ n \in Module
      /\ Tail(queue) \in Seq(Module) /\ Len(Tail(queue)) = Len(queue) - 1
      /\ \A k \in 1..(Len(queue) - 1) : Tail(queue)[k] = queue[k + 1]
  BY <1>1, <1>3, LenProperties, EmptySeq, HeadTailProperties, ElementOfSeq
<1>5. n \in Q /\ n \notin S
  BY <1>4 DEF SortInv, ToSet
<1>6. F \in SUBSET Module /\ q \in Seq(Module) /\ ToSet(q) = F /\ IsInjective(q)
  BY <1>2, OrderLists DEF Freed
<1>7. S \in SUBSET Module /\ Q \in SUBSET Module
  BY <1>3, LenProperties, ElementOfSeq DEF ToSet
<1>8. deps[n] \subseteq S
  BY <1>1, <1>4, <1>5 DEF SortInv
<1>9. \A m \in Module : /\ deps[m] \in SUBSET Module
                        /\ IsFiniteSet(deps[m] \ S) /\ Cardinality(deps[m] \ S) \in Nat
                        /\ degree[m] = Cardinality(deps[m] \ S)
                        /\ (m \in S \cup Q <=> deps[m] \subseteq S)
  BY <1>1, <1>3, ModulesCounted, FS_Subset, FS_CardinalityType DEF SortInv
<1> HIDE DEF F, S, Q
\* The order.
<1>10. /\ sorted' \in Seq(Module) /\ Len(sorted') = Len(sorted) + 1 /\ Len(sorted) \in Nat
       /\ DOMAIN sorted = 1..Len(sorted) /\ DOMAIN sorted' = 1..(Len(sorted) + 1)
       /\ \A k \in 1..Len(sorted) : sorted'[k] = sorted[k]
       /\ sorted'[Len(sorted) + 1] = n
  BY <1>1, <1>3, <1>4, LenProperties, AppendProperties
<1>11. ToSet(sorted') = S \cup {n}
  <2>1. 1..(Len(sorted) + 1) = 1..Len(sorted) \cup {Len(sorted) + 1}
    BY <1>10
  <2> QED
    BY <2>1, <1>10 DEF S, ToSet
<1>12. IsInjective(sorted')
  <2>1. \A k \in 1..Len(sorted) : sorted[k] # n
    BY <1>5, <1>10 DEF S, ToSet
  <2>2. \A a, b \in 1..Len(sorted) : sorted[a] = sorted[b] => a = b
    BY <1>10 DEF SortInv, IsInjective
  <2> SUFFICES ASSUME NEW a \in 1..(Len(sorted) + 1), NEW b \in 1..(Len(sorted) + 1), sorted'[a] = sorted'[b]
               PROVE  a = b
    BY <1>10 DEF IsInjective
  <2> QED
    BY <1>10, <2>1, <2>2
<1>13. \A k \in 1..(Len(sorted) + 1) : deps'[sorted'[k]] \subseteq Upto(k)'
  <2>1. \A k \in 1..(Len(sorted) + 1) : Upto(k)' = Upto(k)
    BY <1>10 DEF Upto
  <2>2. Upto(Len(sorted) + 1) = S
    BY <1>3, OrderParts DEF S
  <2>3. \A k \in 1..Len(sorted) : deps[sorted[k]] \subseteq Upto(k)
    BY DEF SortInv
  <2> QED
    BY <1>1, <1>8, <1>10, <2>1, <2>2, <2>3
\* The degrees.
<1>14. \A m \in Module : /\ degree'[m] = Cardinality(deps[m] \ (S \cup {n}))
                         /\ degree'[m] \in Nat
  <2> SUFFICES ASSUME NEW m \in Module
               PROVE  /\ degree'[m] = Cardinality(deps[m] \ (S \cup {n}))
                      /\ degree'[m] \in Nat
    OBVIOUS
  <2>1. deps[m] \ (S \cup {n}) = (deps[m] \ S) \ {n}
    OBVIOUS
  <2>2. /\ IsFiniteSet((deps[m] \ S) \ {n})
        /\ Cardinality((deps[m] \ S) \ {n}) = IF n \in deps[m] THEN degree[m] - 1 ELSE degree[m]
    <3>1. n \in deps[m] \ S <=> n \in deps[m]
      BY <1>5
    <3> DEFINE D == deps[m] \ S
    <3>2. IsFiniteSet(D) /\ Cardinality(D) = degree[m]
      BY <1>9
    <3> HIDE DEF D
    <3>3. IsFiniteSet(D \ {n}) /\ Cardinality(D \ {n}) = IF n \in D THEN Cardinality(D) - 1 ELSE Cardinality(D)
      BY <3>2, FS_RemoveElement
    <3> QED
      BY <3>1, <3>2, <3>3 DEF D
  <2>3. Cardinality((deps[m] \ S) \ {n}) \in Nat
    BY <2>2, FS_CardinalityType
  <2> QED
    BY <1>1, <2>1, <2>2, <2>3
\* The queue.
<1>15. \A m \in Module : m \in F <=> n \in deps[m] /\ deps[m] \ S = {n}
  <2> SUFFICES ASSUME NEW m \in Module
               PROVE  m \in F <=> n \in deps[m] /\ deps[m] \ S = {n}
    OBVIOUS
  <2>1. degree[m] = 1 <=> \E x : deps[m] \ S = {x}
    BY <1>9, FS_Singleton
  <2>2. m \in F <=> n \in deps[m] /\ degree[m] = 1
    BY DEF F, Freed
  <2>3. n \in deps[m] => n \in deps[m] \ S
    BY <1>5
  <2>4. \A x : deps[m] \ S = {x} /\ n \in deps[m] \ S => x = n
    OBVIOUS
  <2> QED
    BY <2>1, <2>2, <2>3, <2>4
<1>16. ToSet(Tail(queue)) = Q \ {n} /\ IsInjective(Tail(queue))
  <2>1. DOMAIN Tail(queue) = 1..(Len(queue) - 1)
    BY <1>4, LenProperties
  <2>2. \A a, b \in 1..Len(queue) : queue[a] = queue[b] => a = b
    BY <1>4 DEF SortInv, IsInjective
  <2>3. \A x : x \in ToSet(Tail(queue)) <=> \E k \in 1..(Len(queue) - 1) : queue[k + 1] = x
    BY <1>4, <2>1 DEF ToSet
  <2>4. \A x : x \in Q <=> \E k \in 1..Len(queue) : queue[k] = x
    BY <1>4 DEF Q, ToSet
  <2>5. \A x : x \in ToSet(Tail(queue)) => x \in Q /\ x # n
    BY <1>4, <2>2, <2>3, <2>4
  <2>6. \A x : x \in Q /\ x # n => x \in ToSet(Tail(queue))
    <3> SUFFICES ASSUME NEW x \in Q, x # n
                 PROVE  x \in ToSet(Tail(queue))
      OBVIOUS
    <3>1. PICK k \in 1..Len(queue) : queue[k] = x
      BY <2>4
    <3>2. k - 1 \in 1..(Len(queue) - 1) /\ (k - 1) + 1 = k
      BY <1>4, <3>1
    <3> QED
      BY <2>3, <3>1, <3>2
  <2>7. IsInjective(Tail(queue))
    <3> SUFFICES ASSUME NEW a \in 1..(Len(queue) - 1), NEW b \in 1..(Len(queue) - 1),
                        Tail(queue)[a] = Tail(queue)[b]
                 PROVE  a = b
      BY <2>1 DEF IsInjective
    <3>1. a + 1 \in 1..Len(queue) /\ b + 1 \in 1..Len(queue) /\ queue[a + 1] = queue[b + 1]
      BY <1>4
    <3>2. a + 1 = b + 1
      BY <2>2, <3>1
    <3> QED
      BY <3>2
  <2> QED
    BY <2>5, <2>6, <2>7
<1>17. F \cap (S \cup Q) = {}
  <2> SUFFICES ASSUME NEW m \in F, m \in S \cup Q
               PROVE  FALSE
    OBVIOUS
  <2>1. m \in Module /\ deps[m] \subseteq S /\ n \in deps[m]
    <3>1. m \in Module
      BY <1>6
    <3>2. deps[m] \subseteq S
      BY <1>9, <3>1
    <3> QED
      BY <1>15, <3>1, <3>2
  <2> QED
    BY <1>5, <2>1
<1>18. /\ queue' \in Seq(Module) /\ ToSet(queue') = (Q \ {n}) \cup F /\ IsInjective(queue')
  <2> DEFINE p == Tail(queue)
  <2> HIDE DEF p
  <2>1. p \in Seq(Module) /\ q \in Seq(Module) /\ ToSet(p) = Q \ {n} /\ ToSet(q) = F /\ queue' = p \o q
        /\ IsInjective(p) /\ IsInjective(q)
    BY <1>2, <1>4, <1>6, <1>16 DEF p
  <2>2. /\ Len(p) \in Nat /\ Len(q) \in Nat /\ DOMAIN p = 1..Len(p) /\ DOMAIN q = 1..Len(q)
        /\ p \o q \in Seq(Module) /\ Len(p \o q) = Len(p) + Len(q)
        /\ \A k \in 1..Len(p) : (p \o q)[k] = p[k]
        /\ \A k \in 1..Len(q) : (p \o q)[Len(p) + k] = q[k]
    BY <2>1, LenProperties, ConcatProperties
  <2> DEFINE r == p \o q
  <2>3. /\ \A k \in 1..Len(p) : r[k] = p[k]
        /\ \A k \in 1..Len(q) : r[Len(p) + k] = q[k]
        /\ DOMAIN r = 1..(Len(p) + Len(q))
    BY <2>2, LenProperties
  <2> HIDE DEF r
  <2>4. \A k \in 1..(Len(p) + Len(q)) : \/ k \in 1..Len(p) /\ r[k] = p[k]
                                        \/ k - Len(p) \in 1..Len(q) /\ r[k] = q[k - Len(p)]
    <3> SUFFICES ASSUME NEW k \in 1..(Len(p) + Len(q)), k \notin 1..Len(p)
                 PROVE  k - Len(p) \in 1..Len(q) /\ r[k] = q[k - Len(p)]
      BY <2>3
    <3>1. k - Len(p) \in 1..Len(q) /\ Len(p) + (k - Len(p)) = k
      BY <2>2
    <3> QED
      BY <2>3, <3>1
  <2>5. ToSet(r) \subseteq ToSet(p) \cup ToSet(q)
    <3> SUFFICES ASSUME NEW k \in 1..(Len(p) + Len(q))
                 PROVE  r[k] \in ToSet(p) \cup ToSet(q)
      BY <2>3 DEF ToSet
    <3>1. CASE k \in 1..Len(p) /\ r[k] = p[k]
      BY <2>2, <3>1 DEF ToSet
    <3>2. CASE k - Len(p) \in 1..Len(q) /\ r[k] = q[k - Len(p)]
      BY <2>2, <3>2 DEF ToSet
    <3> QED
      BY <2>4, <3>1, <3>2
  <2>6. ToSet(p) \subseteq ToSet(r)
    BY <2>2, <2>3 DEF ToSet
  <2>7. ToSet(q) \subseteq ToSet(r)
    <3>1. \A k \in 1..Len(q) : Len(p) + k \in DOMAIN r /\ r[Len(p) + k] = q[k]
      BY <2>2, <2>3
    <3> QED
      BY <2>2, <3>1 DEF ToSet
  <2>8. \A a \in 1..Len(p), b \in 1..Len(q) : p[a] # q[b]
    <3>1. \A a \in 1..Len(p) : p[a] \in Q
      BY <2>1, <2>2 DEF ToSet
    <3>2. \A b \in 1..Len(q) : q[b] \in F
      BY <2>1, <2>2 DEF ToSet
    <3> QED
      BY <1>17, <3>1, <3>2
  <2>9. IsInjective(r)
    <3> SUFFICES ASSUME NEW a \in 1..(Len(p) + Len(q)), NEW b \in 1..(Len(p) + Len(q)), r[a] = r[b]
                 PROVE  a = b
      BY <2>3 DEF IsInjective
    <3>1. \A x, y \in 1..Len(p) : p[x] = p[y] => x = y
      BY <2>1, <2>2 DEF IsInjective
    <3>2. \A x, y \in 1..Len(q) : q[x] = q[y] => x = y
      BY <2>1, <2>2 DEF IsInjective
    <3>3. CASE a \in 1..Len(p) /\ b \in 1..Len(p)
      BY <2>3, <3>1, <3>3
    <3>4. CASE a - Len(p) \in 1..Len(q) /\ r[a] = q[a - Len(p)] /\ b - Len(p) \in 1..Len(q) /\ r[b] = q[b - Len(p)]
      <4>1. a - Len(p) = b - Len(p)
        BY <3>2, <3>4
      <4> QED
        BY <2>2, <4>1
    <3>5. CASE a \in 1..Len(p) /\ b - Len(p) \in 1..Len(q) /\ r[b] = q[b - Len(p)]
      BY <2>3, <2>8, <3>5
    <3>6. CASE b \in 1..Len(p) /\ a - Len(p) \in 1..Len(q) /\ r[a] = q[a - Len(p)]
      BY <2>3, <2>8, <3>6
    <3> QED
      BY <2>4, <3>3, <3>4, <3>5, <3>6
  <2> QED
    BY <2>1, <2>2, <2>5, <2>6, <2>7, <2>9 DEF r
<1>19. \A m \in Module : m \in (S \cup {n}) \cup ((Q \ {n}) \cup F) <=> deps[m] \subseteq S \cup {n}
  <2> SUFFICES ASSUME NEW m \in Module
               PROVE  m \in S \cup Q \cup F <=> deps[m] \subseteq S \cup {n}
    BY <1>5
  <2>1. deps[m] \subseteq S \cup {n} <=> deps[m] \subseteq S \/ (n \in deps[m] /\ deps[m] \ S = {n})
    BY <1>5
  <2>2. m \in S \cup Q <=> deps[m] \subseteq S
    BY <1>9
  <2>3. m \in F <=> n \in deps[m] /\ deps[m] \ S = {n}
    BY <1>15
  <2> QED
    BY <2>1, <2>2, <2>3
<1>20. (S \cup {n}) \cap ((Q \ {n}) \cup F) = {}
  <2>1. S \cap Q = {}
    BY DEF SortInv, S, Q
  <2> QED
    BY <1>5, <1>17, <2>1
<1>21. ConvergeTypeOK'
  <2>1. degree' \in [Module -> Nat]
    BY <1>1, <1>14
  <2> QED
    BY <1>1, <1>10, <1>18, <2>1 DEF ConvergeTypeOK
<1>22. \A m \in Module : /\ degree'[m] = Cardinality(deps'[m] \ ToSet(sorted'))
                         /\ (m \in ToSet(sorted') \cup ToSet(queue') <=> deps'[m] \subseteq ToSet(sorted'))
  BY <1>1, <1>11, <1>14, <1>18, <1>19
<1>23. ToSet(sorted') \cap ToSet(queue') = {}
  BY <1>11, <1>18, <1>20
<1>24. \A k \in 1..Len(sorted') : deps'[sorted'[k]] \subseteq Upto(k)'
  BY <1>10, <1>13
<1>25. phase' # "start"
  BY <1>1
<1> QED
  BY <1>12, <1>18, <1>21, <1>22, <1>23, <1>24, <1>25 DEF SortInv

-----------------------------------------------------------------------------
(* Converge: the command.                                                  *)

Scanned == {"scan", "gates", "confirm", "apply", "verify"}

\* Where the command is in the order, and what it has not done yet.
WalkInv ==
  /\ turn \in 1..(Len(sorted) + 1) /\ (phase = "verify" => turn <= Len(sorted))
  /\ phase \in {"start", "sort"} => turn = 1 /\ shown = {}
  /\ phase \in {"start", "sort", "scan", "gates", "confirm"} => applied = {} /\ failed = {}
  /\ (phase \in {"apply", "verify"} \/ applied # {}) => gated
  /\ (phase \in Scanned \/ applied # {}) => ToSet(sorted) = Module
  /\ phase # "done" => outcome = "none"
  /\ outcome = "ok" => Upto(turn) = Module /\ failed = {}

\* What the preview has shown, and what is left to do, if nobody else touches the machine.
QuietInv == drifts = 0 =>
  /\ applied \subseteq shown
  /\ phase = "scan" => shown = needs \cap Upto(turn)
  /\ phase \in {"gates", "confirm"} => shown = needs
  /\ phase \in {"apply", "verify"} => needs \subseteq shown
  /\ phase = "apply" => Upto(turn) \cap needs \subseteq failed
  /\ phase = "verify" => Upto(turn + 1) \cap needs \subseteq failed
  /\ outcome = "ok" => needs = {}

UpInv == ConvergeTypeOK /\ SortInv /\ WalkInv /\ QuietInv

\* A step of the command after the sort.
LEMMA SortKept ==
  ASSUME ConvergeTypeOK, SortInv, UNCHANGED <<deps, sortVars>>,
         phase' \notin {"start", "sort"} \/ phase' = phase
  PROVE  SortInv'
<1>1. sorted' = sorted /\ queue' = queue /\ degree' = degree /\ deps' = deps
  BY DEF sortVars
<1>2. \A k : Upto(k)' = Upto(k)
  BY <1>1, UptoUnchanged
<1> QED
  BY <1>1, <1>2 DEF SortInv

\* If the order holds as many modules as were registered, it holds them all.
LEMMA WholeOrder ==
  ASSUME ConvergeTypeOK, SortInv, Len(sorted) = Len(Registry)
  PROVE  ToSet(sorted) = Module
<1>1. sorted \in Seq(Module) /\ IsInjective(sorted)
  BY DEF ConvergeTypeOK, SortInv
<1>2. sorted \in [1..Len(sorted) -> Module] /\ DOMAIN sorted = 1..Len(sorted)
  BY <1>1, LenProperties
<1>3. sorted \in Injection(1..Len(sorted), Module)
  BY <1>1, <1>2 DEF Injection
<1>4. Cardinality(1..Len(sorted)) = Len(sorted)
  <2>1. \A n \in Nat : Cardinality(1..n) = IF 1 > n THEN 0 ELSE n - 1 + 1
    BY FS_Interval
  <2>2. \A n \in Nat : Cardinality(1..n) = n
    BY <2>1
  <2> QED
    BY <2>2, ModulesCounted
<1>5. sorted \in Surjection(1..Len(sorted), Module)
  BY <1>3, <1>4, ModulesCounted, FS_Injection
<1> QED
  BY <1>2, <1>5 DEF Surjection, ToSet

LEMMA UpStart == UpInit => UpInv
<1> SUFFICES ASSUME UpInit
             PROVE  UpInv
  OBVIOUS
<1>1. Len(sorted) \in Nat
  BY DEF UpInit
<1>2. WalkInv
  BY <1>1 DEF UpInit, WalkInv, Scanned
<1>3. QuietInv
  BY DEF UpInit, QuietInv
<1> QED
  BY <1>2, <1>3, SortInit DEF UpInv

\* The sort touches nothing of the command.
LEMMA SortSteps ==
  ASSUME UpInv, CountDegrees \/ PopFront \/ SortEnds
  PROVE  UpInv'
<1>1. ConvergeTypeOK /\ SortInv /\ WalkInv /\ QuietInv
  BY DEF UpInv
<1>2. Len(sorted) \in Nat /\ Upto(1) = {}
  BY <1>1, OrderParts DEF ConvergeTypeOK
<1>3. ASSUME CountDegrees \/ PopFront
      PROVE  UpInv'
  <2>1. ConvergeTypeOK' /\ SortInv'
    BY <1>1, <1>3, CountKeepsSort, PopKeepsSort
  <2>2. /\ phase \in {"start", "sort"} /\ phase' = "sort"
        /\ UNCHANGED <<turn, needs, shown, applied, failed, gated, outcome, drifts>>
    BY <1>3 DEF CountDegrees, PopFront
  <2>3. Len(sorted') \in Nat
    BY <2>1, OrderParts DEF ConvergeTypeOK
  <2>4. WalkInv'
    BY <1>1, <2>2, <2>3 DEF WalkInv, Scanned
  <2>5. QuietInv'
    BY <1>1, <2>2 DEF QuietInv, WalkInv
  <2> QED
    BY <2>1, <2>4, <2>5 DEF UpInv
<1>4. ASSUME SortEnds
      PROVE  UpInv'
  <2>1. /\ phase = "sort" /\ sorted' = sorted
        /\ UNCHANGED <<deps, sortVars, turn, needs, shown, applied, failed, gated, drifts>>
        /\ \/ Len(sorted) = Len(Registry) /\ phase' = "scan" /\ outcome' = outcome
           \/ phase' = "done" /\ outcome' = "error"
    BY <1>4 DEF SortEnds, sortVars, Finish
  <2>2. ConvergeTypeOK'
    BY <1>1, <2>1 DEF ConvergeTypeOK, Phases, sortVars
  <2>3. SortInv'
    BY <1>1, <2>1, SortKept
  <2>4. \A k : Upto(k)' = Upto(k)
    BY <2>1, UptoUnchanged
  <2>5. turn = 1 /\ shown = {} /\ applied = {} /\ failed = {} /\ outcome = "none" /\ turn \in 1..(Len(sorted) + 1)
    BY <1>1, <2>1 DEF WalkInv
  <2>6. phase' = "scan" => ToSet(sorted) = Module
    BY <1>1, <2>1, WholeOrder
  <2>7. WalkInv'
    BY <2>1, <2>5, <2>6 DEF WalkInv, Scanned
  <2>8. QuietInv'
    BY <1>2, <2>1, <2>4, <2>5 DEF QuietInv
  <2> QED
    BY <2>2, <2>3, <2>7, <2>8 DEF UpInv
<1> QED
  BY <1>3, <1>4

LEMMA ScanSteps ==
  ASSUME UpInv, ScanModule \/ ScanEnds \/ Gates \/ Confirm
  PROVE  UpInv'
<1>1. ConvergeTypeOK /\ SortInv /\ WalkInv /\ QuietInv
  BY DEF UpInv
<1>2. /\ Len(sorted) \in Nat /\ Upto(1) = {} /\ Upto(Len(sorted) + 1) = ToSet(sorted)
      /\ \A k \in 1..Len(sorted) : sorted[k] \in Module /\ Upto(k + 1) = Upto(k) \cup {sorted[k]}
  BY <1>1, OrderParts DEF ConvergeTypeOK
<1>3. /\ turn \in 1..(Len(sorted) + 1) /\ turn \in Nat /\ applied = {} /\ failed = {}
      /\ phase \in {"scan", "gates", "confirm"} /\ outcome = "none" /\ ToSet(sorted) = Module
      /\ phase' \in {"scan", "gates", "confirm", "apply", "done"}
      /\ UNCHANGED <<deps, sortVars, needs, applied, failed, drifts>>
  BY <1>1, <1>2 DEF ScanModule, ScanEnds, Gates, Confirm, Finish, WalkInv, Scanned
<1>4. sorted' = sorted
  BY <1>3 DEF sortVars
<1>5. SortInv'
  BY <1>1, <1>3, SortKept
<1>6. \A k : Upto(k)' = Upto(k)
  BY <1>4, UptoUnchanged
<1>7. ASSUME ScanModule
      PROVE  UpInv'
  <2>1. /\ phase = "scan" /\ turn \in 1..Len(sorted) /\ gated' = gated
        /\ \/ /\ turn' = turn + 1 /\ shown' = shown \cup ({sorted[turn]} \cap needs)
              /\ phase' = phase /\ outcome' = outcome
           \/ phase' = "done" /\ outcome' = "error" /\ turn' = turn /\ shown' = shown
    BY <1>2, <1>3, <1>7 DEF ScanModule, Finish
  <2>2. ConvergeTypeOK'
    BY <1>1, <1>2, <1>3, <2>1 DEF ConvergeTypeOK, Phases, sortVars
  <2>3. WalkInv'
    BY <1>1, <1>2, <1>3, <1>4, <2>1 DEF WalkInv, Scanned
  <2>4. QuietInv'
    <3>2. CASE turn' = turn + 1 /\ phase' = phase
      <4>1. Upto(turn)' = Upto(turn) \cup {sorted[turn]}
        BY <1>2, <1>4, <2>1, <3>2 DEF Upto
      <4> QED
        BY <1>1, <1>3, <2>1, <4>1 DEF QuietInv
    <3>3. CASE phase' = "done" /\ outcome' = "error"
      BY <1>1, <1>3, <2>1, <3>3 DEF QuietInv
    <3> QED
      BY <2>1, <3>2, <3>3
  <2> QED
    BY <1>5, <2>2, <2>3, <2>4 DEF UpInv
<1>8. ASSUME ScanEnds \/ Gates
      PROVE  UpInv'
  <2>1. /\ turn' = turn /\ shown' = shown /\ gated' = gated
        /\ \/ phase = "scan" /\ turn > Len(sorted) /\ phase' = "gates" /\ outcome' = outcome
           \/ phase = "gates" /\ phase' = "confirm" /\ outcome' = outcome
           \/ phase = "gates" /\ phase' = "done" /\ outcome' = "error"
    BY <1>8 DEF ScanEnds, Gates, Finish
  <2>2. ConvergeTypeOK'
    BY <1>1, <1>3, <2>1 DEF ConvergeTypeOK, Phases, sortVars
  <2>3. WalkInv'
    BY <1>1, <1>2, <1>3, <1>4, <2>1 DEF WalkInv, Scanned
  <2>4. phase = "scan" /\ turn > Len(sorted) => Upto(turn) = Module
    BY <1>2, <1>3
  <2>5. needs \subseteq Module
    BY <1>1 DEF ConvergeTypeOK
  <2>6. QuietInv'
    BY <1>1, <1>3, <2>1, <2>4, <2>5 DEF QuietInv
  <2> QED
    BY <1>5, <2>2, <2>3, <2>6 DEF UpInv
<1>9. ASSUME Confirm
      PROVE  UpInv'
  <2>1. /\ phase = "confirm" /\ shown' = shown
        /\ \/ phase' = "apply" /\ gated' = TRUE /\ turn' = 1 /\ outcome' = outcome
           \/ phase' = "done" /\ outcome' = "aborted" /\ turn' = turn /\ gated' = gated
    BY <1>9 DEF Confirm, Finish
  <2>2. ConvergeTypeOK'
    <3>1. gated' \in BOOLEAN
      BY <1>1, <2>1, Zenon DEF ConvergeTypeOK
    <3>2. turn' \in Nat /\ phase' \in Phases /\ outcome' \in {"none", "ok", "error", "aborted"}
      BY <1>3, <2>1 DEF Phases
    <3> QED
      BY <1>1, <1>3, <2>1, <3>1, <3>2 DEF ConvergeTypeOK, sortVars
  <2>3. WalkInv'
    BY <1>1, <1>2, <1>3, <1>4, <2>1 DEF WalkInv, Scanned
  <2>4. phase' = "apply" => Upto(turn)' = {}
    BY <1>2, <1>4, <2>1 DEF Upto
  <2>5. QuietInv'
    BY <1>1, <1>3, <2>1, <2>4 DEF QuietInv
  <2> QED
    BY <1>5, <2>2, <2>3, <2>5 DEF UpInv
<1> QED
  BY <1>7, <1>8, <1>9

LEMMA ApplySteps ==
  ASSUME UpInv, ApplyModule \/ VerifyModule \/ ApplyEnds
  PROVE  UpInv'
<1>1. ConvergeTypeOK /\ SortInv /\ WalkInv /\ QuietInv
  BY DEF UpInv
<1>2. /\ Len(sorted) \in Nat /\ Upto(1) = {} /\ Upto(Len(sorted) + 1) = ToSet(sorted)
      /\ \A k \in 1..Len(sorted) : sorted[k] \in Module /\ Upto(k + 1) = Upto(k) \cup {sorted[k]}
  BY <1>1, OrderParts DEF ConvergeTypeOK
<1>3. /\ turn \in 1..(Len(sorted) + 1) /\ turn \in Nat /\ gated
      /\ phase \in {"apply", "verify"} /\ outcome = "none" /\ ToSet(sorted) = Module
      /\ phase' \in {"apply", "verify", "done"}
      /\ UNCHANGED <<deps, sortVars, shown, gated, drifts>>
  BY <1>1, <1>2 DEF ApplyModule, VerifyModule, ApplyEnds, Finish, WalkInv, Scanned
<1>4. sorted' = sorted
  BY <1>3 DEF sortVars
<1>5. SortInv'
  BY <1>1, <1>3, SortKept
<1>6. \A k : Upto(k)' = Upto(k)
  BY <1>4, UptoUnchanged
<1>7. ASSUME ApplyModule
      PROVE  UpInv'
  <2> DEFINE m == sorted[turn]
  <2>1. /\ phase = "apply" /\ turn \in 1..Len(sorted) /\ phase' = "verify" /\ turn' = turn /\ outcome' = outcome
        /\ \/ m \notin needs /\ needs' = needs /\ applied' = applied /\ failed' = failed
           \/ m \in needs /\ applied' = applied \cup {m} /\ needs' = needs \ {m} /\ failed' = failed
           \/ m \in needs /\ applied' = applied \cup {m} /\ failed' = failed \cup {m} /\ needs' = needs
           \/ failed' = failed \cup {m} /\ needs' = needs /\ applied' = applied
    BY <1>2, <1>3, <1>7 DEF ApplyModule
  <2>2. m \in Module /\ Upto(turn + 1) = Upto(turn) \cup {m}
    BY <1>2, <2>1
  <2> HIDE DEF m
  <2>3. Upto(turn + 1)' = Upto(turn) \cup {m}
    BY <1>4, <2>1, <2>2 DEF Upto
  <2>4. ConvergeTypeOK'
    BY <1>1, <1>3, <2>1, <2>2 DEF ConvergeTypeOK, Phases, sortVars
  <2>5. WalkInv'
    BY <1>1, <1>2, <1>3, <1>4, <2>1 DEF WalkInv, Scanned
  <2>6. QuietInv'
    BY <1>1, <1>3, <2>1, <2>3 DEF QuietInv
  <2> QED
    BY <1>5, <2>4, <2>5, <2>6 DEF UpInv
<1>8. ASSUME VerifyModule
      PROVE  UpInv'
  <2>1. /\ phase = "verify" /\ turn \in 1..Len(sorted) /\ needs' = needs /\ applied' = applied /\ failed' = failed
        /\ \/ turn' = turn + 1 /\ phase' = "apply" /\ outcome' = outcome
           \/ phase' = "done" /\ outcome' = "error" /\ turn' = turn
    BY <1>1, <1>2, <1>3, <1>8 DEF VerifyModule, Finish, WalkInv
  <2>2. phase' = "apply" => Upto(turn)' = Upto(turn + 1)
    BY <1>4, <2>1 DEF Upto
  <2>3. ConvergeTypeOK'
    BY <1>1, <1>3, <2>1 DEF ConvergeTypeOK, Phases, sortVars
  <2>4. WalkInv'
    BY <1>1, <1>2, <1>3, <1>4, <2>1 DEF WalkInv, Scanned
  <2>5. QuietInv'
    BY <1>1, <1>3, <2>1, <2>2 DEF QuietInv
  <2> QED
    BY <1>5, <2>3, <2>4, <2>5 DEF UpInv
<1>9. ASSUME ApplyEnds
      PROVE  UpInv'
  <2>1. /\ phase = "apply" /\ turn > Len(sorted) /\ phase' = "done" /\ turn' = turn
        /\ needs' = needs /\ applied' = applied /\ failed' = failed
        /\ outcome' \in {"ok", "error"} /\ (outcome' = "ok" => failed = {})
    BY <1>9 DEF ApplyEnds, Finish
  <2>2. Upto(turn) = Module /\ Upto(turn)' = Module
    BY <1>2, <1>3, <1>4, <2>1 DEF Upto
  <2>3. ConvergeTypeOK'
    BY <1>1, <1>3, <2>1 DEF ConvergeTypeOK, Phases, sortVars
  <2>4. WalkInv'
    BY <1>1, <1>2, <1>3, <1>4, <2>1, <2>2 DEF WalkInv, Scanned
  <2>5. needs \subseteq Module
    BY <1>1 DEF ConvergeTypeOK
  <2>6. QuietInv'
    BY <1>1, <1>3, <2>1, <2>2, <2>5 DEF QuietInv
  <2> QED
    BY <1>5, <2>3, <2>4, <2>6 DEF UpInv
<1> QED
  BY <1>7, <1>8, <1>9

LEMMA OtherSteps ==
  ASSUME UpInv, Leave \/ (\E m \in Module : Drift(m)) \/ UNCHANGED upVars
  PROVE  UpInv'
<1>1. ConvergeTypeOK /\ SortInv /\ WalkInv /\ QuietInv
  BY DEF UpInv
<1>2. /\ UNCHANGED <<deps, sortVars, turn, shown, applied, failed, gated>>
      /\ \/ /\ phase \in {"scan", "apply", "verify"} /\ phase' = "done" /\ outcome' \in {"aborted", "error"}
            /\ needs' = needs /\ drifts' = drifts
         \/ /\ phase' = phase /\ outcome' = outcome
            /\ \/ needs' = needs /\ drifts' = drifts
               \/ /\ drifts < MaxDrift /\ drifts' = drifts + 1
                  /\ \E m \in Module : needs' \in {needs \ {m}, needs \cup {m}}
  BY DEF Leave, Drift, Finish, upVars
<1>3. sorted' = sorted
  BY <1>2 DEF sortVars
<1>4. SortInv'
  BY <1>1, <1>2, SortKept
<1>5. \A k : Upto(k)' = Upto(k)
  BY <1>3, UptoUnchanged
<1>6. drifts \in Nat /\ MaxDrift \in Nat
  BY <1>1, ConvergeAssumption DEF ConvergeTypeOK, ConvergeAssumption
<1>7. ConvergeTypeOK'
  BY <1>1, <1>2, <1>6 DEF ConvergeTypeOK, Phases, sortVars
<1>8. turn' = turn /\ Upto(turn)' = Upto(turn) /\ Upto(turn + 1)' = Upto(turn + 1)
  BY <1>2, <1>3 DEF Upto
<1>9. WalkInv'
  BY <1>1, <1>2, <1>3, <1>8 DEF WalkInv, Scanned
<1>10. QuietInv'
  <2>1. drifts' = 0 => drifts = 0 /\ needs' = needs
    BY <1>2, <1>6
  <2> QED
    BY <1>1, <1>2, <1>8, <2>1 DEF QuietInv
<1> QED
  BY <1>4, <1>7, <1>9, <1>10 DEF UpInv

LEMMA UpStep == UpInv /\ [UpNext]_upVars => UpInv'
  BY SortSteps, ScanSteps, ApplySteps, OtherSteps DEF UpNext

\* An order in which each module comes after those it depends on has no cycle: the first
\* module of a cycle in it depends on none of the cycle.
LEMMA OrderIsAcyclic ==
  ASSUME ConvergeTypeOK, SortInv, ToSet(sorted) = Module
  PROVE  ~Cyclic
<1> SUFFICES ASSUME NEW c \in SUBSET Module, c # {}, \A m \in c : deps[m] \cap c # {}
             PROVE  FALSE
  BY DEF Cyclic
<1> DEFINE I == {k \in 1..Len(sorted) : sorted[k] \in c}
           R == OpToRel(<, Nat)
<1>1. Len(sorted) \in Nat /\ DOMAIN sorted = 1..Len(sorted)
  BY OrderParts DEF ConvergeTypeOK
<1>2. I \subseteq Nat /\ I # {}
  BY <1>1 DEF ToSet
<1>3. R = {p \in Nat \X Nat : p[1] < p[2]}
  BY Zenon DEF OpToRel
<1>4. IsWellFoundedOn(R, Nat)
  BY NatLessThanWellFounded
<1> HIDE DEF R, I
<1>5. PICK x \in I : \A y \in I : ~ (<<y, x>> \in R)
  BY <1>2, <1>4, WFMin
<1>6. \A y \in I : ~ (y < x)
  BY <1>2, <1>3, <1>5
<1>7. x \in 1..Len(sorted) /\ sorted[x] \in c /\ deps[sorted[x]] \subseteq Upto(x)
  BY DEF I, SortInv
<1>8. PICK n \in Upto(x) : n \in c
  BY <1>7
<1>9. PICK j \in 1..(x - 1) : sorted[j] = n
  BY <1>8 DEF Upto
<1>10. j \in I /\ j < x
  BY <1>1, <1>7, <1>8, <1>9 DEF I
<1> QED
  BY <1>6, <1>10

LEMMA UpInvHonest == UpInv => UpHonest
<1> SUFFICES ASSUME UpInv
             PROVE  UpHonest
  OBVIOUS
<1>1. ConvergeTypeOK /\ SortInv /\ WalkInv /\ QuietInv
  BY DEF UpInv
<1>2. /\ DOMAIN sorted = 1..Len(sorted) /\ Len(sorted) \in Nat
      /\ \A k \in 1..(Len(sorted) + 1) : ToSet(SubSeq(sorted, 1, k - 1)) = Upto(k)
  BY <1>1, OrderParts DEF ConvergeTypeOK
<1>3. Visited = Upto(turn)
  BY <1>1, <1>2 DEF Visited, WalkInv
<1>4. outcome = "ok" => Visited = Module /\ failed = {}
  BY <1>1, <1>3 DEF WalkInv
<1>5. drifts = 0 => applied \subseteq shown /\ (outcome = "ok" => needs = {})
  BY <1>1 DEF QuietInv
<1>6. applied # {} => gated /\ ~Cyclic
  BY <1>1, OrderIsAcyclic DEF WalkInv
<1>7. \A k \in DOMAIN sorted : deps[sorted[k]] \subseteq ToSet(SubSeq(sorted, 1, k - 1))
  BY <1>1, <1>2 DEF SortInv
<1> QED
  BY <1>4, <1>5, <1>6, <1>7 DEF UpHonest

LEMMA UpInvariant == UpSpec => []UpInv
  BY UpStart, UpStep, PTL DEF UpSpec

\* A run of up keeps the types of its variables, and an order no longer than the
\* registry (registry.go:59-118, runner.go:245-320).
THEOREM UpTyping == UpSpec => []ConvergeTypeOK
<1>1. UpInv => ConvergeTypeOK
  BY DEF UpInv
<1> QED
  BY <1>1, UpInvariant, PTL

\* For any number of modules and every graph of their dependencies, an up that reports
\* success has been to every module and none failed, has applied nothing that it did not
\* show, nor anything before what it depends on, nothing of a graph with a cycle, and
\* nothing without the gates and the consent (registry.go:55-114, runner.go:245-320,
\* cmd_up.go:83-144).
THEOREM UpIsHonest == UpSpec => []UpHonest
  BY UpInvHonest, UpInvariant, PTL

-----------------------------------------------------------------------------
(* The four parts together.                                                *)

GuardInv == TypeOK /\ IInv /\ GateTypeOK /\ HasOp /\ SentinelInv /\ UpInv

\* Whichever part moves, each part makes a step of its own or none.
LEMMA PartSteps ==
  ASSUME [GuardNext]_allVars
  PROVE  [Next]_vars /\ [GateNext]_gateVars /\ [SentinelNext]_sentinelVars /\ [UpNext]_upVars
BY Zenon DEF GuardNext, allVars

\* Whatever the command line, the gate, the sentinel and the runner do, every variable
\* keeps its type, for every set of requests, callers, operations and modules (AllTypeOK).
THEOREM GuardTyping == GuardSpec => []AllTypeOK
<1>1. GuardInit => GuardInv
  BY TypingInit, IInvInit, TypeInit, SentinelInitInv, UpStart DEF GuardInit, GuardInv
<1>2. GuardInv /\ [GuardNext]_allVars => GuardInv'
  BY PartSteps, TypingStep, IInvStep, TypeStep, SentinelNextInv, UpStep DEF GuardInv
<1>3. GuardInv => AllTypeOK
  BY DEF GuardInv, AllTypeOK, SentinelInv, UpInv
<1> QED
  BY <1>1, <1>2, <1>3, PTL DEF GuardSpec
=============================================================================
