-------------------------------- MODULE Votes --------------------------------
(***************************************************************************)
(* The votes of the quorum engine (internal/quorum) and how they combine.  *)
(* What the four verifiers find in an argument vector is data here: an     *)
(* operation states which rules its commands match, and the operators      *)
(* below say what each verifier makes of it.  V3 and V4, whose votes depend *)
(* on what happened before, are in Gate.                                   *)
(***************************************************************************)
EXTENDS Integers, FiniteSets

Benign    == 0
Sensitive == 1
Critical  == 2
Tiers     == {Benign, Sensitive, Critical}

\* A verifier that fails, times out or panics abstains.
Vote == [verdict : {"allow", "escalate", "deny", "abstain"}, sure : BOOLEAN, tier : Tiers]

Yes         == [verdict |-> "allow", sure |-> TRUE, tier |-> Benign]
Unsure      == [verdict |-> "allow", sure |-> FALSE, tier |-> Sensitive]
Escalate(t) == [verdict |-> "escalate", sure |-> TRUE, tier |-> t]
Veto        == [verdict |-> "deny", sure |-> TRUE, tier |-> Benign]
Abstains    == [verdict |-> "abstain", sure |-> FALSE, tier |-> Sensitive]

\* An operation: the compiled floor names it or a command wrapped in it; the
\* syntactic rules its commands match; whether part of it cannot be read;
\* an extra pattern; the targets of a write verb; whether V3 counts it; whether V4 looks for an undo.
Operations ==
  [floor : BOOLEAN, rules : SUBSET Vote, opaque : BOOLEAN, extra : BOOLEAN,
   writes : BOOLEAN, targets : SUBSET {"plain", "ambiguous", "protected"},
   destructive : BOOLEAN, mutates : BOOLEAN]

\* effectiveOutcome.
Confident(v) == v.verdict = "allow" /\ v.sure
Failed(v)    == v.verdict = "abstain"

Rank(v) == IF v.verdict = "deny" THEN 2 ELSE IF Confident(v) THEN 0 ELSE 1

\* voteMoreRestrictive, and the most restrictive vote of a set, best among them.
MoreRestrictive(v, w) == Rank(v) > Rank(w) \/ (Rank(v) = Rank(w) /\ v.tier > w.tier)
Worst(V, best) ==
  CHOOSE v \in V \cup {best} : \A w \in V \cup {best} : ~MoreRestrictive(w, v)

\* V1: the rules, then what only an allowed command is asked: an extra pattern
\* and whether all of it could be read.
SyntacticVote(o) ==
  LET best == Worst(o.rules, Yes)
  IN IF ~Confident(best) THEN best
     ELSE IF o.extra \/ o.opaque THEN Escalate(Sensitive) ELSE best

\* V2: the targets of a write verb; none that it can name is not sure.
TargetVote(t) ==
  CASE t = "protected" -> Escalate(Critical)
    [] t = "ambiguous" -> Unsure
    [] OTHER -> Yes

PolicyVote(o, homeKnown) ==
  LET worst == Worst({TargetVote(t) : t \in o.targets}, Yes)
  IN IF ~o.writes THEN Yes
     ELSE IF o.targets = {} THEN Unsure
     ELSE IF ~homeKnown /\ Confident(worst) THEN Abstains ELSE worst

\* TierOverrides: the configuration may raise the tier of a rule's vote, never lower it.
Raise(v, t) == IF ~Failed(v) /\ t > v.tier THEN [v EXCEPT !.tier = t] ELSE v

\* What a vote that is no confident yes demands at least.
Demand(v) == IF v.tier < Sensitive THEN Sensitive ELSE v.tier

MaxOf(S) == CHOOSE n \in S : \A k \in S : k <= n

\* Mutant: a second verifier that fails is like the first.
CombineTwoFailures(votes) ==
  LET cast == {votes[i] : i \in DOMAIN votes}
  IN IF \E v \in cast : v.verdict = "deny" THEN [outcome |-> "deny", tier |-> Benign]
     ELSE IF \A v \in cast : Confident(v) THEN [outcome |-> "allow", tier |-> Benign]
     ELSE [outcome |-> "escalate", tier |-> MaxOf({Demand(v) : v \in {w \in cast : ~Confident(w)}})]

\* combine: a veto denies; only four confident yeses allow; what remains goes to
\* the operator at the highest tier demanded, two failures at the highest there is.
Combine(votes) ==
  LET cast == {votes[i] : i \in DOMAIN votes}
  IN IF \E v \in cast : v.verdict = "deny" THEN [outcome |-> "deny", tier |-> Benign]
     ELSE IF \A v \in cast : Confident(v) THEN [outcome |-> "allow", tier |-> Benign]
     ELSE [outcome |-> "escalate",
           tier |-> IF Cardinality({i \in DOMAIN votes : Failed(votes[i])}) >= 2 THEN Critical
                    ELSE MaxOf({Demand(v) : v \in {w \in cast : ~Confident(w)}})]
=============================================================================
