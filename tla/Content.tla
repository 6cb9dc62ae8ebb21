------------------------------- MODULE Content -------------------------------
(***************************************************************************)
(* The daemon's store of capability links (daemon/content.go): message     *)
(* bodies, the approve and deny buttons of a request, and the bootstrap    *)
(* bundles of enrolling phones share one map of bounded size.  A link is   *)
(* presented on the route of some class, and works once on its own.        *)
(*                                                                         *)
(* The four classes outlive different times, so a link may expire at any   *)
(* moment after it was minted; of the times of minting the order is kept.  *)
(***************************************************************************)
EXTENDS Integers, FiniteSets

CONSTANTS
  Token,       \* the links of a behaviour; random, so minted once each
  MaxEntries   \* maxContentEntries (512)

ASSUME ContentAssumption == MaxEntries \in Nat \ {0}

VARIABLES
  entries,   \* the links in the map
  minted,    \* the pairs of them of which the first was minted before the second
  kind,      \* the class of each link, "none" before it is minted
  expired,   \* links whose time is over
  served     \* history: how often each was answered with its body

storeVars == <<entries, minted, kind, expired, served>>

Evictable == {"content", "approve", "deny"}
Kind == Evictable \cup {"bootstrap"}

ContentTypeOK ==
  /\ entries \subseteq Token /\ minted \subseteq entries \X entries
  /\ IsFiniteSet(entries) /\ Cardinality(entries) <= MaxEntries
  /\ kind \in [Token -> Kind \cup {"none"}] /\ expired \subseteq Token
  /\ served \in [Token -> Nat]

ContentInit ==
  /\ entries = {} /\ minted = {} /\ kind = [t \in Token |-> "none"] /\ expired = {}
  /\ served = [t \in Token |-> 0]

-----------------------------------------------------------------------------
Expire(t) ==
  /\ kind[t] # "none" /\ t \notin expired /\ expired' = expired \cup {t}
  /\ UNCHANGED <<entries, minted, kind, served>>

\* pruneLocked.
Pruned == entries \ expired

\* The map holds the links E from now on.
Keep(E) == entries' = E /\ minted' = minted \cap (E \X E)

Oldest(E, k) == {t \in E : kind[t] = k /\ \A u \in E : kind[u] = k => <<u, t>> \notin minted}

\* What dropOldestLocked may drop: it ranges over the map, so the first class it
\* meets is any that may be evicted; of that class the oldest goes.  A bootstrap link
\* goes only when there is nothing else.
Victims(E) ==
  LET present == {kind[t] : t \in E}
      classes == IF present = {"bootstrap"} THEN present ELSE present \cap Evictable
  IN UNION {Oldest(E, k) : k \in classes}

\* The link t joins the links E, younger than all of them.
Join(E, t) ==
  /\ entries' = E \cup {t}
  /\ minted' = (minted \cap (E \X E)) \cup {<<u, t>> : u \in E}

\* mintKind.
Mint(t, k) ==
  /\ kind[t] = "none" /\ kind' = [kind EXCEPT ![t] = k]
  /\ \/ Cardinality(Pruned) < MaxEntries /\ Join(Pruned, t)
     \/ /\ Cardinality(Pruned) >= MaxEntries
        /\ \E v \in Victims(Pruned) : Join(Pruned \ {v}, t)
  /\ UNCHANGED <<expired, served>>

\* Mutant: the link is consumed before its class is looked at.
LookupBurns(t, want, consume) ==
  /\ Keep(IF consume THEN Pruned \ {t} ELSE Pruned)
  /\ served' = IF consume /\ t \in Pruned /\ kind[t] = want
               THEN [served EXCEPT ![t] = @ + 1] ELSE served
  /\ UNCHANGED <<kind, expired>>

\* lookupKind: a miss of any sort, and a look without consuming, delete nothing.
Lookup(t, want, consume) ==
  /\ IF t \in Pruned /\ kind[t] = want /\ consume
     THEN Keep(Pruned \ {t}) /\ served' = [served EXCEPT ![t] = @ + 1]
     ELSE Keep(Pruned) /\ UNCHANGED served
  /\ UNCHANGED <<kind, expired>>

\* The routes: only the content route asks for a bearer, and looks without consuming
\* when it is not good.
Fetch(t, authed) == Lookup(t, "content", authed)
Open(t, k) == Lookup(t, k, TRUE)

\* runPruner.
Sweep == Keep(Pruned) /\ UNCHANGED <<kind, expired, served>>

ContentNext ==
  \/ \E t \in Token : Expire(t)
  \/ \E t \in Token, k \in Kind : Mint(t, k)
  \/ \E t \in Token, authed \in BOOLEAN : Fetch(t, authed)
  \/ \E t \in Token, k \in Kind \ {"content"} : Open(t, k)
  \/ Sweep

ContentSpec == ContentInit /\ [][ContentNext]_storeVars

-----------------------------------------------------------------------------
(* Properties.                                                             *)

\* An awaited link stays until its one answer: it is answered once at most and never
\* after its time, however it is presented, and no stranger's request takes it away.
\* One that has not expired leaves the store when it is answered, or when a mint finds
\* the store full - of links that have not expired either, and a bootstrap link only if
\* all of them are (content.go:165-198, 223-236).
Gone == entries \ (entries' \cup expired)
Minted == \E t \in Token : kind'[t] # kind[t]
LinkAnswersOnce ==
  [][/\ \A t \in Gone :
         \/ served'[t] > served[t]
         \/ /\ Minted /\ Cardinality(Pruned) = MaxEntries
            /\ kind[t] = "bootstrap" => \A u \in Pruned : kind[u] = "bootstrap"
     /\ \A t \in Token : served'[t] # served[t] => served'[t] = 1 /\ t \notin expired]_storeVars
=============================================================================
