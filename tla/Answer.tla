------------------------------- MODULE Answer -------------------------------
(***************************************************************************)
(* What the approve loop promises: a request is decided once, for good;    *)
(* the tool call it guards goes ahead only on an approval; and what the    *)
(* phone shows is the decision that was made, whoever made it.  Being      *)
(* blocked is always possible: every failure path denies.                  *)
(***************************************************************************)
CONSTANTS Req,      \* requests
          Screen    \* confirmation pages
VARIABLES decision, \* of each request, "pending" until it is made
          result,   \* what the hook of each request did, "none" until it returns
          shown     \* what each page shows, "none" until it is rendered

Init ==
  /\ decision = [r \in Req |-> "pending"]
  /\ result = [r \in Req |-> "none"]
  /\ shown = [s \in Screen |-> "none"]

Decide(r, d) ==
  /\ decision[r] = "pending"
  /\ decision' = [decision EXCEPT ![r] = d]
  /\ UNCHANGED <<result, shown>>

Allow(r) ==
  /\ result[r] = "none" /\ decision[r] = "approved"
  /\ result' = [result EXCEPT ![r] = "allow"]
  /\ UNCHANGED <<decision, shown>>

Block(r) ==
  /\ result[r] = "none"
  /\ result' = [result EXCEPT ![r] = "block"]
  /\ UNCHANGED <<decision, shown>>

\* Screen s is a page of request r.
Show(r, s) ==
  /\ shown[s] = "none" /\ decision[r] # "pending"
  /\ shown' = [shown EXCEPT ![s] = decision[r]]
  /\ UNCHANGED <<decision, result>>

ShowMiss(s) ==
  /\ shown[s] = "none"
  /\ shown' = [shown EXCEPT ![s] = "miss"]
  /\ UNCHANGED <<decision, result>>

Next ==
  \/ \E r \in Req : Decide(r, "approved") \/ Decide(r, "denied") \/ Allow(r) \/ Block(r)
  \/ \E s \in Screen : ShowMiss(s) \/ Show(s[1], s)

Spec == Init /\ [][Next]_<<decision, result, shown>>
=============================================================================
