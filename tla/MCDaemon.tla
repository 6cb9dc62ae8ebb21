------------------------------ MODULE MCDaemon ------------------------------
(* Components that run beside each other and share no state: the daemon's   *)
(* dispatcher (Dispatch), its store of links (Content), its file watcher     *)
(* (Watch) and the stream of a process it reads (Stream), and the budget     *)
(* watcher of an arm process (Budget).  A behaviour of this module moves one *)
(* of them, chosen at the start.                                             *)
EXTENDS Dispatch, Content, Budget, Stream, Watch

VARIABLE part

allVars == <<part, vars, storeVars, budgetVars, streamVars, watchVars>>

DaemonInit ==
  /\ part \in {"dispatch", "content", "budget", "stream", "watch"}
  /\ Init /\ ContentInit /\ BudgetInit /\ StreamInit /\ WatchInit
  /\ part # "budget" => ladder
DaemonNext ==
  /\ UNCHANGED part
  /\ \/ part = "dispatch" /\ Next /\ UNCHANGED <<storeVars, budgetVars, streamVars, watchVars>>
     \/ part = "content" /\ ContentNext /\ UNCHANGED <<vars, budgetVars, streamVars, watchVars>>
     \/ part = "budget" /\ BudgetNext /\ UNCHANGED <<vars, storeVars, streamVars, watchVars>>
     \/ part = "stream" /\ StreamNext /\ UNCHANGED <<vars, storeVars, budgetVars, watchVars>>
     \/ part = "watch" /\ WatchNext /\ UNCHANGED <<vars, storeVars, budgetVars, streamVars>>
DaemonSpec ==
  DaemonInit /\ [][DaemonNext]_allVars /\ Fairness /\ BudgetFairness /\ StreamFairness

\* The type invariants of all, and the bound of the retry queue.
AllTypeOK ==
  /\ TypeOK /\ QueueBounded /\ ContentTypeOK /\ BudgetTypeOK /\ StreamTypeOK /\ WatchTypeOK
=============================================================================
