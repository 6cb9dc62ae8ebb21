------------------------------ MODULE MCGuard -------------------------------
(* What stands between a command and the machine: the phone approve loop    *)
(* (Approval), the gate with its quorum (Gate), the detector of the sentinel *)
(* (Sentinel) and the preview, gates and consent of `up --apply` (Converge). *)
(* In this version of the code the first two meet in an approval token only, *)
(* which each has its own model of, and the others share nothing with them,  *)
(* so a behaviour of this module moves one of them, chosen at the start.     *)
EXTENDS Approval, Gate, Sentinel, Converge

VARIABLE part

allVars == <<part, vars, gateVars, sentinelVars, upVars>>

Plain == [floor |-> FALSE, rules |-> {}, opaque |-> FALSE, extra |-> FALSE, writes |-> FALSE,
          targets |-> {}, destructive |-> FALSE, mutates |-> FALSE]
OpAttributes == [o \in Op |->
  IF o = "del" THEN [Plain EXCEPT !.writes = TRUE, !.targets = {"plain"}, !.destructive = TRUE,
                                  !.mutates = TRUE]
  ELSE [Plain EXCEPT !.floor = TRUE]]
RuleOverrides == [v \in 1..4 |-> IF v = 1 THEN 2 ELSE 0]
RegistryOrder == <<"a", "b", "c">>

GuardInit ==
  /\ part \in {"approval", "gate", "sentinel", "up"} /\ Init /\ GateInit /\ SentinelInit /\ UpInit
  /\ part # "gate" => mode = "enforcing"
  /\ part # "up" => needs = {} /\ \A m \in Module : deps[m] = {}
GuardNext ==
  /\ UNCHANGED part
  /\ \/ part = "approval" /\ Next /\ UNCHANGED <<gateVars, sentinelVars, upVars>>
     \/ part = "gate" /\ GateNext /\ UNCHANGED <<vars, sentinelVars, upVars>>
     \/ part = "sentinel" /\ SentinelNext /\ UNCHANGED <<vars, gateVars, upVars>>
     \/ part = "up" /\ UpNext /\ UNCHANGED <<vars, gateVars, sentinelVars>>
GuardSpec == GuardInit /\ [][GuardNext]_allVars /\ Fairness

\* The type invariants of all.
AllTypeOK == TypeOK /\ GateTypeOK /\ SentinelTypeOK /\ ConvergeTypeOK
=============================================================================
