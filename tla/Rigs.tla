-------------------------------- MODULE Rigs --------------------------------
(* The API key and its copies: `enroll rig` copies the key of this machine   *)
(* into a slot of the keychain for the rig and lists the rig in the config   *)
(* file, `rotate anthropic-key` writes a new key over the slots, `panic`     *)
(* empties them, each by the rigs it has read (internal/cli/cmd_enroll.go,   *)
(* cmd_rotate.go, cmd_panic.go).  The keychain cannot be listed: a copy is   *)
(* found by its name in the config or not at all.  Every command that        *)
(* changes the config reads the whole file, and writes the whole file later, *)
(* without a lock (internal/config/config.go).                               *)
(* Keys are numbered in the order the operator makes them, 0 is no key.      *)
EXTENDS Naturals, FiniteSets

CONSTANTS
  Name,        \* names of rigs
  Here,        \* the slot of this machine, service "abysslink"
  Cmd,         \* commands running at a time
  NoName,      \* a command that lists no rig
  MaxAPIKeys   \* bound: keys the operator makes

ASSUME RigsAssumption ==
  Here \notin Name /\ NoName \notin Name /\ MaxAPIKeys \in Nat \ {0}

Slot == Name \cup {Here}
APIKey == 0..MaxAPIKeys

VARIABLES
  config,    \* the rigs of the config file
  slot,      \* the keychain: the key in each slot
  cmd,       \* what each command does and what it has read
  issued,    \* keys the operator has made
  retired,   \* history: the last key a finished panic, or rotation, was to leave nowhere
  astray     \* history: slots that commands got in each other's way for, or broke off at

rigsVars == <<config, slot, cmd, issued, retired, astray>>

\* at: the step to come; rig: the rig to list; rigs: as read from the file; val: the key
\* read or to be stored; todo: the slots still to visit.
Doing(at, rig, rigs, val, todo) ==
  [at |-> at, rig |-> rig, rigs |-> rigs, val |-> val, todo |-> todo]
Idle == Doing("idle", NoName, {}, 0, {})

Enrolling == {"get", "set", "list"}
Killing == {"panic", "rotate"}
Steps == Enrolling \cup Killing \cup {"idle", "write"}

RigsTypeOK ==
  /\ config \subseteq Name
  /\ slot \in [Slot -> APIKey] /\ issued \in APIKey
  /\ cmd \in [Cmd -> [at : Steps, rig : Name \cup {NoName}, rigs : SUBSET Name, val : APIKey,
                      todo : SUBSET Slot]]
  /\ retired \in APIKey /\ astray \subseteq Slot

RigsInit ==
  /\ config = {} /\ issued = 1 /\ cmd = [c \in Cmd |-> Idle]
  /\ slot = [s \in Slot |-> IF s = Here THEN 1 ELSE 0]
  /\ retired = 0 /\ astray = {}

Enrollers == {c \in Cmd : cmd[c].at \in Enrolling}
Killers == {c \in Cmd : cmd[c].at \in Killing}

-----------------------------------------------------------------------------
(* The config file.                                                         *)

\* config.Write: the whole file, as this command has it.  A rig it does not know goes.
WriteConfig(rigs) ==
  /\ config' = rigs /\ astray' = astray \cup (config \ rigs)

\* `rig import`, which refuses a listed name, and the commands that change another part
\* of the file (enable, watch, deadman, duress, ...).
Load(c, n) ==
  /\ cmd[c].at = "idle" /\ n \notin config
  /\ cmd' = [cmd EXCEPT ![c] = Doing("write", n, config, 0, {})]
  /\ UNCHANGED <<config, slot, issued, retired, astray>>

\* The file with the rig of the command, if it has one.
Listed(c) == cmd[c].rigs \cup (IF cmd[c].rig = NoName THEN {} ELSE {cmd[c].rig})

Store(c) ==
  /\ cmd[c].at \in {"write", "list"} /\ WriteConfig(Listed(c))
  /\ cmd' = [cmd EXCEPT ![c] = Idle]
  /\ UNCHANGED <<slot, issued, retired>>

\* `init` asks its questions and writes a file of its own, which lists no rig.
InitRig ==
  /\ WriteConfig({}) /\ UNCHANGED <<slot, cmd, issued, retired>>

\* The operator takes a rig out of the file, as the refusal of its name advises.
EditByHand ==
  /\ \E n \in config : WriteConfig(config \ {n})
  /\ UNCHANGED <<slot, cmd, issued, retired>>

-----------------------------------------------------------------------------
(* enroll rig.                                                              *)

\* The name is new to the file, then the signing key is stored and shown.
EnrollRig(c, n) ==
  /\ cmd[c].at = "idle" /\ n \notin config
  /\ cmd' = [cmd EXCEPT ![c] = Doing("get", n, config, 0, {})]
  /\ astray' = IF Killers = {} THEN astray ELSE astray \cup {n}
  /\ UNCHANGED <<config, slot, issued, retired>>

\* The migration: read the key of this machine, and write what was read.  A key that
\* cannot be read is taken for none.
MigrateGet(c) ==
  /\ cmd[c].at = "get"
  /\ \E k \in {slot[Here], 0} :
       cmd' = [cmd EXCEPT ![c] =
                 Doing(IF k = 0 THEN "list" ELSE "set", cmd[c].rig, cmd[c].rigs, k, {})]
  /\ astray' = IF Here \in astray THEN astray \cup {cmd[c].rig} ELSE astray
  /\ UNCHANGED <<config, slot, issued, retired>>
MigrateSet(c) ==
  /\ cmd[c].at = "set"
  /\ slot' = [slot EXCEPT ![cmd[c].rig] = cmd[c].val]
  /\ cmd' = [cmd EXCEPT ![c].at = "list"]
  /\ UNCHANGED <<config, issued, retired, astray>>

\* A command dies, or returns with an error: a keychain that does not answer, a topic in
\* use, a policy of the tailnet that is refused, a write that fails.  What it has done
\* stays; an enrolment leaves a copy that no file lists.
GivesUp(c) ==
  /\ cmd[c].at # "idle"
  /\ astray' = IF cmd[c].at = "list" /\ cmd[c].val # 0
                THEN astray \cup {cmd[c].rig} ELSE astray
  /\ cmd' = [cmd EXCEPT ![c] = Idle]
  /\ UNCHANGED <<config, slot, issued, retired>>

-----------------------------------------------------------------------------
(* panic and rotate anthropic-key.                                          *)

\* Slots a kill may leave behind since it does not have the machine to itself: those of
\* the enrolments under way, and all if another kill is.
InTheWay ==
  {cmd[d].rig : d \in Enrollers} \cup (IF Killers = {} THEN {} ELSE Slot)

\* A panic goes on with an empty config when the file cannot be read or is not accepted;
\* any other command returns before it has done anything.
Panic(c) ==
  /\ cmd[c].at = "idle"
  /\ \E rigs \in {config, {}} :
       /\ cmd' = [cmd EXCEPT ![c] = Doing("panic", NoName, {}, issued, rigs \cup {Here})]
       /\ astray' = astray \cup InTheWay \cup (config \ rigs)
  /\ UNCHANGED <<config, slot, issued, retired>>

\* A rotation needs the file, and a key the provider accepts.
Rotate(c) ==
  /\ cmd[c].at = "idle" /\ issued < MaxAPIKeys /\ issued' = issued + 1
  /\ cmd' = [cmd EXCEPT ![c] =
              Doing("rotate", NoName, {}, issued + 1, config \cup {Here})]
  /\ astray' = astray \cup InTheWay
  /\ UNCHANGED <<config, slot, retired>>

\* The slot of this machine comes first, the rigs in the order of the file.
Turn(c, s) == s \in cmd[c].todo /\ (Here \in cmd[c].todo => s = Here)

\* A slot that gets key k from a kill that has the machine to itself is in order again, if
\* its name is still listed and no panic has done away with k meanwhile.
Recovered(c, s, k) ==
  IF Killers = {c} /\ Enrollers = {} /\ s \in config \cup {Here} /\ k \notin 1..retired
  THEN astray \ {s} ELSE astray

\* panic deletes slot after slot; one with no key is passed over, a delete that fails is
\* reported, and the next is tried.
DeletedStopsAtAbsent(c, s) ==
  /\ slot' = [slot EXCEPT ![s] = 0] /\ astray' = Recovered(c, s, 0)
  /\ cmd' = [cmd EXCEPT ![c].todo = IF slot[s] = 0 THEN {} ELSE @ \ {s}]
Deleted(c, s) ==
  /\ cmd' = [cmd EXCEPT ![c].todo = @ \ {s}]
  /\ \/ slot' = [slot EXCEPT ![s] = 0] /\ astray' = Recovered(c, s, 0)
     \/ astray' = astray \cup {s} /\ UNCHANGED slot

PanicStep(c) ==
  /\ cmd[c].at = "panic" /\ \E s \in Slot : Turn(c, s) /\ Deleted(c, s)
  /\ UNCHANGED <<config, issued, retired>>

\* rotate writes the key of this machine, and over the copies that are there.  A copy that
\* cannot be read is taken for none.
Renewed(c, s) ==
  /\ cmd' = [cmd EXCEPT ![c].todo = @ \ {s}]
  /\ \/ /\ slot' = IF s = Here \/ slot[s] # 0 THEN [slot EXCEPT ![s] = cmd[c].val] ELSE slot
        /\ astray' = Recovered(c, s, cmd[c].val)
     \/ s # Here /\ slot[s] # 0 /\ astray' = astray \cup {s} /\ UNCHANGED slot
RotateStep(c) ==
  /\ cmd[c].at = "rotate" /\ \E s \in Slot : Turn(c, s) /\ Renewed(c, s)
  /\ UNCHANGED <<config, issued, retired>>

\* Done: no slot is to hold a key made before the panic, or before the rotation's own.
Doomed(c) == IF cmd[c].at = "panic" THEN cmd[c].val ELSE cmd[c].val - 1
Done(c) ==
  /\ cmd[c].at \in Killing /\ cmd[c].todo = {}
  /\ retired' = IF Doomed(c) > retired THEN Doomed(c) ELSE retired
  /\ cmd' = [cmd EXCEPT ![c] = Idle]
  /\ UNCHANGED <<config, slot, issued, astray>>

RigsNext ==
  \/ InitRig \/ EditByHand
  \/ \E c \in Cmd, n \in Name \cup {NoName} : Load(c, n)
  \/ \E c \in Cmd, n \in Name : EnrollRig(c, n)
  \/ \E c \in Cmd : Store(c) \/ MigrateGet(c) \/ MigrateSet(c) \/ GivesUp(c)
  \/ \E c \in Cmd : Panic(c) \/ PanicStep(c) \/ Rotate(c) \/ RotateStep(c) \/ Done(c)
RigsSpec == RigsInit /\ [][RigsNext]_rigsVars

-----------------------------------------------------------------------------
(* Properties.                                                              *)

\* A kill switch that leaves copies behind has revoked nothing (cmd_panic.go:319-321,
\* cmd_rotate.go:177-181).  No key that a finished panic was to destroy, or a finished
\* rotation to replace, is left in a slot, and no copy is without its name in the config:
\* but for the slots where an enrolment broke off, commands overlapped, a delete failed, or
\* the file could not be read or was written without the name.
KeysInReach ==
  \A s \in Slot \ astray :
    /\ slot[s] \notin 1..retired
    /\ s = Here \/ slot[s] = 0 \/ s \in config \/ \E c \in Enrollers : cmd[c].rig = s
=============================================================================
