----------------------------- MODULE Rigs_proof -----------------------------
(***************************************************************************)
(* The copies of the API key, for every set of rigs and of commands and    *)
(* any number of keys; and the types of everything the commands keep.      *)
(***************************************************************************)
EXTENDS MCAudit, AuditChain_proof

USE RigsAssumption

-----------------------------------------------------------------------------
(* The inductive invariant.                                                *)

\* Enrolments that have made a copy and have yet to list it.
Owes(c, s) == cmd[c].at = "list" /\ cmd[c].val # 0 /\ cmd[c].rig = s

\* What a command remembers is something it can have read.
Memory ==
  /\ issued # 0 /\ retired <= issued
  /\ \A c \in Cmd :
       /\ cmd[c].at \in Enrolling => cmd[c].rig \in Name
       /\ cmd[c].at = "set" => cmd[c].val # 0
       /\ cmd[c].at \in Killing => cmd[c].val # 0 /\ cmd[c].val <= issued

\* Every copy is listed, or about to be.
Findable ==
  \A s \in Name \ astray : slot[s] = 0 \/ s \in config \/ \E c \in Cmd : Owes(c, s)

\* No slot holds a key that is done away with, and no enrolment carries one to a slot.
Current ==
  /\ \A s \in Slot \ astray : slot[s] \notin 1..retired
  /\ \A c \in Cmd : cmd[c].at = "set" /\ cmd[c].rig \notin astray => cmd[c].val \notin 1..retired

\* Whoever moves beside a kill is in its way.
Overlap ==
  \A c \in Killers :
    /\ \A d \in Enrollers : cmd[d].rig \in astray
    /\ \A d \in Killers \ {c} : Slot \subseteq astray
    /\ cmd[c].at = "rotate" => cmd[c].val > retired \/ Slot \subseteq astray

\* A kill has dealt with the slots it does not have to visit any more.
Visited ==
  \A c \in Killers : \A s \in Slot \ (astray \cup cmd[c].todo) : slot[s] \notin 1..Doomed(c)

IInv == RigsTypeOK /\ Memory /\ Findable /\ Current /\ Overlap /\ Visited

-----------------------------------------------------------------------------
(* Types.                                                                   *)

Command == [at : Steps, rig : Name \cup {NoName}, rigs : SUBSET Name, val : APIKey,
            todo : SUBSET Slot]

\* What a step does to one command it does to no other.
LEMMA OneCommand ==
  ASSUME RigsTypeOK, NEW c \in Cmd, NEW r \in Command, cmd' = [cmd EXCEPT ![c] = r]
  PROVE  cmd' \in [Cmd -> Command] /\ cmd'[c] = r /\ \A d \in Cmd \ {c} : cmd'[d] = cmd[d]
BY DEF RigsTypeOK, Command

LEMMA IdleTyping == Idle \in Command
BY DEF Idle, Doing, Command, Steps, APIKey

LEMMA InitIInv == RigsInit => IInv
<1> SUFFICES ASSUME RigsInit PROVE IInv
  OBVIOUS
<1>1. /\ config = {} /\ issued = 1 /\ retired = 0 /\ astray = {}
      /\ slot \in [Slot -> APIKey] /\ (\A s \in Name : slot[s] = 0)
  BY DEF RigsInit, Slot, APIKey
<1>2. /\ cmd \in [Cmd -> Command] /\ 1 \in APIKey /\ 0 \in APIKey
      /\ \A c \in Cmd : cmd[c].at = "idle"
  BY IdleTyping DEF RigsInit, APIKey, Idle, Doing
<1>3. RigsTypeOK
  BY <1>1, <1>2 DEF RigsTypeOK, Command
<1>4. Enrollers = {} /\ Killers = {}
  BY <1>2 DEF Enrollers, Killers, Enrolling, Killing
<1>5. Memory /\ Findable
  BY <1>1, <1>2 DEF Memory, Findable, Enrolling, Killing
<1>6. Current
  BY <1>1, <1>2 DEF Current
<1> QED
  BY <1>3, <1>4, <1>5, <1>6 DEF IInv, Overlap, Visited

-----------------------------------------------------------------------------
(* The steps that change the config file.                                   *)

\* A command that is about no kill and no enrolment is in nobody's way.
LEMMA LoadIInv ==
  ASSUME IInv, NEW c \in Cmd, NEW n \in Name \cup {NoName}, Load(c, n)
  PROVE  IInv'
<1> DEFINE r == Doing("write", n, config, 0, {})
<1>0. r \in Command /\ r.at = "write"
  BY DEF Doing, IInv, RigsTypeOK, Command, Steps, Enrolling, APIKey
<1>1. /\ r \in Command /\ r.at = "write"
      /\ cmd[c].at = "idle" /\ cmd' = [cmd EXCEPT ![c] = r]
      /\ UNCHANGED <<config, slot, issued, retired, astray>>
  BY <1>0 DEF Load
<1>2. /\ cmd' \in [Cmd -> Command] /\ cmd'[c].at = "write"
      /\ \A d \in Cmd \ {c} : cmd'[d] = cmd[d]
  BY <1>1, OneCommand DEF IInv
<1>3. Enrollers' = Enrollers /\ Killers' = Killers /\ c \notin Enrollers /\ c \notin Killers
  BY <1>1, <1>2 DEF Enrollers, Killers, Enrolling, Killing
<1>4. RigsTypeOK'
  BY <1>1, <1>2 DEF IInv, RigsTypeOK, Command
<1>5. Memory'
  BY <1>1, <1>2 DEF IInv, Memory, Enrolling, Killing
<1>6. Findable'
  BY <1>1, <1>2 DEF IInv, Findable, Owes
<1>7. Current'
  BY <1>1, <1>2 DEF IInv, Current
<1>8. Overlap' /\ Visited'
  BY <1>1, <1>2, <1>3 DEF IInv, Overlap, Visited, Doomed, Killers, Enrollers
<1> QED
  BY <1>4, <1>5, <1>6, <1>7, <1>8 DEF IInv

\* A write of the file that leaves the other parts alone: what it drops goes astray.
LEMMA WriteIInv ==
  ASSUME IInv, NEW rigs \in SUBSET Name, WriteConfig(rigs), UNCHANGED <<slot, cmd, issued, retired>>
  PROVE  IInv'
<1>1. /\ config' = rigs /\ astray \subseteq astray' /\ astray' \subseteq Slot
      /\ \A s \in config : s \in config' \/ s \in astray'
  BY DEF WriteConfig, IInv, RigsTypeOK, Slot
<1>2. Enrollers' = Enrollers /\ Killers' = Killers
  BY DEF Enrollers, Killers
<1>3. RigsTypeOK'
  BY <1>1 DEF IInv, RigsTypeOK
<1>4. Memory' /\ Current'
  BY <1>1 DEF IInv, Memory, Current
<1>5. Findable'
  BY <1>1 DEF IInv, Findable, Owes
<1>6. Overlap' /\ Visited'
  BY <1>1, <1>2 DEF IInv, Overlap, Visited, Doomed
<1> QED
  BY <1>3, <1>4, <1>5, <1>6 DEF IInv

LEMMA StoreIInv ==
  ASSUME IInv, NEW c \in Cmd, Store(c)
  PROVE  IInv'
<1>1. /\ cmd[c].at \in {"write", "list"} /\ cmd' = [cmd EXCEPT ![c] = Idle]
      /\ UNCHANGED <<slot, issued, retired>>
      /\ config' = Listed(c) /\ astray' = astray \cup (config \ Listed(c))
  BY DEF Store, WriteConfig
<1>2. /\ cmd' \in [Cmd -> Command] /\ cmd'[c] = Idle
      /\ \A d \in Cmd \ {c} : cmd'[d] = cmd[d]
  BY <1>1, OneCommand, IdleTyping DEF IInv
<1>3. Listed(c) \subseteq Name /\ (cmd[c].at = "list" => cmd[c].rig \in Listed(c))
  BY DEF IInv, RigsTypeOK, Memory, Listed, Enrolling
<1>4. /\ astray \subseteq astray' /\ astray' \subseteq Slot
      /\ \A s \in config : s \in config' \/ s \in astray'
  BY <1>1, <1>3 DEF IInv, RigsTypeOK, Slot
<1>5. Enrollers' \subseteq Enrollers /\ Killers' = Killers /\ c \notin Killers
  BY <1>1, <1>2 DEF Enrollers, Killers, Enrolling, Killing, Idle, Doing
<1>6. RigsTypeOK'
  BY <1>1, <1>2, <1>3, <1>4 DEF IInv, RigsTypeOK, Command
<1>7. Memory'
  BY <1>1, <1>2 DEF IInv, Memory, Enrolling, Killing, Idle, Doing
<1>8. Findable'
  BY <1>1, <1>2, <1>3, <1>4 DEF IInv, Findable, Owes
<1>9. Current'
  BY <1>1, <1>2, <1>4 DEF IInv, Current, Idle, Doing
<1>10. Overlap'
  <2> SUFFICES ASSUME NEW k \in Killers
               PROVE  /\ \A d \in Enrollers' : cmd'[d].rig \in astray'
                      /\ \A d \in Killers \ {k} : Slot \subseteq astray'
                      /\ cmd'[k].at = "rotate" => cmd'[k].val > retired' \/ Slot \subseteq astray'
    BY <1>5 DEF Overlap
  <2>1. k \in Cmd \ {c} /\ cmd'[k] = cmd[k]
    BY <1>2, <1>5 DEF Killers
  <2>2. \A d \in Enrollers' : d \in Cmd \ {c} /\ d \in Enrollers /\ cmd'[d] = cmd[d]
    BY <1>2, <1>5 DEF Enrollers, Idle, Doing, Enrolling
  <2> QED
    BY <1>1, <1>4, <2>1, <2>2 DEF IInv, Overlap
<1>11. Visited'
  <2> SUFFICES ASSUME NEW k \in Killers, NEW s \in Slot \ (astray \cup cmd[k].todo)
               PROVE  slot[s] \notin 1..Doomed(k)
    BY <1>1, <1>2, <1>4, <1>5 DEF Visited, Doomed, Killers
  <2> QED
    BY DEF IInv, Visited
<1> QED
  BY <1>6, <1>7, <1>8, <1>9, <1>10, <1>11 DEF IInv

-----------------------------------------------------------------------------
(* The steps of an enrolment.                                               *)

\* An enrolment that starts beside a kill is in its way.
LEMMA EnrollIInv ==
  ASSUME IInv, NEW c \in Cmd, NEW n \in Name, EnrollRig(c, n)
  PROVE  IInv'
<1> DEFINE r == Doing("get", n, config, 0, {})
<1>0. r \in Command /\ r.at = "get" /\ r.rig = n
  BY DEF Doing, IInv, RigsTypeOK, Command, Steps, Enrolling, APIKey
<1>1. /\ r \in Command /\ r.at = "get" /\ r.rig = n
      /\ cmd[c].at = "idle" /\ cmd' = [cmd EXCEPT ![c] = r]
      /\ UNCHANGED <<config, slot, issued, retired>>
  BY <1>0 DEF EnrollRig
<1>2. /\ cmd' \in [Cmd -> Command] /\ cmd'[c].at = "get" /\ cmd'[c].rig = n
      /\ \A d \in Cmd \ {c} : cmd'[d] = cmd[d]
  BY <1>1, OneCommand DEF IInv
<1>3. Enrollers' = Enrollers \cup {c} /\ Killers' = Killers /\ c \notin Killers
  BY <1>1, <1>2 DEF Enrollers, Killers, Enrolling, Killing
<1>4. /\ astray \subseteq astray' /\ astray' \subseteq Slot
      /\ Killers # {} => n \in astray'
  BY DEF EnrollRig, IInv, RigsTypeOK, Slot
<1>5. RigsTypeOK'
  BY <1>1, <1>2, <1>4 DEF IInv, RigsTypeOK, Command
<1>6. Memory'
  BY <1>1, <1>2 DEF IInv, Memory, Enrolling, Killing
<1>7. Findable'
  BY <1>1, <1>2, <1>4 DEF IInv, Findable, Owes
<1>8. Current'
  BY <1>1, <1>2, <1>4 DEF IInv, Current
<1>9. Overlap' /\ Visited'
  BY <1>1, <1>2, <1>3, <1>4 DEF IInv, Overlap, Visited, Doomed, Killers, Enrollers
<1> QED
  BY <1>5, <1>6, <1>7, <1>8, <1>9 DEF IInv

\* A key that is not to be there any more is read where it had gone astray only.
LEMMA GetIInv ==
  ASSUME IInv, NEW c \in Cmd, MigrateGet(c)
  PROVE  IInv'
<1> DEFINE r(k) == Doing(IF k = 0 THEN "list" ELSE "set", cmd[c].rig, cmd[c].rigs, k, {})
<1>0. PICK k \in {slot[Here], 0} : cmd' = [cmd EXCEPT ![c] = r(k)]
  BY DEF MigrateGet
<1>a. slot[Here] \in APIKey /\ 0 \in APIKey
  BY DEF IInv, RigsTypeOK, Slot, APIKey
<1>1. /\ cmd[c].at = "get" /\ cmd' = [cmd EXCEPT ![c] = r(k)]
      /\ UNCHANGED <<config, slot, issued, retired>>
      /\ k \in APIKey
  <2> HIDE DEF r
  <2> QED
    BY <1>0, <1>a DEF MigrateGet
<1>2. /\ r(k) \in Command /\ r(k).rig = cmd[c].rig /\ r(k).val = k
      /\ r(k).at \in {"list", "set"} /\ (r(k).at = "list" <=> k = 0)
  BY <1>1 DEF Doing, IInv, RigsTypeOK, Command, Steps, Enrolling
<1>3. /\ cmd' \in [Cmd -> Command] /\ cmd'[c] = r(k)
      /\ \A d \in Cmd \ {c} : cmd'[d] = cmd[d]
  BY <1>1, <1>2, OneCommand DEF IInv
<1>4. Enrollers' = Enrollers /\ Killers' = Killers /\ c \in Enrollers /\ c \notin Killers
  BY <1>1, <1>2, <1>3 DEF Enrollers, Killers, Enrolling, Killing
<1>5. /\ astray \subseteq astray' /\ astray' \subseteq Slot
      /\ Here \in astray => cmd[c].rig \in astray'
  BY <1>1 DEF MigrateGet, IInv, RigsTypeOK, Slot, Memory, Enrolling
<1>6. RigsTypeOK'
  BY <1>1, <1>3, <1>5 DEF IInv, RigsTypeOK, Command
<1>7. Memory'
  BY <1>1, <1>2, <1>3 DEF IInv, Memory, Enrolling, Killing
<1>8. Findable'
  BY <1>1, <1>2, <1>3, <1>5 DEF IInv, Findable, Owes
<1>9. Current'
  BY <1>1, <1>2, <1>3, <1>5 DEF IInv, Current, Slot
<1>10. Overlap' /\ Visited'
  BY <1>1, <1>2, <1>3, <1>4, <1>5 DEF IInv, Overlap, Visited, Doomed, Killers, Enrollers
<1> QED
  BY <1>6, <1>7, <1>8, <1>9, <1>10 DEF IInv

LEMMA SetIInv ==
  ASSUME IInv, NEW c \in Cmd, MigrateSet(c)
  PROVE  IInv'
<1> DEFINE r == [cmd[c] EXCEPT !.at = "list"]
           n == cmd[c].rig
<1>1. /\ cmd[c].at = "set" /\ cmd' = [cmd EXCEPT ![c] = r]
      /\ slot' = [slot EXCEPT ![n] = cmd[c].val]
      /\ UNCHANGED <<config, issued, retired, astray>>
      /\ n \in Name /\ cmd[c].val \in APIKey \ {0}
  BY DEF MigrateSet, IInv, RigsTypeOK, Memory, Enrolling
<1>2. r \in Command /\ r.rig = n /\ r.val = cmd[c].val /\ r.at = "list"
  BY <1>1 DEF IInv, RigsTypeOK, Command, Steps, Enrolling
<1>3. /\ cmd' \in [Cmd -> Command] /\ cmd'[c] = r
      /\ \A d \in Cmd \ {c} : cmd'[d] = cmd[d]
  BY <1>1, <1>2, OneCommand DEF IInv
<1>4. Enrollers' = Enrollers /\ Killers' = Killers /\ c \in Enrollers /\ c \notin Killers
  BY <1>1, <1>2, <1>3 DEF Enrollers, Killers, Enrolling, Killing
<1>5. /\ slot' \in [Slot -> APIKey] /\ slot'[n] = cmd[c].val
      /\ \A s \in Slot \ {n} : slot'[s] = slot[s]
  BY <1>1 DEF IInv, RigsTypeOK, Slot
<1>6. RigsTypeOK'
  BY <1>1, <1>3, <1>5 DEF IInv, RigsTypeOK, Command
<1>7. Memory'
  BY <1>1, <1>2, <1>3 DEF IInv, Memory, Enrolling, Killing
<1>8. Findable'
  <2> SUFFICES ASSUME NEW s \in Name \ astray', slot'[s] # 0, s \notin config'
               PROVE  \E d \in Cmd : Owes(d, s)'
    BY DEF Findable
  <2>1. CASE s = n
    BY <1>1, <1>2, <1>3, <2>1 DEF Owes
  <2>2. CASE s # n
    <3>1. PICK d \in Cmd : Owes(d, s)
      BY <1>1, <1>5, <2>2 DEF IInv, Findable, Slot
    <3> QED
      BY <1>1, <1>3, <2>2, <3>1 DEF Owes
  <2> QED
    BY <2>1, <2>2
<1>9. Current'
  BY <1>1, <1>2, <1>3, <1>5 DEF IInv, Current
<1>10. Overlap'
  BY <1>1, <1>2, <1>3, <1>4 DEF IInv, Overlap, Killers, Enrollers
<1>11. Visited'
  <2> SUFFICES ASSUME NEW k \in Killers, NEW s \in Slot \ (astray \cup cmd[k].todo)
               PROVE  slot'[s] \notin 1..Doomed(k)
    BY <1>1, <1>3, <1>4 DEF Visited, Doomed, Killers
  <2>1. s # n
    BY <1>4 DEF IInv, Overlap
  <2> QED
    BY <1>5, <2>1 DEF IInv, Visited
<1> QED
  BY <1>6, <1>7, <1>8, <1>9, <1>10, <1>11 DEF IInv

\* A copy that is not going to be listed has gone astray.
LEMMA GivesUpIInv ==
  ASSUME IInv, NEW c \in Cmd, GivesUp(c)
  PROVE  IInv'
<1>1. /\ cmd' = [cmd EXCEPT ![c] = Idle]
      /\ UNCHANGED <<config, slot, issued, retired>>
  BY DEF GivesUp
<1>2. /\ cmd' \in [Cmd -> Command] /\ cmd'[c] = Idle
      /\ \A d \in Cmd \ {c} : cmd'[d] = cmd[d]
  BY <1>1, OneCommand, IdleTyping DEF IInv
<1>3. /\ astray \subseteq astray' /\ astray' \subseteq Slot
      /\ \A s \in Name : Owes(c, s) => s \in astray'
  BY DEF GivesUp, Owes, IInv, RigsTypeOK, Memory, Enrolling, Slot
<1>4. /\ Enrollers' = Enrollers \ {c} /\ Killers' = Killers \ {c}
      /\ \A d \in Enrollers' \cup Killers' : cmd'[d] = cmd[d]
  BY <1>2 DEF Enrollers, Killers, Enrolling, Killing, Idle, Doing
<1>5. RigsTypeOK'
  BY <1>1, <1>2, <1>3 DEF IInv, RigsTypeOK, Command
<1>6. Memory'
  BY <1>1, <1>2 DEF IInv, Memory, Enrolling, Killing, Idle, Doing
<1>7. Findable'
  BY <1>1, <1>2, <1>3 DEF IInv, Findable, Owes
<1>8. Current'
  BY <1>1, <1>2, <1>3 DEF IInv, Current, Idle, Doing
<1>9. Overlap'
  BY <1>1, <1>3, <1>4 DEF IInv, Overlap
<1>10. Visited'
  BY <1>1, <1>3, <1>4 DEF IInv, Visited, Doomed
<1> QED
  BY <1>5, <1>6, <1>7, <1>8, <1>9, <1>10 DEF IInv

-----------------------------------------------------------------------------
(* The start of a kill.                                                     *)

\* It knows every copy but those that are astray, for what it does not read in the file is
\* owed by an enrolment, and so in its way.
LEMMA KillIInv ==
  ASSUME IInv, NEW c \in Cmd, NEW at \in Killing, NEW v \in APIKey, NEW rigs \in SUBSET config,
         cmd[c].at = "idle",
         cmd' = [cmd EXCEPT ![c] = Doing(at, NoName, {}, v, rigs \cup {Here})],
         astray' = astray \cup InTheWay \cup (config \ rigs),
         UNCHANGED <<config, slot, retired>>,
         issued' \in APIKey, issued <= issued', v = issued',
         at = "rotate" => v > retired
  PROVE  IInv'
<1> DEFINE r == Doing(at, NoName, {}, v, rigs \cup {Here})
<1>1. r \in Command /\ r.at = at /\ r.val = v /\ r.todo = rigs \cup {Here}
  BY DEF Doing, IInv, RigsTypeOK, Command, Steps, Slot
<1>2. /\ cmd' \in [Cmd -> Command] /\ cmd'[c] = r
      /\ \A d \in Cmd \ {c} : cmd'[d] = cmd[d]
  BY <1>1, OneCommand DEF IInv
<1>3. /\ Enrollers' = Enrollers /\ Killers' = Killers \cup {c}
      /\ c \notin Enrollers /\ c \notin Killers
  BY <1>1, <1>2 DEF Enrollers, Killers, Enrolling, Killing
<1>4. /\ astray \subseteq astray' /\ astray' \subseteq Slot
      /\ \A d \in Enrollers : cmd[d].rig \in astray'
      /\ Killers # {} => Slot \subseteq astray'
      /\ config \ rigs \subseteq astray'
  BY DEF InTheWay, IInv, RigsTypeOK, Memory, Enrollers, Slot
<1>5. RigsTypeOK'
  BY <1>2, <1>4 DEF IInv, RigsTypeOK, Command
<1>6. Memory'
  BY <1>1, <1>2 DEF IInv, Memory, RigsTypeOK, Enrolling, Killing, APIKey
<1>7. Findable'
  BY <1>2, <1>4 DEF IInv, Findable, Owes
<1>8. Current'
  BY <1>1, <1>2, <1>4 DEF IInv, Current, Killing
<1>9. Overlap'
  <2>1. \A d \in Enrollers' : cmd'[d].rig \in astray'
    BY <1>2, <1>3, <1>4 DEF Enrollers
  <2>2. \A k \in Killers : Slot \subseteq astray' /\ cmd'[k] = cmd[k]
    BY <1>2, <1>3, <1>4 DEF Killers
  <2> QED
    BY <1>1, <1>2, <1>3, <2>1, <2>2 DEF IInv, Overlap
<1>10. Visited'
  <2> SUFFICES ASSUME NEW s \in Slot \ (astray' \cup rigs \cup {Here})
               PROVE  slot[s] = 0
    <3>1. \A k \in Killers : Slot \ astray' = {}
      BY <1>4
    <3>2. cmd'[c].todo = rigs \cup {Here}
      BY <1>1, <1>2
    <3> QED
      BY <1>3, <3>1, <3>2 DEF Visited
  <2>1. s \in Name \ astray /\ s \notin config
    BY <1>4 DEF Slot
  <2>2. \A d \in Cmd : ~ Owes(d, s)
    BY <1>4 DEF Owes, Enrollers, Enrolling
  <2> QED
    BY <2>1, <2>2 DEF IInv, Findable
<1> QED
  BY <1>5, <1>6, <1>7, <1>8, <1>9, <1>10 DEF IInv

LEMMA PanicIInv ==
  ASSUME IInv, NEW c \in Cmd, Panic(c)
  PROVE  IInv'
<1>1. PICK rigs \in SUBSET config :
        /\ cmd' = [cmd EXCEPT ![c] = Doing("panic", NoName, {}, issued, rigs \cup {Here})]
        /\ astray' = astray \cup InTheWay \cup (config \ rigs)
  BY DEF Panic
<1>2. /\ cmd[c].at = "idle" /\ UNCHANGED <<config, slot, issued, retired>>
      /\ issued \in APIKey /\ issued <= issued
  BY DEF Panic, IInv, RigsTypeOK, APIKey
<1> QED
  BY <1>1, <1>2, KillIInv DEF Killing

LEMMA RotateIInv ==
  ASSUME IInv, NEW c \in Cmd, Rotate(c)
  PROVE  IInv'
<1>1. /\ cmd' = [cmd EXCEPT ![c] = Doing("rotate", NoName, {}, issued + 1, config \cup {Here})]
      /\ astray' = astray \cup InTheWay \cup (config \ config)
      /\ cmd[c].at = "idle" /\ UNCHANGED <<config, slot, retired>> /\ issued' = issued + 1
  BY DEF Rotate
<1>2. issued + 1 \in APIKey /\ issued <= issued + 1 /\ issued + 1 > retired
  BY DEF Rotate, IInv, RigsTypeOK, Memory, APIKey
<1> QED
  BY <1>1, <1>2, KillIInv DEF Killing

-----------------------------------------------------------------------------
(* The slots, one after another, and the end.                               *)

\* A kill that visits slot s puts key k there, or finds no key, or fails.
LEMMA VisitIInv ==
  ASSUME IInv, NEW c \in Killers, NEW s \in Slot, NEW k \in APIKey,
         cmd' = [cmd EXCEPT ![c].todo = @ \ {s}],
         slot' = [slot EXCEPT ![s] = k], k \notin 1..Doomed(c),
         k # 0 => k = cmd[c].val /\ cmd[c].at = "rotate" /\ (s = Here \/ slot[s] # 0),
         \/ astray' = astray
         \/ /\ astray' = astray \ {s} /\ Killers = {c} /\ Enrollers = {}
            /\ s \in config \cup {Here} /\ k \notin 1..retired
            /\ cmd[c].at = "rotate" => cmd[c].val \notin 1..retired,
         UNCHANGED <<config, issued, retired>>
  PROVE  IInv'
<1> DEFINE r == [cmd[c] EXCEPT !.todo = @ \ {s}]
<1>1. c \in Cmd /\ cmd[c].at \in Killing /\ cmd[c] \in Command
  BY DEF Killers, IInv, RigsTypeOK, Command
<1>2. /\ r \in Command /\ r.at = cmd[c].at /\ r.val = cmd[c].val /\ r.rig = cmd[c].rig
      /\ r.todo = cmd[c].todo \ {s}
  BY <1>1 DEF Command
<1>3. /\ cmd' \in [Cmd -> Command] /\ cmd'[c] = r
      /\ \A d \in Cmd \ {c} : cmd'[d] = cmd[d]
  BY <1>1, <1>2, OneCommand DEF IInv
<1>4. /\ Enrollers' = Enrollers /\ Killers' = Killers /\ c \notin Enrollers
      /\ \A d \in Cmd : cmd'[d].at = cmd[d].at /\ cmd'[d].val = cmd[d].val /\ cmd'[d].rig = cmd[d].rig
  BY <1>1, <1>2, <1>3 DEF Enrollers, Killers, Enrolling, Killing
<1>5. /\ slot' \in [Slot -> APIKey] /\ slot'[s] = k
      /\ \A t \in Slot \ {s} : slot'[t] = slot[t]
  BY DEF IInv, RigsTypeOK
<1>6. RigsTypeOK'
  BY <1>3, <1>5 DEF IInv, RigsTypeOK, Command
<1>7. Memory'
  BY <1>4 DEF IInv, Memory
<1>8. Findable'
  <2> SUFFICES ASSUME NEW t \in Name \ astray', slot'[t] # 0, t \notin config
               PROVE  \E d \in Cmd : Owes(d, t)
    BY <1>4 DEF Findable, Owes
  <2>1. t \in Name \ astray /\ slot[t] # 0
    BY <1>5 DEF Slot
  <2> QED
    BY <2>1 DEF IInv, Findable
<1>9. Current'
  <2>1. ASSUME NEW t \in Slot \ astray'
        PROVE  slot'[t] \notin 1..retired
    <3>1. CASE t # s
      BY <1>5, <2>1, <3>1 DEF IInv, Current
    <3>2. CASE t = s /\ astray' = astray
      <4>1. k # 0 => k > retired
        BY <1>1, <3>2 DEF IInv, Overlap
      <4> QED
        BY <1>5, <3>2, <4>1 DEF IInv, RigsTypeOK, APIKey
    <3>3. CASE t = s /\ astray' # astray
      BY <1>5, <3>3
    <3> QED
      BY <3>1, <3>2, <3>3
  <2>2. ASSUME NEW d \in Cmd, cmd[d].at = "set", cmd[d].rig \notin astray'
        PROVE  cmd[d].val \notin 1..retired
    <3>1. d \in Enrollers
      BY <2>2 DEF Enrollers, Enrolling
    <3> QED
      BY <2>2, <3>1 DEF IInv, Current
  <2> QED
    BY <1>4, <2>1, <2>2 DEF Current
<1>10. Overlap'
  <2>1. CASE astray' = astray
    BY <1>4, <2>1 DEF IInv, Overlap, Killers, Enrollers
  <2>2. CASE astray' # astray
    <3>1. cmd[c].at = "rotate" => cmd[c].val > retired
      BY <1>1, <2>2 DEF IInv, RigsTypeOK, Memory, APIKey, Command
    <3> QED
      BY <1>1, <1>4, <2>2, <3>1 DEF Overlap
  <2> QED
    BY <2>1, <2>2
<1>11. Visited'
  <2> SUFFICES ASSUME NEW j \in Killers, NEW t \in Slot \ (astray' \cup cmd'[j].todo)
               PROVE  slot'[t] \notin 1..Doomed(j)
    BY <1>4 DEF Visited, Doomed, Killers
  <2>1. CASE j # c
    BY <2>1 DEF IInv, Overlap
  <2>2. CASE j = c /\ t = s
    BY <1>5, <2>2
  <2>3. CASE j = c /\ t # s
    BY <1>2, <1>3, <1>5, <2>3 DEF IInv, Visited
  <2> QED
    BY <2>1, <2>2, <2>3
<1> QED
  BY <1>6, <1>7, <1>8, <1>9, <1>10, <1>11 DEF IInv

\* A slot that could not be emptied, or read, goes astray.
LEMMA FailedIInv ==
  ASSUME IInv, NEW c \in Killers, NEW s \in Slot,
         cmd' = [cmd EXCEPT ![c].todo = @ \ {s}],
         astray' = astray \cup {s}, UNCHANGED <<config, slot, issued, retired>>
  PROVE  IInv'
<1> DEFINE r == [cmd[c] EXCEPT !.todo = @ \ {s}]
<1>1. c \in Cmd /\ cmd[c] \in Command
  BY DEF Killers, IInv, RigsTypeOK, Command
<1>2. /\ r \in Command /\ r.at = cmd[c].at /\ r.val = cmd[c].val /\ r.rig = cmd[c].rig
      /\ r.todo = cmd[c].todo \ {s}
  BY <1>1 DEF Command
<1>3. /\ cmd' \in [Cmd -> Command] /\ cmd'[c] = r
      /\ \A d \in Cmd \ {c} : cmd'[d] = cmd[d]
  BY <1>1, <1>2, OneCommand DEF IInv
<1>4. /\ Enrollers' = Enrollers /\ Killers' = Killers
      /\ \A d \in Cmd : cmd'[d].at = cmd[d].at /\ cmd'[d].val = cmd[d].val /\ cmd'[d].rig = cmd[d].rig
  BY <1>1, <1>2, <1>3 DEF Enrollers, Killers
<1>5. RigsTypeOK'
  BY <1>3 DEF IInv, RigsTypeOK, Command
<1>6. Memory' /\ Findable' /\ Current'
  BY <1>4 DEF IInv, Memory, Findable, Owes, Current
<1>7. Overlap'
  BY <1>4 DEF IInv, Overlap, Killers, Enrollers
<1>8. Visited'
  <2> SUFFICES ASSUME NEW j \in Killers, NEW t \in Slot \ (astray' \cup cmd'[j].todo)
               PROVE  slot[t] \notin 1..Doomed(j)
    BY <1>4 DEF Visited, Doomed, Killers
  <2>1. t \notin astray \cup cmd[j].todo
    BY <1>1, <1>2, <1>3 DEF Killers
  <2> QED
    BY <2>1 DEF IInv, Visited
<1> QED
  BY <1>5, <1>6, <1>7, <1>8 DEF IInv

LEMMA PanicStepIInv ==
  ASSUME IInv, NEW c \in Cmd, PanicStep(c)
  PROVE  IInv'
<1>1. PICK s \in Slot : Deleted(c, s)
  BY DEF PanicStep
<1>2. /\ c \in Killers /\ cmd[c].at = "panic" /\ UNCHANGED <<config, issued, retired>>
      /\ cmd' = [cmd EXCEPT ![c].todo = @ \ {s}]
  BY <1>1 DEF PanicStep, Deleted, Killers, Killing
<1>3. 0 \in APIKey /\ 0 \notin 1..Doomed(c) /\ 0 \notin 1..retired
  BY DEF APIKey
<1>4. CASE slot' = [slot EXCEPT ![s] = 0] /\ astray' = Recovered(c, s, 0)
  BY <1>2, <1>3, <1>4, VisitIInv DEF Recovered
<1>5. CASE astray' = astray \cup {s} /\ UNCHANGED slot
  BY <1>2, <1>5, FailedIInv
<1> QED
  BY <1>1, <1>4, <1>5 DEF Deleted

LEMMA RotateStepIInv ==
  ASSUME IInv, NEW c \in Cmd, RotateStep(c)
  PROVE  IInv'
<1>1. PICK s \in Slot : Renewed(c, s)
  BY DEF RotateStep
<1>2. /\ c \in Killers /\ cmd[c].at = "rotate" /\ UNCHANGED <<config, issued, retired>>
      /\ cmd' = [cmd EXCEPT ![c].todo = @ \ {s}]
  BY <1>1 DEF RotateStep, Renewed, Killers, Killing
<1>3. cmd[c].val \in APIKey /\ cmd[c].val # 0
  BY <1>2 DEF IInv, RigsTypeOK, Memory, Killing
<1>4. CASE /\ slot' = IF s = Here \/ slot[s] # 0 THEN [slot EXCEPT ![s] = cmd[c].val] ELSE slot
           /\ astray' = Recovered(c, s, cmd[c].val)
  <2> DEFINE k == IF s = Here \/ slot[s] # 0 THEN cmd[c].val ELSE 0
  <2>1. k \in APIKey /\ k \notin 1..Doomed(c)
    BY <1>2, <1>3 DEF Doomed, APIKey
  <2>2. slot' = [slot EXCEPT ![s] = k]
    BY <1>4 DEF IInv, RigsTypeOK
  <2>3. k # 0 => k = cmd[c].val /\ cmd[c].at = "rotate" /\ (s = Here \/ slot[s] # 0)
    BY <1>2
  <2>4. \/ astray' = astray
        \/ /\ astray' = astray \ {s} /\ Killers = {c} /\ Enrollers = {}
           /\ s \in config \cup {Here} /\ k \notin 1..retired
           /\ cmd[c].at = "rotate" => cmd[c].val \notin 1..retired
    BY <1>4 DEF Recovered
  <2> HIDE DEF k
  <2> QED
    BY <1>2, <2>1, <2>2, <2>3, <2>4, VisitIInv
<1>5. CASE astray' = astray \cup {s} /\ UNCHANGED slot
  BY <1>2, <1>5, FailedIInv
<1> QED
  BY <1>1, <1>4, <1>5 DEF Renewed

\* A kill that ends leaves no key it was to do away with, but astray; and a key on its way
\* to a slot is in its way.
LEMMA DoneIInv ==
  ASSUME IInv, NEW c \in Cmd, Done(c)
  PROVE  IInv'
<1>1. /\ c \in Killers /\ cmd[c].todo = {} /\ cmd' = [cmd EXCEPT ![c] = Idle]
      /\ retired' = IF Doomed(c) > retired THEN Doomed(c) ELSE retired
      /\ UNCHANGED <<config, slot, issued, astray>>
  BY DEF Done, Killers
<1>2. /\ cmd' \in [Cmd -> Command] /\ cmd'[c] = Idle
      /\ \A d \in Cmd \ {c} : cmd'[d] = cmd[d]
  BY <1>1, OneCommand, IdleTyping DEF IInv
<1>3. /\ Enrollers' = Enrollers /\ Killers' = Killers \ {c} /\ c \notin Enrollers
      /\ \A d \in Enrollers' \cup Killers' : cmd'[d] = cmd[d]
  BY <1>1, <1>2 DEF Enrollers, Killers, Enrolling, Killing, Idle, Doing
<1>4. Doomed(c) \in APIKey /\ Doomed(c) <= issued
  <2>1. cmd[c].val \in APIKey /\ cmd[c].val # 0 /\ cmd[c].val <= issued
    BY <1>1 DEF Killers, IInv, RigsTypeOK, Memory
  <2> QED
    BY <2>1 DEF Doomed, APIKey, IInv, RigsTypeOK
<1>5. retired' \in APIKey /\ retired' <= issued /\ retired' \in {retired, Doomed(c)}
  BY <1>1, <1>4 DEF IInv, RigsTypeOK, Memory
<1>6. RigsTypeOK'
  BY <1>1, <1>2, <1>5 DEF IInv, RigsTypeOK, Command
<1>7. Memory'
  BY <1>1, <1>2, <1>5 DEF IInv, Memory, Enrolling, Killing, Idle, Doing
<1>8. Findable'
  BY <1>1, <1>2 DEF IInv, Findable, Owes, Killers, Killing
<1>9. Current'
  <2>1. \A s \in Slot \ astray : slot[s] \notin 1..retired'
    BY <1>1, <1>5 DEF IInv, Current, Visited
  <2>2. \A d \in Cmd : cmd'[d].at # "set" \/ cmd'[d].rig \in astray
    BY <1>1, <1>2 DEF IInv, Overlap, Enrollers, Enrolling, Idle, Doing
  <2> QED
    BY <1>1, <2>1, <2>2 DEF Current
<1>10. \A k \in Killers' : Slot \subseteq astray
  BY <1>1, <1>3 DEF IInv, Overlap
<1>11. Overlap'
  BY <1>1, <1>3, <1>10 DEF IInv, Overlap
<1>12. Visited'
  BY <1>1, <1>10 DEF Visited
<1> QED
  BY <1>6, <1>7, <1>8, <1>9, <1>11, <1>12 DEF IInv

-----------------------------------------------------------------------------
(* The theorems.                                                            *)

LEMMA NextIInv == IInv /\ [RigsNext]_rigsVars => IInv'
<1> SUFFICES ASSUME IInv, [RigsNext]_rigsVars PROVE IInv'
  OBVIOUS
<1>1. CASE InitRig
  BY <1>1, WriteIInv DEF InitRig
<1>2. CASE EditByHand
  <2>1. PICK n \in config : WriteConfig(config \ {n})
    BY <1>2 DEF EditByHand
  <2> QED
    BY <1>2, <2>1, WriteIInv DEF EditByHand, IInv, RigsTypeOK
<1>3. ASSUME NEW c \in Cmd, NEW n \in Name \cup {NoName}, Load(c, n) PROVE IInv'
  BY <1>3, LoadIInv
<1>4. ASSUME NEW c \in Cmd, NEW n \in Name, EnrollRig(c, n) PROVE IInv'
  BY <1>4, EnrollIInv
<1>5. ASSUME NEW c \in Cmd, Store(c) \/ MigrateGet(c) \/ MigrateSet(c) \/ GivesUp(c) PROVE IInv'
  BY <1>5, StoreIInv, GetIInv, SetIInv, GivesUpIInv
<1>6. ASSUME NEW c \in Cmd, Panic(c) \/ PanicStep(c) \/ Rotate(c) \/ RotateStep(c) \/ Done(c)
      PROVE  IInv'
  BY <1>6, PanicIInv, PanicStepIInv, RotateIInv, RotateStepIInv, DoneIInv
<1>7. CASE UNCHANGED rigsVars
  <2>1. /\ UNCHANGED <<config, slot, cmd, issued, retired, astray>>
        /\ Enrollers' = Enrollers /\ Killers' = Killers
    BY <1>7 DEF rigsVars, Enrollers, Killers
  <2> QED
    BY <2>1 DEF IInv, RigsTypeOK, Memory, Findable, Owes, Current, Overlap, Visited, Doomed
<1> QED
  BY <1>1, <1>2, <1>3, <1>4, <1>5, <1>6, <1>7 DEF RigsNext

\* No command that runs beside others, or breaks off, leaves the file, the slots or what it
\* remembers with anything but rigs, keys and slots.
THEOREM RigsTyping == RigsSpec => []RigsTypeOK
<1>1. IInv => RigsTypeOK
  BY DEF IInv
<1> QED
  BY <1>1, InitIInv, NextIInv, PTL DEF RigsSpec

\* However many commands enrol, import, edit, rotate and panic side by side: outside the
\* slots named as astray no key survives a panic that was to destroy it, or a rotation that
\* was to replace it, and every copy can be found by its name (cmd_panic.go:317-321).
THEOREM KeysStayInReach == RigsSpec => []KeysInReach
<1>1. IInv => KeysInReach
  BY DEF IInv, KeysInReach, Findable, Current, Owes, Enrollers, Enrolling, Slot
<1> QED
  BY <1>1, InitIInv, NextIInv, PTL DEF RigsSpec

-----------------------------------------------------------------------------
(* With the audit log, its verifier and its writers.                       *)

AuditInv == ChainInv /\ RestInv /\ ReaderTypeOK /\ IInv

\* Whichever part moves, the writers, the verifier beside them and the commands on the
\* copies make a step of their own or none.
LEMMA AuditParts ==
  ASSUME [MCNext]_allVars
  PROVE  [Next]_vars /\ [NextVerify]_<<vars, readerVars>> /\ [RigsNext]_rigsVars
BY Zenon DEF MCNext, allVars, NextVerify

\* Every variable of the audit log, of a verify that runs beside its writers and of the
\* commands on the API key's copies keeps its type (AllTypeOK).
THEOREM AuditAllTyping == MCSpec => []AllTypeOK
<1>1. MCInit => AuditInv
  BY ChainInit, RestInit, ReaderInit, InitIInv DEF MCInit, InitVerify, AuditInv
<1>2. AuditInv /\ [MCNext]_allVars => AuditInv'
  <2> SUFFICES ASSUME AuditInv, [MCNext]_allVars
               PROVE  AuditInv'
    OBVIOUS
  <2>1. [Next]_vars /\ [NextVerify]_<<vars, readerVars>> /\ [RigsNext]_rigsVars
    BY AuditParts
  <2>2. ChainInv'
    BY <2>1, TypeStep, ExclusiveStep, BoundedStep, CountedStep DEF ChainInv, AuditInv
  <2>3. RestInv'
    BY <2>1, CacheKept, HandStep, AnchorStep, EntriesStep, DatedStep DEF RestInv, AuditInv
  <2>4. ReaderTypeOK' /\ IInv'
    BY <2>1, ReaderTypeStep, NextIInv DEF AuditInv
  <2> QED
    BY <2>2, <2>3, <2>4 DEF AuditInv
<1>3. AuditInv => AllTypeOK
  BY DEF AuditInv, AllTypeOK, ChainInv, IInv
<1> QED
  BY <1>1, <1>2, <1>3, PTL DEF MCSpec
=============================================================================
