------------------------------ MODULE MCAudit ------------------------------
(* What the commands keep in files and in the keychain.  The audit log: its *)
(* writers alone, on the larger instance with one content or on a smaller   *)
(* one with several; or, on the smaller, the writers beside Verify, which   *)
(* takes no lock (AuditVerify).  The copies of the API key (Rigs), which    *)
(* share no state with it.  What a behaviour shows is chosen at its start.  *)
EXTENDS AuditVerify, Rigs

CONSTANTS
  Beside,      \* the writers beside Verify
  BesideLog,   \* the entries at which one of them may still start
  Enroller,    \* the one command that enrolls
  Enrolled     \* the rigs it does enroll

VARIABLE part

allVars == <<part, vars, readerVars, rigsVars>>

\* The smaller instances: one rotation, one fault.  Verify is beside some of the writers.
SmallStep ==
  /\ fails' <= 1
  /\ holder = Nobody /\ holder' # Nobody /\ TailEpoch <= pointer => Len(log) < BesideLog
  /\ \A p \in Proc : pc'[p] = "rotate" => pointer = 1
BesideStep == SmallStep /\ \A p \in Proc \ Beside : pc'[p] = pc[p]

\* The larger instance and the one with Verify write one content over and over, the
\* other small one all of them.
OneContent == \A p \in Proc : val'[p] \in {0, CHOOSE v \in Version : TRUE}

\* The instance of Rigs: one command enrolls, and some rigs only, the others panic,
\* rotate, import rigs and write the file otherwise.
Roles ==
  \A c \in Cmd :
    /\ cmd'[c].at \in Enrolling => c = Enroller /\ cmd'[c].rig \in Enrolled
    /\ cmd'[c].at \in Killing \cup {"write"} => c # Enroller

MCInit == part \in {"write", "contents", "verify", "rigs"} /\ InitVerify /\ RigsInit

MCNext ==
  /\ UNCHANGED part
  /\ \/ part = "write" /\ Next /\ OneContent /\ UNCHANGED <<readerVars, rigsVars>>
     \/ part = "contents" /\ Next /\ SmallStep /\ UNCHANGED <<readerVars, rigsVars>>
     \/ part = "verify" /\ VerifyStep /\ UNCHANGED <<vars, rigsVars>>
     \/ part = "verify" /\ Next /\ BesideStep /\ OneContent /\ UNCHANGED <<readerVars, rigsVars>>
     \/ part = "rigs" /\ RigsNext /\ Roles /\ UNCHANGED <<vars, readerVars>>

\* The fairness is that of the writers on the larger instance: the smaller ones,
\* which hold writers back, have no fair behaviour and are there for safety.
MCSpec == MCInit /\ [][MCNext]_allVars /\ Fairness

\* The type invariants of all.
AllTypeOK == TypeOK /\ ReaderTypeOK /\ RigsTypeOK
=============================================================================
