---------------------------- MODULE AuditVerify ----------------------------
(***************************************************************************)
(* audit.Verify beside the writers of AuditChain.  It takes no lock: it    *)
(* reads the log, then the epoch pointer and its key, walks the chain with *)
(* the keys it fetches on the way, then reads the anchor, then the         *)
(* counter, and the writers go on in between.                              *)
(***************************************************************************)
EXTENDS AuditChain

VARIABLES
  vpc,      \* what Verify reads next, "idle" between two calls
  vlen,     \* the entries it has read: the log is append-only, so a prefix
  vptr,     \* the epoch pointer it has read
  vkey,     \* whether that epoch had a key
  verdict,  \* of the call in progress or, when idle, of the last one
  began     \* history: the anchor that was there when that call began

readerVars == <<vpc, vlen, vptr, vkey, verdict, began>>
Alarms == {"broken", "forged anchor", "no anchor", "cut at rotation", "truncated"}

ReaderTypeOK ==
  /\ vpc \in {"idle", "pointer", "walk", "anchor", "counter"}
  /\ vlen \in 0..Len(log) /\ vptr \in Epoch /\ vkey \in BOOLEAN
  /\ verdict \in Alarms \cup {"none", "valid"} /\ began \in [count : Nat, epoch : Epoch, key : Key]

InitVerify ==
  /\ Init
  /\ vpc = "idle" /\ vlen = 0 /\ vptr = 1 /\ vkey = FALSE /\ verdict = "none"
  /\ began = NoAnchor

-----------------------------------------------------------------------------

\* scanRawAndEntries
ReadLog ==
  /\ vpc = "idle"
  /\ vpc' = "pointer" /\ vlen' = Len(log) /\ verdict' = "none"
  /\ began' = anchor
  /\ UNCHANGED <<vptr, vkey>>

\* readEpochPointer and the pointer epoch's key
ReadPointer ==
  /\ vpc = "pointer"
  /\ vpc' = "walk" /\ vptr' = pointer /\ vkey' = (keys[pointer] # 0)
  /\ UNCHANGED <<vlen, verdict, began>>

Answer(v) == vpc' = "idle" /\ verdict' = v

\* walkChain, then V5
WalkChain ==
  LET l == SubSeq(log, 1, vlen)
  IN /\ vpc = "walk"
     /\ \/ ~Walks(l, vkey) /\ Answer("broken")
        \/ Walks(l, vkey) /\ ~ReachesPointer(l, vptr, vkey) /\ Answer("cut at rotation")
        \/ /\ Walks(l, vkey) /\ ReachesPointer(l, vptr, vkey)
           /\ vpc' = "anchor" /\ UNCHANGED verdict
     /\ UNCHANGED <<vlen, vptr, vkey, began>>

\* verifyAnchor: without a key an anchor is not judged; a count ahead of the log
\* marks the result and the counter is read all the same.
ReadAnchor ==
  /\ vpc = "anchor"
  /\ \/ ~AnchorExists(vkey, anchor) /\ Answer("no anchor")
     \/ ~vkey /\ anchor # NoAnchor /\ Answer("valid")
     \/ /\ AnchorExists(vkey, anchor) /\ ~AnchorSigned(vkey, anchor)
        /\ Answer("forged anchor")
     \/ /\ vkey = (anchor # NoAnchor) /\ AnchorSigned(vkey, anchor)
        /\ vpc' = "counter"
        /\ verdict' = IF anchor.count > vlen THEN "truncated" ELSE "valid"
  /\ UNCHANGED <<vlen, vptr, vkey, began>>

\* verifyCounter: only a counter ahead of the log is a verdict.
ReadCounter ==
  /\ vpc = "counter"
  /\ Answer(IF counter > vlen THEN "truncated" ELSE verdict)
  /\ UNCHANGED <<vlen, vptr, vkey, began>>

VerifyStep == ReadLog \/ ReadPointer \/ WalkChain \/ ReadAnchor \/ ReadCounter

NextVerify ==
  \/ VerifyStep /\ UNCHANGED vars
  \/ Next /\ UNCHANGED readerVars

SpecVerify == InitVerify /\ [][NextVerify]_<<vars, readerVars>>

-----------------------------------------------------------------------------
(* Properties.                                                             *)

\* A verify that overlaps writers, rotations and crashes may find the log short but
\* never calls it broken or its anchor forged: every prefix of the log walks under the
\* keys the keychain has by then, and every anchor is signed by the key it names.  Nor
\* does it take the anchor for deleted, unless it began before there was a first one.
OverlapNeverTampered ==
  ~Misdated => /\ verdict \notin {"broken", "forged anchor"}
               /\ verdict = "no anchor" => began = NoAnchor
=============================================================================
