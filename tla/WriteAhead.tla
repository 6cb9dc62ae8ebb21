----------------------------- MODULE WriteAhead -----------------------------
(***************************************************************************)
(* What internal/audit promises of an audited file: a content is recorded  *)
(* before the file takes it, and the file takes the newest record only.    *)
(* A record whose write never happened stays a record.                     *)
(***************************************************************************)
EXTENDS Naturals

CONSTANT Version    \* contents the file may be given

VARIABLES records,  \* how many contents have been recorded
          newest,   \* the one recorded last, 0 when there is none
          file      \* the content of the file, 0 when there is none

Init == records = 0 /\ newest = 0 /\ file = 0

Record(v) == records' = records + 1 /\ newest' = v /\ UNCHANGED file

Apply ==
  /\ records > 0
  /\ file' = newest
  /\ UNCHANGED <<records, newest>>

Next == Apply \/ \E v \in Version : Record(v)

Spec == Init /\ [][Next]_<<records, newest, file>>
=============================================================================
