----------------------------- MODULE MCDeadman -----------------------------
(* Small instances of Deadman: two arm invocations, two process-group ids. *)
EXTENDS Deadman, TLC

\* The invocations are interchangeable, and so are the pgids.  Used by runs
\* without temporal properties only.
Symmetry == Permutations(Run) \cup Permutations(Pgid)
=============================================================================
