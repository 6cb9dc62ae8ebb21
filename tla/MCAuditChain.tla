---------------------------- MODULE MCAuditChain ----------------------------
(* AuditChain for TLC: processes are model values, interchangeable.        *)
EXTENDS AuditChain, TLC

Symmetry == Permutations(SignedProc) \cup Permutations(PlainProc)
=============================================================================
