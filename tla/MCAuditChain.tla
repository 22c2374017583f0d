---------------------------- MODULE MCAuditChain ----------------------------
(* Instances of AuditChain for TLC.                                        *)
EXTENDS AuditChain

\* The processes are interchangeable.
Symmetry == Permutations(Procs)
=============================================================================
