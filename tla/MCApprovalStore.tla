-------------------------- MODULE MCApprovalStore --------------------------
(* Instances of ApprovalStore for TLC.                                     *)
EXTENDS ApprovalStore, TLC

\* Processes and inodes are interchangeable.
Symmetry == Permutations(Users) \cup Permutations(Inodes)
=============================================================================
