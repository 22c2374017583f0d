--------------------------- MODULE MCToolGateway ---------------------------
(* Instances of ToolGateway for TLC.                                       *)
EXTENDS ToolGateway, TLC

\* Calls are interchangeable, and agents are.
Symmetry == Permutations(Requests) \cup Permutations(Agents)
=============================================================================
