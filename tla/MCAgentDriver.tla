--------------------------- MODULE MCAgentDriver ---------------------------
(* AgentDriver for TLC.                                                    *)
EXTENDS AgentDriver

CONSTANTS n1, t1, t2, g1, g2, c1
=============================================================================
