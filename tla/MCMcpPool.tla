----------------------------- MODULE MCMcpPool -----------------------------
(* McpPool for TLC.                                                        *)
EXTENDS McpPool

CONSTANTS k1, k2, c1, c2
=============================================================================
