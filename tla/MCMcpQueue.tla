----------------------------- MODULE MCMcpQueue -----------------------------
(* McpQueue for TLC: four episodes, the last in a group of its own.        *)
EXTENDS McpQueue, TLC

CONSTANTS j1, j2, j3, j4, g1, g2

MCGroupOf == [j \in Job |-> IF j = j4 THEN g2 ELSE g1]
=============================================================================
