---------------------------- MODULE MCAgentQueue ----------------------------
(* Instances of AgentQueue for TLC.                                        *)
EXTENDS AgentQueue, TLC

CONSTANTS m1, m2, m3, m4, sA, sB, x1, g1, k1, k2

OneSession == [p \in Prompts |-> sA]
TwoSessions == [p \in Prompts |-> IF p = m4 THEN sB ELSE sA]
=============================================================================
