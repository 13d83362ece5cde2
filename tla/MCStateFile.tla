----------------------------- MODULE MCStateFile -----------------------------
(* Instances of StateFile for TLC.                                         *)
EXTENDS StateFile

CONSTANTS w1, w2, q1, q2, x, y

OneProcess == [w \in Writers |-> q1]
TwoProcesses == [w \in Writers |-> IF w = w1 THEN q1 ELSE q2]
=============================================================================
