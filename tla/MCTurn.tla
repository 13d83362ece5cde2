------------------------------- MODULE MCTurn -------------------------------
(* Instances of Turn for TLC.                                              *)
EXTENDS Turn

CONSTANTS a, b, h1, h2
=============================================================================
