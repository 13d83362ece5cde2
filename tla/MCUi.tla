-------------------------------- MODULE MCUi --------------------------------
(* Instances of UiTurns for TLC.                                           *)
EXTENDS UiTurns, TLC

CONSTANTS p1, p2, p3

(* Prompts whose turn streams no text are alike.                           *)
Symmetry == Permutations(Prompts \ Streamed)
=============================================================================
