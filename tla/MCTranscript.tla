---------------------------- MODULE MCTranscript ----------------------------
(* Instances of Transcript for TLC.                                        *)
EXTENDS Transcript

CONSTANTS s1, s2, c1, c2, c3

Caller == [c \in Calls |-> IF c = c3 THEN s2 ELSE Root]
Sub == [c \in Calls |-> CASE c = c1 -> s1 [] c = c2 -> s2 [] OTHER -> None]
Text1(id) == IF id \in {<<Root, 4>>, <<s1, 2>>} THEN 1 ELSE 0
Stored1 == [s \in Sessions |-> IF s = Root THEN 4 ELSE 2]
=============================================================================
