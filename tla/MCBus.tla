-------------------------------- MODULE MCBus --------------------------------
(* An instance of Bus for TLC: one publisher of three events, two          *)
(* subscriptions of one event type that buffer two events each, one        *)
(* Bus.Close.  Two events may be queued and the third dropped, or sent     *)
(* after one was received.  BusProofs covers any number of each.           *)
EXTENDS Bus

CONSTANTS p1, s1, s2, t1, c1

OneType == [s \in Subs |-> t1]
=============================================================================
