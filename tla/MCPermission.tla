---------------------------- MODULE MCPermission ----------------------------
(* Instances of Permission for TLC: two files of one directory, a secret,  *)
(* and targets the default policy allows or denies.                        *)
EXTENDS Permission

CONSTANTS a1, a2, a3, f1, f2, secret, inside, network

TargetOf == [a \in Asks |-> CASE a = a1 -> f1 [] a = a2 -> f2 [] OTHER -> secret]
PolicyTargetOf ==
  [a \in Asks |-> CASE a = a1 -> secret [] a = a2 -> inside [] OTHER -> network]

(* A file that exists is promoted to its directory, one that does not is   *)
(* kept.                                                                   *)
Directory == [t \in Targets |->
                IF t \in {f1, f2} THEN {{t}, {f1, f2}} ELSE {{t}}]
ThreeWays == [t \in Targets |-> CASE t = inside -> "allow"
                                  [] t = network -> "deny"
                                  [] OTHER -> "ask"]
=============================================================================
