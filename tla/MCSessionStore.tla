--------------------------- MODULE MCSessionStore ---------------------------
(* An instance of SessionStore for TLC.                                    *)
EXTENDS SessionStore, TLC

CONSTANTS r, sA, sB, w1, w2, k1, k2

(* The sessions that may be created, the writers and the compactors are    *)
(* alike: no definition names one of them.                                 *)
Symmetry == Permutations({sA, sB}) \cup Permutations({w1, w2})
              \cup Permutations({k1, k2})
=============================================================================
