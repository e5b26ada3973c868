---------------------------- MODULE MCRateLimit -----------------------------
(* Instances of RateLimit for TLC. *)
EXTENDS RateLimit, TLC

CONSTANTS e1, e2, q1, q2, q3

(* 5, 10 and 20 failures for 15 min, 1 h and 24 h, scaled down.               *)
MCThreshold == <<1, 3, 5>>
MCBan == <<2, 4, 9>>

Symmetry == Permutations(Requests)
=============================================================================
