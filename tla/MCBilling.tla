----------------------------- MODULE MCBilling ------------------------------
(* Instances of Billing for TLC. *)
EXTENDS Billing, TLC

CONSTANTS h1, h2, k1, c1, c2, s1, s2

Symmetry == Permutations(Handlers) \cup Permutations(Customers)
              \cup Permutations(Subs)
=============================================================================
