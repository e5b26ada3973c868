---------------------------- MODULE MCPublicPage ----------------------------
(* Instances of PublicPage for TLC. *)
EXTENDS PublicPage, TLC

CONSTANTS v1, v2, o1, o2, b1, b2

Symmetry == Permutations(Readers) \cup Permutations(Owners) \cup Permutations(Crawlers)
=============================================================================
