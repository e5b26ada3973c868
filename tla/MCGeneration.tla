---------------------------- MODULE MCGeneration ----------------------------
(* Instances of Generation for TLC. *)
EXTENDS Generation, TLC

CONSTANTS p1, p2, p3, r1, r2, r3, q1, q2, w1, w2

MCTemplates == {"aurora", "minimal", "cyber"}
MCFreeTemplates == {"aurora"}

(* Every resume carries a name of its own. *)
MCSlugOf == [r \in Resumes |-> r]

(* The parser found no name in r2. *)
MCSlugOfNameless == [MCSlugOf EXCEPT ![r2] = None]

Symmetry == Permutations(Portfolios) \cup Permutations(Resumes)
              \cup Permutations(Requests) \cup Permutations(Workers)
=============================================================================
