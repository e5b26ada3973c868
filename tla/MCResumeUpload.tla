--------------------------- MODULE MCResumeUpload ---------------------------
(* Instances of ResumeUpload for TLC. *)
EXTENDS ResumeUpload

CONSTANTS r1, r2, w1, w2, d1, d2
=============================================================================
