------------------------------ MODULE MCEvidence ------------------------------
(* Instances of Evidence for TLC. *)
EXTENDS Evidence, TLC

(* Documents, uploads and workers are interchangeable. *)
Symmetry == Permutations(Docs) \cup Permutations(Uploads) \cup Permutations(Workers)
=============================================================================
