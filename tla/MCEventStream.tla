----------------------------- MODULE MCEventStream -----------------------------
(* Instances of EventStream for TLC. *)
EXTENDS EventStream, TLC

(* Other threads and pages are interchangeable. *)
Symmetry == Permutations(Others) \cup Permutations(Pages)
=============================================================================
