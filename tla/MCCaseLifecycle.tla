--------------------------- MODULE MCCaseLifecycle ---------------------------
(* Instances of CaseLifecycle for TLC. *)
EXTENDS CaseLifecycle, TLC

AllOps == {"submit", "respond", "skip", "review", "run", "mediate", "decide",
           "reset"}

(* What works on a case at once with its jobs. *)
RacingOps == {"respond", "skip", "run", "mediate", "decide"}

(* What happens to a case the other party never hears of. *)
UncontestedOps == AllOps \ {"respond", "skip"}

(* Request threads, workers, submissions and reviewers are interchangeable. *)
Symmetry ==
    Permutations(Requests) \cup Permutations(Workers) \cup
    Permutations(Submissions) \cup Permutations(Reviewers)
=============================================================================
