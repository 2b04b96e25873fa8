-------------------------- MODULE MCProposalLifecycle --------------------------
(* Small instances of ProposalLifecycle for TLC.                               *)
EXTENDS ProposalLifecycle, TLC

(* Proposals, and review workers, are interchangeable.                         *)
Symmetry == Permutations(Proposals) \cup Permutations(Workers)
================================================================================
