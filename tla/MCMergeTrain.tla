---------------------------- MODULE MCMergeTrain ----------------------------
(* Instances of MergeTrain for model checking.                             *)
EXTENDS MergeTrain, TLC

CONSTANTS p1, p2, merger, observer, ann

Interchangeable == Permutations(PRs)
=============================================================================
