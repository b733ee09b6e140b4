----------------------------- MODULE MCGovernor -----------------------------
(* Instances of Governor for model checking.                               *)
EXTENDS Governor, TLC

CONSTANTS j1, j2, j3

Wave == {j1, j2, j3}
WaveSymmetry == Permutations(Wave)
=============================================================================
