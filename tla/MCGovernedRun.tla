--------------------------- MODULE MCGovernedRun ---------------------------
(* Instances of GovernedRun for model checking.                            *)
EXTENDS GovernedRun

CONSTANTS j1, j2, j3, j4

Solo == {j1}
Alone == [j \in Solo |-> {}]

(* Three jobs contend for the slots and a small cap; j4 waits for them.    *)
Quad == {j1, j2, j3, j4}
QuadFork == [j \in Quad |-> IF j = j4 THEN {j1, j2, j3} ELSE {}]
=============================================================================
