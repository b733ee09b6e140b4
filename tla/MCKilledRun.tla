---------------------------- MODULE MCKilledRun -----------------------------
(* An instance of KilledRun for model checking.                            *)
EXTENDS KilledRun

CONSTANTS j1, j2

Pair == {j1, j2}
Solo == {j1}
=============================================================================
