--------------------------- MODULE MCNonceLedger ---------------------------
(* Instances of NonceLedger for model checking.                            *)
EXTENDS NonceLedger, TLC

CONSTANTS p1, p2, n1, n2

Users == {p1, p2}
Tokens == {n1, n2}
Symmetric == Permutations(Users) \union Permutations(Tokens)
=============================================================================
