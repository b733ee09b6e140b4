------------------------- MODULE MCAddressOwnership -------------------------
(* Instances of AddressOwnership for TLC. *)
EXTENDS AddressOwnership, TLC

\* The owners are created alike.
Interchangeable == Permutations(Owners)

=============================================================================
