--------------------------- MODULE MCAddressPages ---------------------------
(* Small instances of AddressPages. *)
EXTENDS AddressPages, TLC

\* Addresses differ only by their ids.
AddressSymmetry == Permutations(Addresses)
=============================================================================
