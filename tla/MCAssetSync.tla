---------------------------- MODULE MCAssetSync ------------------------------
(* Small instances of AssetSync for TLC. *)
EXTENDS AssetSync, TLC

\* Clients are told apart by nothing but what they do.
Symmetry == Permutations(Client)
=============================================================================
