---------------------------- MODULE MCServerDisk -----------------------------
(* Small instances of ServerDisk for TLC. *)
EXTENDS ServerDisk, TLC

Symmetry == Permutations(Name)
=============================================================================
