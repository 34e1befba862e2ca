--------------------------- MODULE MCEditorBridge ----------------------------
(* Small instances of EditorBridge for TLC. *)
EXTENDS EditorBridge, TLC

Symmetry == Permutations(Editor)

Uploads == <<"asset">>
Requests == <<"move", "light">>
=============================================================================
