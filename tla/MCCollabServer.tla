--------------------------- MODULE MCCollabServer ---------------------------
(* Small instances of CollabServer for TLC. *)
EXTENDS CollabServer

Set(e, ty, v) ==
    [kind |-> "SetField", entity |-> e, type |-> ty,
     patch |-> [f \in Fields |-> v], wellFormed |-> TRUE, scope |-> "Viewer"]

Plain(kind) ==
    [kind |-> kind, entity |-> 0, type |-> "NetTransform",
     patch |-> [f \in {} |-> 0], wellFormed |-> TRUE, scope |-> "Editor"]

\* Two clients that both try to move the first avatar, undo and redo.
CoreRequests == {Set(FirstAvatarId, "NetTransform", 1), Plain("Undo"), Plain("Redo")}

\* One of every other outcome: an edit, a new parent, a light, an edit above
\* its sender's scope, and a frame that does not parse.
LiveRequests ==
    {Set(FirstAvatarId, "NetTransform", 1), Set(FirstAvatarId, "ParentLink", 1),
     Set(CubeId, "Light", 1),
     [Set(FirstAvatarId, "NetTransform", 1) EXCEPT !.scope = "Admin"],
     Plain("Unparsable")}
=============================================================================
