---------------------------- MODULE MCReplication ----------------------------
(* The instance of Replication for TLC. *)
EXTENDS Replication

Set(e, ty, patch) ==
    [kind |-> "SetField", entity |-> e, type |-> ty, patch |-> patch,
     wellFormed |-> TRUE, scope |-> "Editor"]

Only(f, v) == [g \in {f} |-> v]

\* Edits of one field each of the first avatar's pose.
EditRequests ==
    {Set(FirstAvatarId, "NetTransform", Only(f, 1)) : f \in Fields}

\* Bound: either two clients come and go around a cube that stands still, or
\* the only one edits its avatar.
OneOfEach ==
    nextClientId' <= 2 \/ (received' = 0 /\ ents'[CubeId].pose = Fresh)

MCSpec == RInit /\ [][RNext /\ OneOfEach]_allVars
=============================================================================
