---------------------------- MODULE SharedWorld -----------------------------
(****************************************************************************)
(* What the server promises about the world its clients share, without      *)
(* connections, loops, messages or logs: entities come and go, an entity    *)
(* belongs to the server or to one participant for as long as it lives, its *)
(* identity is never given out again, and one step moves one entity. A      *)
(* participant's entity is set to any pose, or back to a pose it has held;  *)
(* only the cube moves by itself.                                           *)
(****************************************************************************)
EXTENDS Naturals

CONSTANTS Cube, SpawnPose, Pose,
    Id,       \* entity ids
    Owner     \* participants

VARIABLES
    entities,   \* entity id -> [owner, pose]; owner 0 is the server
    issued,     \* ids ever given out
    held        \* entity id -> the poses it has been given

vars == <<entities, issued, held>>

Init ==
    /\ entities = [e \in {Cube} |-> [owner |-> 0, pose |-> SpawnPose]]
    /\ issued \subseteq Id /\ Cube \in issued
    /\ held = [e \in {Cube} |-> {SpawnPose}]

Join(e, owner) ==
    /\ e \notin issued
    /\ \A x \in DOMAIN entities : entities[x].owner # owner
    /\ entities' = [x \in DOMAIN entities \cup {e} |->
                       IF x = e THEN [owner |-> owner, pose |-> SpawnPose]
                                ELSE entities[x]]
    /\ issued' = issued \cup {e}
    /\ held' = [x \in DOMAIN held \cup {e} |-> IF x = e THEN {SpawnPose} ELSE held[x]]

Leave(e) ==
    /\ e \in DOMAIN entities \ {Cube}
    /\ entities' = [x \in DOMAIN entities \ {e} |-> entities[x]]
    /\ held' = [x \in DOMAIN held \ {e} |-> held[x]]
    /\ UNCHANGED issued

\* An edit of its owner: to any pose, which it has held from then on.
Edit(e, pose) ==
    /\ e \in DOMAIN entities \ {Cube}
    /\ entities' = [entities EXCEPT ![e].pose = pose]
    /\ held' = [held EXCEPT ![e] = @ \cup {pose}]
    /\ UNCHANGED issued

\* An undo or a redo of its owner: back to a pose it has held.
Restore(e, pose) ==
    /\ e \in DOMAIN entities \ {Cube}
    /\ pose \in held[e]
    /\ entities' = [entities EXCEPT ![e].pose = pose]
    /\ UNCHANGED <<issued, held>>

Animate(pose) ==
    /\ entities' = [entities EXCEPT ![Cube].pose = pose]
    /\ UNCHANGED <<issued, held>>

Next ==
    \/ \E e \in Id, owner \in Owner : Join(e, owner)
    \/ \E e \in DOMAIN entities : Leave(e)
    \/ \E e \in DOMAIN entities, pose \in Pose : Edit(e, pose) \/ Restore(e, pose)
    \/ \E pose \in Pose : Animate(pose)

Spec == Init /\ [][Next]_vars
=============================================================================
