----------------------------- MODULE SceneLoader ----------------------------
(****************************************************************************)
(* SceneLoader: the objects of a scene file become nodes, each with its     *)
(* parent, its world transform and a mesh shared by path; MaterialPipeline  *)
(* gives every node with a mesh a descriptor set of a pool of fixed size.   *)
(* The file is edited and the scene reloaded while the game runs, and a     *)
(* mesh may fail to load, for one object or for all that name it.           *)
(*                                                                          *)
(* Parents of a document form no circle, and a game loads a scene once or   *)
(* destroys it before it loads the next: the code recurses without end on   *)
(* the one and mixes the nodes of two scenes on the other. Values have the  *)
(* types it reads: another type throws out of the load, in the middle of    *)
(* it, and nothing there catches that. A transform is the chain of the      *)
(* nodes it is composed of. Markers, materials and bounds are copied from   *)
(* the document and left out.                                               *)
(****************************************************************************)
EXTENDS Integers, Sequences, FiniteSets, SequencesExt

CONSTANTS
    Document,    \* scene files: <<[name, parent, mesh]>>
    Unreadable,  \* a file that is not there or does not parse
    None,        \* no parent, no mesh
    PoolSize     \* maxMaterials, the sets of the material pool

ASSUME SceneLoaderAssumption ==
    /\ \A d \in Document :
          /\ Len(d) \in Nat /\ DOMAIN d = 1 .. Len(d)
          /\ \A i \in DOMAIN d : DOMAIN d[i] = {"name", "parent", "mesh"}
    /\ Unreadable \notin Document /\ PoolSize \in Nat

VARIABLES
    onDisk,      \* the scene file
    nodes,       \* m_nodes: name, parent index, world transform, mesh index
    meshes,      \* m_meshes: the path each was loaded from
    pathIndex,   \* m_meshPathToIndex
    materials,   \* m_materialSets: per node the mesh of its set, 0 for none
    sets         \* descriptor sets taken from the pool

loaderVars == <<onDisk, nodes, meshes, pathIndex, materials, sets>>

LoaderInit ==
    /\ onDisk \in Document
    /\ nodes = <<>> /\ meshes = <<>> /\ pathIndex = <<>> /\ materials = <<>> /\ sets = 0

EditScene(d) == onDisk' = d /\ UNCHANGED <<nodes, meshes, pathIndex, materials, sets>>

\* Of two objects of one name the last is the one that is found.
NameToIndex(d, name) ==
    LET named == {i \in DOMAIN d : d[i].name = name}
    IN  IF named = {} THEN 0 ELSE CHOOSE i \in named : \A j \in named : j <= i

ParentOf(d, i) == IF d[i].parent = None THEN 0 ELSE NameToIndex(d, d[i].parent)

ASSUME NoCircleAssumption ==
    \A d \in Document : \E depth \in [DOMAIN d -> DOMAIN d] :
        \A i \in DOMAIN d : ParentOf(d, i) # 0 => depth[ParentOf(d, i)] < depth[i]

World(d) ==
    LET chain[i \in DOMAIN d] ==
            IF ParentOf(d, i) = 0 THEN <<i>> ELSE Append(chain[ParentOf(d, i)], i)
    IN  chain

\* Each path once, in the order it is first needed. One that fails is tried again for
\* the next object that names it.
LoadOrShare(shared, path, fails) ==
    IF path = None \/ path \in DOMAIN shared.index \/ fails THEN shared
    ELSE [meshes |-> Append(shared.meshes, path),
          index |-> [p \in DOMAIN shared.index \cup {path} |->
                        IF p = path THEN Len(shared.meshes) + 1 ELSE shared.index[p]]]

\* The meshes after each object, when those of the objects `bad` do not load.
MeshesAfter(d, bad, had, known) ==
    LET after[n \in 0 .. Len(d)] ==
            IF n = 0 THEN [meshes |-> had, index |-> known]
            ELSE LoadOrShare(after[n - 1], d[n].mesh, n \in bad)
    IN  after

LoadObjects(d, bad, had, known) ==
    LET after == MeshesAfter(d, bad, had, known)
        world == World(d)
    IN  /\ meshes' = after[Len(d)].meshes /\ pathIndex' = after[Len(d)].index
        /\ nodes' = [i \in DOMAIN d |->
              [name |-> d[i].name, path |-> d[i].mesh, parent |-> ParentOf(d, i), world |-> world[i],
               mesh |-> IF d[i].mesh \in DOMAIN after[i].index THEN after[i].index[d[i].mesh] ELSE 0]]

LoadFromFile ==
    /\ nodes = <<>>
    /\ IF onDisk = Unreadable THEN UNCHANGED <<nodes, meshes, pathIndex>>
       ELSE \E bad \in SUBSET DOMAIN onDisk :
               LoadObjects(onDisk, bad, meshes, pathIndex)
    /\ UNCHANGED <<onDisk, materials, sets>>

\* Mutant: the paths outlive the meshes they stand for.
PathsKept == pathIndex
PathsCleared == <<>>

\* Everything goes before anything is read: a file that does not parse leaves
\* nothing, and no new materials are built.
Reload ==
    /\ materials' = <<>>
    /\ IF onDisk = Unreadable
         THEN nodes' = <<>> /\ meshes' = <<>> /\ pathIndex' = PathsCleared
         ELSE \E bad \in SUBSET DOMAIN onDisk :
                 LoadObjects(onDisk, bad, <<>>, PathsCleared)
    /\ UNCHANGED <<onDisk, sets>>

\* The sets of destroyed materials stay with the pool, which runs out.
BuildMaterials ==
    LET wanted == {i \in DOMAIN nodes : nodes[i].mesh # 0}
        served == {i \in wanted : sets + Cardinality({j \in wanted : j <= i}) <= PoolSize}
    IN  /\ materials' = [i \in DOMAIN nodes |-> IF i \in served THEN nodes[i].mesh ELSE 0]
        /\ sets' = sets + Cardinality(served)
        /\ UNCHANGED <<onDisk, nodes, meshes, pathIndex>>

Destroy ==
    /\ nodes' = <<>> /\ meshes' = <<>> /\ pathIndex' = PathsCleared /\ materials' = <<>>
    /\ UNCHANGED <<onDisk, sets>>

LoaderNext ==
    \/ \E d \in Document \cup {Unreadable} : EditScene(d)
    \/ LoadFromFile \/ Reload \/ BuildMaterials \/ Destroy

-----------------------------------------------------------------------------
(* Properties *)

\* Through edits, failed loads, reloads and rebuilds every node stands on its
\* parent, shows the mesh of its own path, loaded once, and has no material but
\* one of that mesh (loadFromFile 49-187, reload, destroy, loadOrShareMesh 393-409).
SceneStands ==
    /\ \A i \in DOMAIN nodes :
        /\ nodes[i].parent = 0 \/ nodes[i].world = Append(nodes[nodes[i].parent].world, i)
        /\ nodes[i].mesh # 0 => nodes[i].mesh \in DOMAIN meshes /\ meshes[nodes[i].mesh] = nodes[i].path
    /\ IsInjective(meshes)
    /\ materials # <<>> =>
        /\ DOMAIN materials = DOMAIN nodes
        /\ \A i \in DOMAIN nodes : materials[i] \in {0, nodes[i].mesh}
=============================================================================
