----------------------------- MODULE Pipelines -----------------------------
(****************************************************************************)
(* PipelineRegistry, the PipelineCache it saves between runs, and VkShader: *)
(* pipelines are built when they are first asked for, of shaders compiled   *)
(* from files that somebody edits while the game runs, and are dropped when *)
(* a shader is invalidated. A shader of a pass polls its own file instead.  *)
(*                                                                          *)
(* A shader is the number of the edit it was compiled from, 0 for none, and *)
(* a file's write time is the number of its last edit. A pipeline is what   *)
(* each stage was compiled from; the fixed-function state of a description  *)
(* is its key. The driver's blob is the GPU it was made by. An included     *)
(* file is taken as a part of the file that includes it.                    *)
(*                                                                          *)
(* Bound: MaxEdits edits in a run.                                          *)
(****************************************************************************)
EXTENDS Integers, FiniteSets

CONSTANTS
    Path,        \* shader files
    Watched,     \* the file of the shader that polls
    Graphics,    \* GraphicsPipelineDesc: [vert, frag, tesc, tese, key], NoStage
    Compute,     \* ComputePipelineDesc: [comp, key]
    Hash,        \* description -> bucket of the hash map
    NoStage,     \* an empty path
    Gpu,         \* vendor, device and pipelineCacheUUID
    MaxEdits

ASSUME PipelinesAssumption ==
    /\ Watched \in Path /\ NoStage \notin Path /\ MaxEdits \in Nat
    /\ \A d \in Graphics : {d.vert, d.frag} \subseteq Path /\ {d.tesc, d.tese} \subseteq Path \cup {NoStage}
    /\ \A d \in Compute : d.comp \in Path
    /\ \A d \in Graphics : DOMAIN d = {"vert", "frag", "tesc", "tese", "key"}
    /\ \A d \in Compute : DOMAIN d = {"comp", "key"}
    /\ Graphics \cup Compute \subseteq DOMAIN Hash

VARIABLES
    source,      \* the files: [edit, compiles]
    edits,       \* how often somebody wrote one of them
    told,        \* history: files unchanged since the start or their last invalidation
    gpu,         \* the GPU of the run, or "off"
    modules,     \* m_shaderCache: path -> shader
    graphics,    \* m_graphicsCache: bucket -> description and what it is built of
    compute,     \* m_computeCache, the same
    cache,       \* VkPipelineCache: the GPUs whose data it holds
    blob,        \* the file of it: a GPU, or "missing"
    watched      \* the VkShader of a pass: module, m_lastModified, where it is

pipelineVars == <<source, edits, told, gpu, modules, graphics, compute, cache, blob, watched>>
registryVars == <<modules, graphics, compute>>
diskVars == <<gpu, cache, blob>>

Empty == [x \in {} |-> 0]
Unloaded == [module |-> 0, stamp |-> 0, at |-> "idle", overtaken |-> FALSE]
Running == gpu # "off"

PipelinesInit ==
    /\ source \in [Path -> [edit: {1}, compiles: BOOLEAN]]
    /\ edits = 1 /\ told = Path /\ gpu = "off"
    /\ modules = Empty /\ graphics = Empty /\ compute = Empty
    /\ cache = {} /\ blob \in Gpu \cup {"missing"} /\ watched = Unloaded

EditShader(p) ==
    /\ edits <= MaxEdits /\ edits' = edits + 1
    /\ \E ok \in BOOLEAN : source' = [source EXCEPT ![p] = [edit |-> edits', compiles |-> ok]]
    /\ told' = told \ {p}
    /\ watched' = [watched EXCEPT !.overtaken = @ \/ (p = Watched /\ watched.at = "loading")]
    /\ UNCHANGED <<registryVars, diskVars>>

-----------------------------------------------------------------------------
(* Shaders *)

\* loadFromFile: what the file compiles to now.
CompiledFrom(p) == IF source[p].compiles THEN source[p].edit ELSE 0

\* getOrLoadShader caches by path what loads; what fails is tried again.
ModuleOf(p) == IF p \in DOMAIN modules THEN modules[p] ELSE CompiledFrom(p)
WithLoaded(paths) ==
    LET loaded == {p \in paths \ DOMAIN modules : CompiledFrom(p) # 0}
    IN  [p \in DOMAIN modules \cup loaded |-> ModuleOf(p)]

-----------------------------------------------------------------------------
(* Pipelines *)

With(map, key, value) == [k \in DOMAIN map \cup {key} |-> IF k = key THEN value ELSE map[k]]

Tessellated(d) == NoStage \notin {d.tesc, d.tese}
StagesOf(d) == {d.vert, d.frag} \cup (IF Tessellated(d) THEN {d.tesc, d.tese} ELSE {})

\* Without both its tessellation shaders a pipeline is built without either.
\* The shaders of the tessellation are loaded only when the others were.
BuildGraphics(d) ==
    LET tess == Tessellated(d) /\ ModuleOf(d.tesc) # 0 /\ ModuleOf(d.tese) # 0
    IN  [p \in StagesOf(d) |-> IF p \in {d.vert, d.frag} \/ tess THEN ModuleOf(p) ELSE 0]

\* A description whose bucket holds another is built again and takes its place;
\* the driver may refuse to create it.
GetGraphics(d) ==
    LET b == Hash[d]
        ok == ModuleOf(d.vert) # 0 /\ ModuleOf(d.frag) # 0
    IN  /\ Running /\ ~(b \in DOMAIN graphics /\ graphics[b].desc = d)
        /\ modules' = WithLoaded(IF ok THEN StagesOf(d) ELSE {d.vert, d.frag})
        /\ \/ /\ ok
              /\ graphics' = With(graphics, b, [desc |-> d, built |-> BuildGraphics(d)])
              /\ cache' = cache \cup {gpu}
           \/ UNCHANGED <<graphics, cache>>
        /\ UNCHANGED <<source, edits, told, gpu, compute, blob, watched>>

GetCompute(d) ==
    LET b == Hash[d] IN
    /\ Running /\ ~(b \in DOMAIN compute /\ compute[b].desc = d)
    /\ modules' = WithLoaded({d.comp})
    /\ \/ /\ ModuleOf(d.comp) # 0
          /\ compute' = With(compute, b, [desc |-> d, built |-> [p \in {d.comp} |-> ModuleOf(p)]])
       \/ UNCHANGED compute
    /\ UNCHANGED <<source, edits, told, graphics, diskVars, watched>>

\* Mutant: tessellation shaders are forgotten.
UsesToDraw(entry, p) == p \in {entry.desc[s] : s \in DOMAIN entry.desc \ {"key", "tesc", "tese"}}
UsesShader(entry, p) == p \in {entry.desc[s] : s \in DOMAIN entry.desc \ {"key"}}

Without(map, p) == [b \in {k \in DOMAIN map : ~UsesShader(map[k], p)} |-> map[b]]

\* A module that does not compile any more stays in the map as a null handle.
InvalidateShader(p) ==
    /\ Running
    /\ graphics' = Without(graphics, p) /\ compute' = Without(compute, p)
    /\ modules' = [q \in DOMAIN modules |-> IF q = p THEN CompiledFrom(p) ELSE modules[q]]
    /\ told' = told \cup {p}
    /\ UNCHANGED <<source, edits, diskVars, watched>>

DestroyAll ==
    /\ Running
    /\ graphics' = Empty /\ compute' = Empty
    /\ UNCHANGED <<source, edits, told, modules, diskVars, watched>>

-----------------------------------------------------------------------------
(* The blob between two runs *)

\* Mutant: whatever is there is handed to the driver.
AnyBlob(g) == IF blob = "missing" THEN {} ELSE {blob}
ValidBlob(g) == IF blob = g THEN {g} ELSE {}

LaunchOn(g) ==
    /\ ~Running /\ gpu' = g
    /\ cache' = ValidBlob(g) /\ told' = Path
    /\ UNCHANGED <<source, edits, registryVars, blob, watched>>

\* Written beside the file and renamed, after a removal when that fails: the
\* file is the new one, the old one or, between the two, none.
SaveBlob == blob' \in {gpu, blob, "missing"}

RegistryGone == modules' = Empty /\ graphics' = Empty /\ compute' = Empty

RegistryShutdown ==
    /\ Running /\ SaveBlob
    /\ RegistryGone /\ gpu' = "off" /\ cache' = {} /\ watched' = Unloaded
    /\ UNCHANGED <<source, edits, told>>

RegistryCrash ==
    /\ Running /\ RegistryGone /\ gpu' = "off" /\ cache' = {} /\ watched' = Unloaded
    /\ UNCHANGED <<source, edits, told, blob>>

-----------------------------------------------------------------------------
(* A shader that polls: the write time is read after the file when it is    *)
(* loaded, and before it when it is checked.                                *)

LoadWatched ==
    /\ Running /\ watched = Unloaded /\ CompiledFrom(Watched) # 0
    /\ watched' = [watched EXCEPT !.module = CompiledFrom(Watched), !.at = "loading"]
    /\ UNCHANGED <<source, edits, told, registryVars, diskVars>>

StampWatched ==
    /\ watched.at = "loading"
    /\ watched' = [watched EXCEPT !.stamp = source[Watched].edit, !.at = "idle"]
    /\ UNCHANGED <<source, edits, told, registryVars, diskVars>>

\* stamp keeps the write time seen while the file is recompiled.
CheckReload ==
    /\ watched.at = "idle" /\ watched.module # 0 /\ watched.stamp # source[Watched].edit
    /\ watched' = [watched EXCEPT !.stamp = source[Watched].edit, !.at = "stale"]
    /\ UNCHANGED <<source, edits, told, registryVars, diskVars>>

\* What does not compile is not tried again before the next change.
RecompileWatched ==
    /\ watched.at = "stale"
    /\ watched' = [watched EXCEPT !.at = "idle", !.overtaken = FALSE,
                      !.module = IF CompiledFrom(Watched) # 0 THEN CompiledFrom(Watched) ELSE @]
    /\ UNCHANGED <<source, edits, told, registryVars, diskVars>>

\* A file that does not open is tried again on the next check: the old write time
\* stays, and no file gets it again, so any of the past is as good.
UnopenedWatched ==
    /\ watched.at = "stale"
    /\ watched' = [watched EXCEPT !.at = "idle", !.stamp = 0]
    /\ UNCHANGED <<source, edits, told, registryVars, diskVars>>

PipelinesNext ==
    \/ \E p \in Path : EditShader(p) \/ InvalidateShader(p)
    \/ \E d \in Graphics : GetGraphics(d)
    \/ \E d \in Compute : GetCompute(d)
    \/ \E g \in Gpu : LaunchOn(g)
    \/ DestroyAll \/ RegistryShutdown \/ RegistryCrash
    \/ LoadWatched \/ StampWatched \/ CheckReload \/ RecompileWatched
    \/ UnopenedWatched

-----------------------------------------------------------------------------
(* Properties *)

\* What a description is to be built of, and a cached pipeline none of whose
\* files changed unannounced.
Wanted(entry, p) ==
    IF "comp" \in DOMAIN entry.desc \/ p \in {entry.desc.vert, entry.desc.frag} \/
       {CompiledFrom(q) : q \in {entry.desc.tesc, entry.desc.tese}} \cap {0} = {}
    THEN CompiledFrom(p) ELSE 0
Announced(entry) == DOMAIN entry.built \subseteq told

\* Once a shader was invalidated every pipeline the registry hands out is built
\* of what its files hold now, in whatever order the shaders were first loaded,
\* failed, were mended or shared; a run starts from no other GPU's blob; and a
\* shader that polls has what its file held when it was last looked at, unless
\* an edit overtook its load (getGraphics 58-77, invalidateShader 107-138,
\* load 147-195, loadFromFile 116-154, checkReload 156-201).
PipelinesAreCurrent ==
    /\ \A map \in {graphics, compute} : \A b \in DOMAIN map :
          Announced(map[b]) => \A p \in DOMAIN map[b].built : map[b].built[p] = Wanted(map[b], p)
    /\ cache \subseteq {gpu}
    /\ (watched.at = "idle" /\ watched.stamp = source[Watched].edit
            /\ source[Watched].compiles /\ ~watched.overtaken) =>
          watched.module = source[Watched].edit
=============================================================================
