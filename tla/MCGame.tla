------------------------------- MODULE MCGame -------------------------------
(****************************************************************************)
(* The parts a game calls on its one main thread, for TLC. They share no    *)
(* state, so one workload at a time runs and the others stand still.        *)
(****************************************************************************)
EXTENDS Physics, Animator, FrameLoop, Audio, SceneFiles, SceneLoader, RenderGraph, Pipelines,
        InputFrames, Captures, PostProcess

VARIABLE workload

playVars == <<physicsVars, animatorVars, audioVars, inputVars>>
scenesVars == <<sceneVars, loaderVars>>
drawVars == <<thumbnailVars, frameVars, captureVars>>
passVars == <<graphVars, pipelineVars, postVars>>
gameVars == <<workload, playVars, scenesVars, drawVars, passVars>>

\* A chain of three joints, the outer ones weaker, and one that never breaks.
MCDesc == {[a |-> 1, b |-> 2, force |-> 2], [a |-> 2, b |-> 3, force |-> 3],
           [a |-> 3, b |-> 1, force |-> 0]}
MCCascade == {[enabled |-> FALSE, maxDepth |-> 1, stress |-> 4],
              [enabled |-> TRUE, maxDepth |-> 1, stress |-> 4]}
MCShape == {[half |-> 1, radius |-> 1], [half |-> 2, radius |-> 1], [half |-> 2, radius |-> 2]}

MCClip == [idle |-> [length |-> 4, loop |-> TRUE], run |-> [length |-> 3, loop |-> TRUE],
           jump |-> [length |-> 2, loop |-> FALSE]]
Edge(from, to, trigger, fade, wait) ==
    [from |-> from, to |-> to, trigger |-> trigger, fade |-> fade, wait |-> wait]
MCTransitions == <<Edge("idle", "run", "go", 2, FALSE), Edge("idle", "idle", "again", 2, FALSE),
                   Edge("run", "jump", "go", 3, FALSE), Edge("jump", "idle", "auto", 2, TRUE),
                   Edge("jump", "run", "again", 1, TRUE)>>
MCForced == {-1, 0, 2}

Variant(number, mode, when) == [files |-> number, mode |-> mode, when |-> when]
Event(max, cooldown, looping, tags, variants) ==
    [max |-> max, cooldown |-> cooldown, looping |-> looping, tags |-> tags, variants |-> variants]
MCBank ==
    {<< <<"wind", Event(1, 0, TRUE, {"ambient"}, <<Variant(1, "random", {0})>>)>>,
        <<"step", Event(2, 1, FALSE, {},
            <<Variant(2, "shuffle", {0}), Variant(2, "round_robin", {0}), Variant(0, "random", {1})>>)>>,
        <<"rain", Event(2, 0, FALSE, {"ambient"}, <<Variant(2, "random", {1})>>)>> >>}

MCRanged == [exposure |-> [min |-> 1, max |-> 2, default |-> 1]]
MCAnchor == << "sun", "color" >> :> 1 @@ << "fog", "color" >> :> 1
MCWeather == {<< "clouds", "density" >>, << "fog", "density" >>}
MCBiome == {<< "environment", "humidity" >>}
MCOff == -1
Old(root) == [version |-> 1, format |-> 1, root |-> root]
MCOldFile ==
    {Old([anchor |-> [sun |-> [color |-> 0]]]), Old([postprocess |-> [f \in {} |-> 0]]),
     Old([postprocess |-> [exposure |-> 9], weather |-> [groups |-> [fog |-> [density |-> 0]]]])}

Object(name, parent, mesh) == [name |-> name, parent |-> parent, mesh |-> mesh]
MCDocument ==
    {<<Object("hut", "", "wood"), Object("door", "hut", "wood"), Object("key", "door", "iron")>>,
     <<Object("door", "hut", "iron"), Object("hut", "", ""), Object("hut", "nobody", "wood")>>}

APass(order, uses) == [order |-> order, uses |-> uses]
MCBuiltIn == [Shadow |-> APass(0, [map |-> "depth"]),
              Main |-> APass(60, [map |-> "read", color |-> "write"])]
MCPlugin == [Glow |-> APass(10, [color |-> "read"])]
MCInitial == [map |-> "read", color |-> "undefined"]

MCGraphics == {[vert |-> "v", frag |-> "f", tesc |-> "", tese |-> "", key |-> 1],
               [vert |-> "v", frag |-> "f", tesc |-> "c", tese |-> "e", key |-> 1]}
MCCompute == {[comp |-> "k", key |-> 1]}
MCHash == [d \in MCGraphics \cup MCCompute |-> 1]

Bind(from, code) == [source |-> from, code |-> code]
MCNoBinding == Bind("none", "")
MCBinding == {MCNoBinding, Bind("key", "w"), Bind("gamepad_button", "A")}
MCDefault == [jump |-> [primary |-> Bind("key", "w"), alternate |-> MCNoBinding,
                        gamepad |-> Bind("gamepad_button", "A")]]

Workload == {"physics", "animator", "audio", "input", "bindings", "files", "loader",
             "frames", "bakes", "captures", "graph", "pipelines", "post", "shaders"}

\* The parts that stand still start in one state; of the shader files at most
\* one does not compile, and of two that are used alike it is the first.
StandStill ==
    /\ workload = "physics" \/ ~world.cascade.enabled
    /\ workload = "bakes" \/ files = [t \in Texture |-> 1]
    /\ workload = "audio" \/ param = 0
    /\ workload = "files" \/ file = Missing
    /\ workload = "loader" \/ onDisk = CHOOSE d \in Document : TRUE
    /\ workload = "captures" \/ (run = "interactive" /\ current = 0 /\ images[Screen(0)].copyable)
    /\ workload = "pipelines" \/ (blob = "missing" /\ \A p \in Path : source[p].compiles)
    /\ Cardinality({p \in Path : ~source[p].compiles}) <= 1
    /\ source["f"].compiles /\ source["e"].compiles

Init ==
    /\ workload \in Workload
    /\ PhysicsInit /\ AnimatorInit /\ AudioInit /\ InputInit
    /\ SceneInit /\ LoaderInit
    /\ ThumbnailsInit /\ FrameInit /\ CapturesInit
    /\ GraphInit /\ PipelinesInit /\ PostInit
    /\ StandStill

\* Bodies come in order, characters and terrain when there are no joints, and no
\* two joints are alike.
PhysicsWork ==
    /\ PhysicsNext
    /\ \A b \in world'.bodies : b = 1 \/ b - 1 \in world'.bodies
    /\ DOMAIN joints' = {} \/ (characters' = <<>> /\ world'.terrain = "none")
    /\ characters' = <<>> \/ world'.terrain = world.terrain
    /\ \A i, j \in DOMAIN joints' : i # j => joints'[i].desc # joints'[j].desc

\* The frames overlap; nobody bakes.
FramesWork == Draws /\ UNCHANGED thumbnailVars /\ request' = Nothing

\* One frame after the other, with bakes; nobody resizes or closes.
BakesWork ==
    /\ FrameNext /\ ~screen'.resized /\ cpu'.at # "closing"
    /\ (cpu.at = "acquire" /\ cpu'.at = "draw") =>
          /\ queue = <<>> /\ screen.presented = <<>>
          /\ \A i \in screen.free : cpu'.image <= i

\* The shader that polls is not used by the registry, nothing is asked of the
\* second GPU, and of two files that are used alike the second is edited alone.
PipelinesWork ==
    /\ PipelinesNext
    /\ (\E p \in {"f", "e"} : source'[p].edit # 1) => edits' = 2
    /\ watched' = Unloaded \/ (modules' = Empty /\ cache' = cache)
    /\ gpu' = "b" => modules' = Empty /\ watched' = Unloaded

PlayWork ==
    \/ workload = "physics" /\ PhysicsWork /\ UNCHANGED <<animatorVars, audioVars, inputVars>>
    \/ workload = "animator" /\ AnimatorNext /\ UNCHANGED <<physicsVars, audioVars, inputVars>>
    \/ workload = "audio" /\ AudioNext /\ UNCHANGED <<physicsVars, animatorVars, inputVars>>
    \/ /\ \/ workload = "input" /\ DeviceNext /\ UNCHANGED bindingVars
          \/ workload = "bindings" /\ BindingsNext
       /\ UNCHANGED <<physicsVars, animatorVars, audioVars>>

\* At most two fields differ from their defaults.
Differences(s) ==
    Cardinality({f \in DOMAIN Ranged : s.postprocess[f] # Ranged[f].default})
      + Cardinality({p \in DOMAIN Anchor : s.anchor[p] # Anchor[p]})
      + Cardinality({p \in Weather : s.weather.value[p] # Off})
      + Cardinality({p \in Biome : s.biome.value[p] # Off})
      + Cardinality({o \in {"weather", "biome"} : s[o].time # TransitionTime})
FilesWork == SceneNext /\ Differences(scene') <= 2

ScenesWork ==
    \/ workload = "files" /\ FilesWork /\ UNCHANGED loaderVars
    \/ workload = "loader" /\ LoaderNext /\ UNCHANGED sceneVars

DrawWork ==
    \/ /\ \/ workload = "frames" /\ FramesWork
          \/ workload = "bakes" /\ BakesWork
       /\ UNCHANGED captureVars
    \/ workload = "captures" /\ CapturesNext /\ UNCHANGED <<thumbnailVars, frameVars>>

PassWork ==
    \/ workload = "graph" /\ GraphNext /\ UNCHANGED <<pipelineVars, postVars>>
    \/ workload = "pipelines" /\ PipelinesWork /\ UNCHANGED <<graphVars, postVars>>
    \/ /\ \/ workload = "post" /\ PostNext /\ UNCHANGED <<shaders, looked>>
          \/ workload = "shaders" /\ PostNext /\ UNCHANGED imageVars
       /\ UNCHANGED <<graphVars, pipelineVars>>

Next ==
    /\ UNCHANGED workload
    /\ \/ PlayWork /\ UNCHANGED <<scenesVars, drawVars, passVars>>
       \/ ScenesWork /\ UNCHANGED <<playVars, drawVars, passVars>>
       \/ DrawWork /\ UNCHANGED <<playVars, scenesVars, passVars>>
       \/ PassWork /\ UNCHANGED <<playVars, scenesVars, drawVars>>

Spec == Init /\ [][Next]_gameVars
=============================================================================
