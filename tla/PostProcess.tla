---------------------------- MODULE PostProcess ----------------------------
(****************************************************************************)
(* PostProcess, as a game calls it each frame after its scene is drawn:     *)
(* bright pixels are taken from the scene, blurred back and forth between   *)
(* two images, and put over the scene on the screen. Descriptor sets hold   *)
(* the views the shaders read, and name them until they are written again:  *)
(* after a resize, and when an upscaler takes the place of the scene.       *)
(*                                                                          *)
(* An image is <<name, size>>; one that was destroyed is not in the images. *)
(* What an image shows is <<what was drawn, frame>>. The scene, the         *)
(* upscaler and its image are the game's. Left out: parameters, formats,    *)
(* and a GPU that still runs while a resize or a reload destroys: nothing   *)
(* here waits for it, the game has to.                                      *)
(*                                                                          *)
(* Bounds: frames and sizes alternate between 0 and 1, so that what is left *)
(* over from the last one can be told.                                      *)
(****************************************************************************)
EXTENDS ImageWork

CONSTANT BloomPasses   \* BLOOM_PASSES

ASSUME PostProcessAssumption == BloomPasses \in Nat \ {0}

VARIABLES
    post,        \* the images, of PostProcess and of the game
    size,        \* which size they have
    descriptors, \* what each binding reads
    asked,       \* history: the source the game asked for since the last resize
    shown,       \* what the screen shows, and the frame it is to be of
    misused,     \* history: rules broken
    shaders,     \* shader files: versions on disk, last looked at, loaded, in pipelines
    looked       \* history: checkReload was called and nothing was edited since

imageVars == <<post, size, descriptors, asked, shown, misused>>
postVars == <<imageVars, shaders, looked>>

Hdr(n) == <<"hdr", n>>
Bright(n) == <<"bright", n>>
Blur(k, n) == <<"blur", k, n>>
Upscaled == <<"upscaled", 0>>
Display == <<"display", 0>>

\* New images of a size, besides those of the game.
CreateImages(n, games) ==
    [i \in {Hdr(n), Bright(n), Blur(0, n), Blur(1, n), Upscaled, Display} |->
        IF i \in {Upscaled, Display} THEN games[i] ELSE Color(FALSE)]

WriteDescriptors(n) ==
    [threshold |-> Hdr(n), blur |-> <<Bright(n), Blur(0, n), Blur(1, n)>>,
     scene |-> Hdr(n), bloom |-> Blur(1, n)]

Shader == {"vert", "threshold", "blur", "tonemap"}

PostInit ==
    /\ size = 0 /\ post = CreateImages(0, [i \in {Upscaled, Display} |-> Color(FALSE)])
    /\ descriptors = WriteDescriptors(0) /\ asked = Hdr(0)
    /\ shown = [what |-> {}, frame |-> 1] /\ misused = {}
    /\ shaders = [disk |-> [s \in Shader |-> 0], seen |-> [s \in Shader |-> 0],
                  loaded |-> [s \in Shader |-> 0], built |-> [s \in Shader |-> 0]]
    /\ looked = TRUE

-----------------------------------------------------------------------------
(* Sources and sizes *)

\* Mutant: the images are new, the descriptors are not.
SameDescriptors(n) == descriptors
NewDescriptors(n) == WriteDescriptors(n)

\* What an upscaler had put in place of the scene is gone with the old size.
ResizePost ==
    LET n == 1 - size IN
    /\ size' = n
    /\ post' = CreateImages(n, post)
    /\ descriptors' = NewDescriptors(n) /\ asked' = Hdr(n)
    /\ UNCHANGED <<shown, misused, shaders, looked>>

SetHdrSource(i) ==
    /\ asked' = i
    /\ descriptors' = [descriptors EXCEPT !.threshold = i, !.scene = i]
    /\ UNCHANGED <<post, size, shown, misused, shaders, looked>>

-----------------------------------------------------------------------------
(* A frame *)

\* The game's: the scene into the HDR target, and from there into the upscaler's.
DrawScene(f) ==
    << Barrier(Hdr(size), "sampled", "color"), Pass({Hdr(size)}, "clear", {}, {<<"hdr", f>>}),
       Barrier(Hdr(size), "color", "sampled"),
       Barrier(Upscaled, "sampled", "color"), Pass({Upscaled}, "clear", {}, {<<"upscaled", f>>}),
       Barrier(Upscaled, "color", "sampled") >>

\* One triangle that covers an image which is to be read afterwards.
Filter(read, to) ==
    << Barrier(to, "sampled", "color"), Pass({to}, "cover", {read}, {}), Barrier(to, "color", "sampled") >>

Threshold == Filter(descriptors.threshold, Bright(size))

\* Mutant: the first pass reads what the last frame left.
LastFrames(pass) == descriptors.blur[3]
Horizontal(pass) == IF pass = 1 THEN descriptors.blur[1] ELSE descriptors.blur[3]
BlurPass(pass) == Filter(Horizontal(pass), Blur(0, size)) \o Filter(descriptors.blur[2], Blur(1, size))

Tonemap == << Barrier(Display, "undefined", "color"),
              Pass({Display}, "cover", {descriptors.scene, descriptors.bloom}, {}) >>

RecordCommands ==
    Threshold \o FlattenSeq([p \in 1 .. BloomPasses |-> BlurPass(p)]) \o Tonemap

PostFrame ==
    LET f == 1 - shown.frame
        ran == Ran(post, DrawScene(f) \o RecordCommands)
    IN  /\ post' = ran.images /\ misused' = misused \cup ran.broken
        /\ shown' = [what |-> ran.images[Display].shows, frame |-> f]
        /\ UNCHANGED <<size, descriptors, asked, shaders, looked>>

-----------------------------------------------------------------------------
(* Shaders *)

EditPost(s) ==
    /\ shaders' = [shaders EXCEPT !.disk[s] = 1 - @] /\ looked' = FALSE
    /\ UNCHANGED imageVars

Changed == {s \in Shader : shaders.seen[s] # shaders.disk[s]}

\* Mutant: the check ends with the first shader that reloaded.
OneOf(compiling) == IF compiling = {} THEN Changed ELSE {CHOOSE s \in compiling : TRUE}
AllOf(compiling) == Changed

\* Every shader that changed is looked at, and those that compile are loaded:
\* then all pipelines are built again.
CheckPostReload ==
    \E compiling \in SUBSET Changed :
        LET reached == AllOf(compiling)
            loaded == [s \in Shader |-> IF s \in reached \cap compiling THEN shaders.disk[s]
                                        ELSE shaders.loaded[s]]
        IN  /\ shaders' = [shaders EXCEPT
                   !.seen = [s \in Shader |-> IF s \in reached THEN shaders.disk[s] ELSE @[s]],
                   !.loaded = loaded,
                   !.built = IF reached \cap compiling = {} THEN @ ELSE loaded]
            /\ looked' = TRUE
            /\ UNCHANGED imageVars

PostNext ==
    \/ PostFrame \/ ResizePost
    \/ SetHdrSource(Upscaled) \/ SetHdrSource(Hdr(size))
    \/ (\E s \in Shader : EditPost(s)) \/ CheckPostReload

-----------------------------------------------------------------------------
(* Properties *)

\* Whatever was resized or put in the scene's place before, a frame on the screen
\* is made of nothing but that frame of the source last asked for, bloom included;
\* no shader reads a view that is gone or an image in another layout; and after a
\* check no changed shader was passed over, nor a pipeline left with a shader that
\* was replaced (recordCommands 170-437, resize 153-168, setHdrSource 601-629,
\* checkReload 445-459).
FramesAreWhole ==
    /\ misused = {}
    /\ shown.what # {} => \E s \in {"hdr", "upscaled"} : shown.what = {<<s, shown.frame>>}
    /\ descriptors.threshold = asked /\ descriptors.scene = asked
    /\ shaders.built = shaders.loaded /\ (looked => Changed = {})
=============================================================================
