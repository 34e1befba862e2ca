------------------------------ MODULE Captures ------------------------------
(****************************************************************************)
(* The pictures the application makes: each frame on the screen, the        *)
(* thumbnails it bakes in between, the picture of the screen it saves once, *)
(* and the four golden pictures of a run that is for them only. All of them *)
(* go through images whose layouts every operation names by heart.          *)
(*                                                                          *)
(* FrameLoop has the frames overlap; here each list runs to its end, as all *)
(* of the others do. A mesh is drawn with the camera that the frame's scene *)
(* UBO holds when the GPU runs, and a bake puts its own there for a while.  *)
(* Left out: what Thumbnails models, and pixels.                            *)
(****************************************************************************)
EXTENDS ImageWork

CONSTANTS
    Swap,        \* swapchain images
    Picture,     \* textures that can be baked
    Levels       \* mip levels a texture can have

ASSUME CapturesAssumption == Levels \subseteq Nat \ {0} /\ "mesh" \notin Picture

VARIABLES
    run,         \* "interactive", or "goldens" with --render-goldens
    images,      \* every image that exists
    ubo,         \* the camera in the scene UBO: "user" or "fit"
    stage,       \* where the main thread is
    current,     \* the swapchain image of the frame
    captured,    \* m_captured, m_goldensCaptured: "screen", "goldens"
    pngs,        \* pictures on disk: name -> what they show
    broken       \* history: rules broken

captureVars == <<run, images, ubo, stage, current, captured, pngs, broken>>

Screen(i) == <<"screen", i>>
Thumb == [color |-> <<"thumb", 1>>, motion |-> <<"thumb", 2>>, depth |-> <<"thumb", 3>>]
BlitColor == <<"thumb", 4>>
Golden == [color |-> <<"golden", 1>>, motion |-> <<"golden", 2>>, depth |-> <<"golden", 3>>]
Main(i) == [color |-> Screen(i), motion |-> <<"main", 2>>, depth |-> <<"main", 3>>]
Mip(l) == <<"level", l>>

Mesh == <<"mesh", ubo>>
Ui(what) == <<"ui", what>>

Targets(set) == {set.color, set.motion, set.depth}

\* The surface may not allow its images to be copied from.
CapturesInit ==
    /\ run \in {"interactive", "goldens"}
    /\ \E copyable \in BOOLEAN :
          images = [i \in {Screen(n) : n \in Swap} \cup Targets(Main(0)) \cup Targets(Thumb)
                           \cup {BlitColor} \cup (IF run = "goldens" THEN Targets(Golden) ELSE {}) |->
              CASE i \in {Screen(n) : n \in Swap} ->
                     [layout |-> "undefined", shows |-> Garbage, copyable |-> copyable]
                [] i \in {Main(0).depth, Thumb.depth, Golden.depth} -> Depth
                [] OTHER -> Color(i \in {Thumb.color, BlitColor, Golden.color})]
    /\ ubo = "fit" /\ stage = "wait" /\ current \in Swap
    /\ captured = {} /\ pngs = [n \in {} |-> {}] /\ broken = {}

Do(work) ==
    /\ images' = Ran(images, work).images
    /\ broken' = broken \cup Ran(images, work).broken

Wrote(name, what) == pngs' = [n \in DOMAIN pngs \cup {name} |-> IF n = name THEN what ELSE pngs[n]]

-----------------------------------------------------------------------------
(* Command lists *)

\* Both passes of the mesh, opaque and blended, over cleared attachments.
MeshPass(set) ==
    << Barrier(set.color, "undefined", "color"), Barrier(set.motion, "undefined", "color"),
       Barrier(set.depth, "undefined", "depth"),
       Pass(Targets(set), "clear", {}, {Mesh}) >>

UiPass(i, what) == Pass({i}, "load", {}, {Ui(what)})

RecordFrame(i) ==
    MeshPass(Main(i)) \o << UiPass(Screen(i), "panels"), Barrier(Screen(i), "color", "present") >>

CaptureFramebuffer(i) ==
    << Barrier(Screen(i), "present", "source"), Copy(Screen(i)), Barrier(Screen(i), "source", "present") >>

BakeMesh == MeshPass(Thumb) \o << Barrier(Thumb.color, "color", "source"), Copy(Thumb.color) >>

\* VkTex: the picture goes to the first level, and each level to the next.
LoadTexture(t, levels) ==
    [l \in 1 .. levels |-> Barrier(Mip(l), "undefined", "destination")]
    \o << Upload(Mip(1), {<<"texture", t>>}) >>
    \o FlattenSeq([l \in 1 .. levels - 1 |->
          << Barrier(Mip(l), "destination", "source"), Blit(Mip(l), Mip(l + 1)),
             Barrier(Mip(l), "source", "sampled") >>])
    \o << Barrier(Mip(levels), "destination", "sampled") >>

BakeTexture ==
    << Barrier(Mip(1), "sampled", "source"), Barrier(BlitColor, "undefined", "destination"),
       Blit(Mip(1), BlitColor), Barrier(BlitColor, "destination", "source"), Copy(BlitColor) >>

RenderSkinnedMesh ==
    MeshPass(Golden) \o
    << Barrier(Golden.color, "color", "source"), Barrier(Golden.depth, "depth", "source") >>

\* Mutant: the golden image is not wiped before the UI is drawn over it.
OverTheMesh ==
    << Barrier(Golden.color, "source", "color"),
       UiPass(Golden.color, "golden"), Barrier(Golden.color, "color", "source") >>
RenderImGuiOverlay ==
    << Barrier(Golden.color, "source", "color"), Pass({Golden.color}, "clear", {}, {}),
       UiPass(Golden.color, "golden"), Barrier(Golden.color, "color", "source") >>

-----------------------------------------------------------------------------
(* A frame *)

Go(from, to) == stage = from /\ stage' = to

UpdateSceneUBO(i) ==
    /\ Go("wait", "bake")
    /\ current' = i /\ ubo' = "user"
    /\ UNCHANGED <<run, images, captured, pngs, broken>>

\* The mesh is drawn with a camera that fits it; staging memory or the file may
\* not be had.
StartMeshBake ==
    /\ Go("bake", "baking") /\ ubo' = "fit"
    /\ UNCHANGED <<run, images, current, captured, pngs, broken>>

\* Mutant: the camera of the bake is left in the scene UBO.
NotRestored == ubo
Restored == "user"

RunMeshBake ==
    /\ Go("baking", "record")
    /\ Do(BakeMesh)
    /\ ubo' = Restored
    /\ Wrote(<<"thumb", "mesh">>, Ran(images, BakeMesh).staged) \/ UNCHANGED pngs
    /\ UNCHANGED <<run, current, captured>>

\* The texture exists for the bake only.
WithTexture(levels) ==
    [i \in DOMAIN images \cup {Mip(l) : l \in 1 .. levels} |->
        IF i \in DOMAIN images THEN images[i]
        ELSE [layout |-> "undefined", shows |-> Garbage, copyable |-> TRUE]]

TextureBake(t, levels) ==
    LET ran == Ran(WithTexture(levels), LoadTexture(t, levels) \o BakeTexture)
    IN  /\ Go("bake", "record")
        /\ images' = [i \in DOMAIN images |-> ran.images[i]]
        /\ broken' = broken \cup ran.broken
        /\ Wrote(<<"thumb", t>>, ran.staged) \/ UNCHANGED pngs
        /\ UNCHANGED <<run, ubo, current, captured>>

\* Nothing was asked for, or the texture cannot be loaded.
NoBakeNow ==
    /\ Go("bake", "record")
    /\ UNCHANGED <<run, images, ubo, current, captured, pngs, broken>>

SubmitFrame ==
    /\ Go("record", "presented")
    /\ Do(RecordFrame(current))
    /\ UNCHANGED <<run, ubo, current, captured, pngs>>

\* The image was presented: it is copied although it is not the application's.
SaveScreen ==
    /\ stage = "presented" /\ "screen" \notin captured
    /\ captured' = captured \cup {"screen"}
    /\ Do(CaptureFramebuffer(current))
    /\ Wrote(<<"screen", "capture">>, Ran(images, CaptureFramebuffer(current)).staged) \/ UNCHANGED pngs
    /\ UNCHANGED <<run, ubo, stage, current>>

NextFrame ==
    /\ Go("presented", "wait")
    /\ UNCHANGED <<run, images, ubo, current, captured, pngs, broken>>

-----------------------------------------------------------------------------
(* captureGoldens: after the third frame, the first failure ends it *)

\* A picture cannot be read back or written.
Fail ==
    /\ stage \in {"mesh", "depth", "reference", "imgui"} /\ stage' = "failed"
    /\ UNCHANGED <<run, images, ubo, current, captured, pngs, broken>>

\* The directory may not be had.
StartGoldens ==
    /\ run = "goldens" /\ stage = "presented" /\ stage' \in {"rendering", "failed"}
    /\ captured' = captured \cup {"goldens"}
    /\ ubo' = IF stage' = "rendering" THEN "fit" ELSE ubo
    /\ UNCHANGED <<run, images, current, pngs, broken>>

RenderGoldens ==
    /\ Go("rendering", "mesh") /\ Do(RenderSkinnedMesh) /\ ubo' = Restored
    /\ UNCHANGED <<run, current, captured, pngs>>

Extract(from, to, i, name) ==
    /\ Go(from, to) /\ Do(<<Copy(i)>>)
    /\ Wrote(<<"golden", name>>, Ran(images, <<Copy(i)>>).staged)
    /\ UNCHANGED <<run, ubo, current, captured>>

WriteReference ==
    /\ Go("reference", "overlay") /\ Wrote(<<"golden", "post_process">>, {<<"reference", 0>>})
    /\ UNCHANGED <<run, images, ubo, current, captured, broken>>

RenderOverlay ==
    /\ Go("overlay", "imgui") /\ Do(RenderImGuiOverlay)
    /\ UNCHANGED <<run, ubo, current, captured, pngs>>

Goldens ==
    \/ StartGoldens \/ RenderGoldens
    \/ Extract("mesh", "depth", Golden.color, "skinned_mesh")
    \/ Extract("depth", "reference", Golden.depth, "shadow_pass")
    \/ WriteReference \/ RenderOverlay
    \/ Extract("imgui", "done", Golden.color, "imgui_layer")
    \/ Fail

Exited == stage \in {"done", "failed"} /\ UNCHANGED captureVars

CapturesNext ==
    \/ \E i \in Swap : UpdateSceneUBO(i)
    \/ StartMeshBake \/ RunMeshBake \/ NoBakeNow
    \/ \E t \in Picture, l \in Levels : TextureBake(t, l)
    \/ SubmitFrame \/ SaveScreen \/ NextFrame
    \/ Goldens \/ Exited

-----------------------------------------------------------------------------
(* Properties *)

\* What each picture is to show.
Meant(name) ==
    CASE name = <<"thumb", "mesh">> -> {<<"mesh", "fit">>}
      [] name[1] = "thumb" /\ name[2] # "mesh" -> {<<"texture", name[2]>>}
      [] name[1] = "screen" -> {<<"mesh", "user">>, Ui("panels")}
      [] name = <<"golden", "post_process">> -> {<<"reference", 0>>}
      [] name = <<"golden", "imgui_layer">> -> {Ui("golden")}
      [] OTHER -> {<<"mesh", "fit">>}

\* The depth image of the goldens is created without TRANSFER_SRC, and a surface
\* may not allow it for the screen.
Uncopyable == {<<"usage", Golden.depth>>} \cup
              {<<"usage", Screen(i)>> : i \in {n \in Swap : ~images[Screen(n)].copyable}}

\* Whatever was baked, drawn and saved before, in which order and however far it
\* came, every picture on disk shows what it is named for, the screen shows the
\* scene from the user's camera under the panels, a run that says its goldens
\* are done wrote all four, and no command finds an image in another layout than
\* it names (recordFrame 2519-2654, bakeThumbnail 3511-3779, bakeTextureThumbnail
\* 3786-3927, captureGoldens 3960-4016, captureFramebuffer 4943-4999).
PicturesAreTrue ==
    /\ broken \subseteq Uncopyable
    /\ \A name \in DOMAIN pngs : pngs[name] = Meant(name)
    /\ stage = "presented" => images[Screen(current)].shows = {<<"mesh", "user">>, Ui("panels")}
    /\ stage = "done" => Cardinality({n \in DOMAIN pngs : n[1] = "golden"}) = 4
=============================================================================
