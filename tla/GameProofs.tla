----------------------------- MODULE GameProofs -----------------------------
(****************************************************************************)
(* What holds of the parts a game calls on its main thread, each for every  *)
(* value of its own constants: Physics, FrameLoop with Thumbnails, Audio,   *)
(* Pipelines, Animator, InputFrames, SceneLoader, RenderGraph, SceneFiles,  *)
(* PostProcess and Captures.                                                *)
(****************************************************************************)
EXTENDS Physics, FrameLoop, Audio, Pipelines, Animator, InputFrames, SceneLoader,
        RenderGraph, SceneFiles, PostProcess, Captures,
        FiniteSetTheorems, SequenceTheorems, WellFoundedInduction, TLAPS

PhysicsSpec == PhysicsInit /\ [][PhysicsNext]_physicsVars

-----------------------------------------------------------------------------
(* Characters *)

Character == [shape: [half: Int, radius: Int], centre: Int]
CharactersAre == \A i \in DOMAIN characters : characters[i] \in Character

\* Standing on a foot puts the foot there.
LEMMA StandsOnFoot ==
    ASSUME NEW s \in [half: Int, radius: Int], NEW foot \in Int
    PROVE  Standing(s, foot) \in Character /\ Foot(Standing(s, foot)) = foot
BY DEF Standing, Foot, HalfHeight, Character

\* Another half height moves the centre by what keeps the foot in place.
LEMMA ResizedOnFoot ==
    ASSUME NEW c \in Character, NEW half \in Int
    PROVE  Resized(c, half) \in Character /\ Foot(Resized(c, half)) = Foot(c)
<1> DEFINE r == Resized(c, half)
<1>1. r.shape = [half |-> half, radius |-> c.shape.radius]
  BY DEF Resized, Character
<1>2. r.centre = c.centre - ((c.shape.half + c.shape.radius) - (half + c.shape.radius))
  BY DEF Resized, HalfHeight
<1>3. r \in Character
  <2>1. r = [shape |-> r.shape, centre |-> r.centre]
    BY DEF Resized
  <2> QED BY <1>1, <1>2, <2>1 DEF Character
<1>4. Foot(r) = Foot(c)
  BY <1>1, <1>2 DEF Foot, HalfHeight, Character
<1> QED BY <1>3, <1>4

\* The claim of FeetStayPut for one step.
Feet == \A i \in DOMAIN characters \cap DOMAIN characters' :
            characters'[i].shape # characters[i].shape =>
                Foot(characters'[i]) = Foot(characters[i])

LEMMA FootIsInt == ASSUME NEW c \in Character PROVE Foot(c) \in Int
BY DEF Character, Foot, HalfHeight

LEMMA Shaped == ASSUME NEW s \in Shape PROVE s \in [half: Int, radius: Int]
BY PhysicsAssumption

\* Simulating and all of building but three operations leave characters alone;
\* those three keep the feet of the ones that are there.
LEMMA CharacterStep ==
    ASSUME CharactersAre, PhysicsNext
    PROVE  CharactersAre' /\ Feet
<1>1. CASE UNCHANGED characters
  BY <1>1 DEF CharactersAre, Feet
<1>2. ASSUME NEW s \in Shape, CreateCharacter(s) PROVE CharactersAre' /\ Feet
  <2>1. Standing(s, 0) \in Character
    BY Shaped, StandsOnFoot
  <2>2. DOMAIN characters = {} /\ characters' = <<Standing(s, 0)>>
    BY <1>2 DEF CreateCharacter
  <2> QED BY <2>1, <2>2 DEF CharactersAre, Feet
<1>3. ASSUME NEW s \in Shape, ApplyParams(s) PROVE CharactersAre' /\ Feet
  <2>1. PICK fits \in [DOMAIN characters -> BOOLEAN] :
          characters' = [i \in DOMAIN characters |->
              IF characters[i].shape.radius # s.radius
                THEN Standing(s, Foot(characters[i]))
              ELSE IF fits[i] THEN Resized(characters[i], s.half)
              ELSE characters[i]]
    BY <1>3 DEF ApplyParams
  <2>2. ASSUME NEW i \in DOMAIN characters
        PROVE  characters'[i] \in Character /\ Foot(characters'[i]) = Foot(characters[i])
    <3>1. characters[i] \in Character /\ s \in [half: Int, radius: Int] /\ s.half \in Int
      BY Shaped DEF CharactersAre
    <3>2. CASE characters[i].shape.radius # s.radius
      BY <2>1, <3>1, <3>2, FootIsInt, StandsOnFoot
    <3>3. CASE characters[i].shape.radius = s.radius
      BY <2>1, <3>1, <3>3, ResizedOnFoot
    <3> QED BY <3>2, <3>3
  <2>3. DOMAIN characters' = DOMAIN characters
    BY <2>1
  <2> QED BY <2>2, <2>3 DEF CharactersAre, Feet
<1>4. ASSUME NEW s \in Shape, ResizeCharacter(s.half) PROVE CharactersAre' /\ Feet
  <2>1. PICK i \in DOMAIN characters, fits \in BOOLEAN :
          characters' = IF fits THEN [characters EXCEPT ![i] = Resized(@, s.half)]
                        ELSE characters
    BY <1>4 DEF ResizeCharacter
  <2>2. DOMAIN characters' = DOMAIN characters
    BY <2>1
  <2>3. ASSUME NEW j \in DOMAIN characters
        PROVE  characters'[j] \in Character /\ Foot(characters'[j]) = Foot(characters[j])
    <3>1. characters[j] \in Character /\ s.half \in Int
      BY Shaped DEF CharactersAre
    <3>2. characters'[j] \in {characters[j], Resized(characters[j], s.half)}
      BY <2>1
    <3> QED BY <3>1, <3>2, ResizedOnFoot
  <2> QED BY <2>2, <2>3 DEF CharactersAre, Feet
<1>5. CASE Simulate
  <2>1. UNCHANGED characters
    BY <1>5 DEF Simulate, Step, Substep, EndStep, StartWave, EndSubstep, Examine, PassOver, Spread
  <2> QED BY <1>1, <2>1
<1>6. CASE \/ \E b \in Body : CreateBody(b) \/ DestroyBody(b)
           \/ CreateHeightfield
           \/ \E d \in Desc : CreateConstraint(d)
           \/ \E id \in Ids : DestroyConstraint(id)
  <2>1. UNCHANGED characters
    BY <1>6 DEF CreateBody, DestroyBody, CreateHeightfield, CreateConstraint, DestroyConstraint
  <2> QED BY <1>1, <2>1
<1> QED BY <1>2, <1>3, <1>4, <1>5, <1>6 DEF PhysicsNext, Build

\* A character that gets another capsule keeps its feet where they are, whatever
\* the capsules, as resizeCharacter and applyParams compute the new centre.
THEOREM FeetNeverMove == PhysicsSpec => FeetStayPut
<1>1. PhysicsInit => CharactersAre
  BY DEF PhysicsInit, CharactersAre
<1>2. CharactersAre /\ [PhysicsNext]_physicsVars => CharactersAre' /\ [Feet]_characters
  <2>1. CharactersAre /\ UNCHANGED physicsVars => CharactersAre' /\ UNCHANGED characters
    BY DEF physicsVars, CharactersAre
  <2> QED BY <2>1, CharacterStep
<1> QED BY <1>1, <1>2, PTL DEF PhysicsSpec, FeetStayPut, Feet

-----------------------------------------------------------------------------
(* Constraints *)

IsJoint(j) == j = [desc |-> j.desc, lastImpulse |-> j.lastImpulse, broken |-> j.broken]
PhysicsWorld == [bodies: SUBSET Body, terrain: {"none", "valid"}, nextId: Nat, cascade: Cascade]

\* Ids are given out once: that a new constraint takes none over from an old one
\* is what exact adjacency needs to be inductive.
Jointed ==
    /\ world \in PhysicsWorld
    /\ joints = [i \in Ids |-> joints[i]]
    /\ \A i \in Ids : IsJoint(joints[i]) /\ i \in Nat /\ i < world.nextId
    /\ adjacent \in [Body -> SUBSET Nat]
    /\ AdjacencyIsExact

\* A step that changes no description and no adjacency keeps them exact.
LEMMA SameDescriptions ==
    ASSUME Jointed, UNCHANGED adjacent, world' \in PhysicsWorld, world'.nextId = world.nextId,
           joints' = [i \in Ids |-> joints'[i]],
           \A i \in Ids : IsJoint(joints'[i]) /\ joints'[i].desc = joints[i].desc
    PROVE  Jointed'
<1>1. Ids' = Ids
  BY DEF Ids
<1>2. /\ \A i \in Ids' : IsJoint(joints'[i]) /\ i \in Nat /\ i < world'.nextId
      /\ joints' = [i \in Ids' |-> joints'[i]]
  BY <1>1 DEF Jointed
<1>3. AdjacencyIsExact'
  BY <1>1 DEF Jointed, AdjacencyIsExact
<1>4. adjacent' \in [Body -> SUBSET Nat]
  BY DEF Jointed
<1> QED BY <1>2, <1>3, <1>4 DEF Jointed, IsJoint

LEMMA CreationKeepsExact ==
    ASSUME Jointed, NEW d \in Desc, CreateConstraint(d)
    PROVE  Jointed'
<1> DEFINE id == world.nextId
<1>1. d \in [a: Body, b: Body, force: Nat]
  BY PhysicsAssumption
<1>2. world \in PhysicsWorld /\ id \in Nat /\ id \notin Ids
  BY DEF Jointed, PhysicsWorld
<1>3. /\ joints' = [i \in Ids \cup {id} |->
             IF i = id THEN [desc |-> d, lastImpulse |-> 0, broken |-> FALSE] ELSE joints[i]]
      /\ adjacent' = AdjacentToBoth(d, id)
      /\ world' = [world EXCEPT !.nextId = @ + 1]
  BY DEF CreateConstraint
<1>4. Ids' = Ids \cup {id}
  BY <1>3 DEF Ids
<1>5. joints' = [i \in Ids' |-> joints'[i]] /\ \A i \in Ids' : IsJoint(joints'[i])
  BY <1>1, <1>2, <1>3, <1>4 DEF Jointed, IsJoint
<1>6. world' \in PhysicsWorld /\ world'.nextId = id + 1
  BY <1>2, <1>3 DEF PhysicsWorld
<1>7. \A i \in Ids' : i \in Nat /\ i < world'.nextId
  BY <1>2, <1>4, <1>6 DEF Jointed
<1>8. ASSUME NEW b \in Body
      PROVE  /\ adjacent'[b] \in SUBSET Nat
             /\ adjacent'[b] = {i \in Ids' : b \in {joints'[i].desc.a, joints'[i].desc.b}}
  <2>1. adjacent'[b] = IF b \in {d.a, d.b} THEN adjacent[b] \cup {id} ELSE adjacent[b]
    BY <1>3 DEF AdjacentToBoth
  <2>2. \A i \in Ids : joints'[i] = joints[i]
    BY <1>2, <1>3
  <2>3. joints'[id].desc = d
    BY <1>3
  <2>4. adjacent[b] = {i \in Ids : b \in {joints[i].desc.a, joints[i].desc.b}}
    BY DEF Jointed, AdjacencyIsExact
  <2>5. adjacent[b] \in SUBSET Nat
    BY DEF Jointed
  <2> QED BY <1>2, <1>4, <2>1, <2>2, <2>3, <2>4, <2>5
<1>9. adjacent' = [b \in Body |-> adjacent'[b]]
  BY <1>3 DEF AdjacentToBoth
<1> QED BY <1>5, <1>6, <1>7, <1>8, <1>9 DEF Jointed, AdjacencyIsExact, IsJoint

LEMMA DestructionKeepsExact ==
    ASSUME Jointed, NEW id \in Ids, DestroyConstraint(id)
    PROVE  Jointed'
<1>1. /\ joints' = [i \in Ids \ {id} |-> joints[i]]
      /\ adjacent' = [b \in Body |-> adjacent[b] \ {id}]
      /\ world' = world
  BY DEF DestroyConstraint
<1>2. Ids' = Ids \ {id}
  BY <1>1 DEF Ids
<1>3. joints' = [i \in Ids' |-> joints'[i]] /\ \A i \in Ids' : IsJoint(joints'[i])
  BY <1>1, <1>2 DEF Jointed, IsJoint
<1>4. AdjacencyIsExact'
  BY <1>1, <1>2 DEF Jointed, AdjacencyIsExact
<1>5. adjacent' \in [Body -> SUBSET Nat]
  BY <1>1 DEF Jointed
<1> QED BY <1>1, <1>2, <1>3, <1>4, <1>5 DEF Jointed, IsJoint

\* Breaking changes what a constraint has been through, never whom it holds.
LEMMA SimulationKeepsExact ==
    ASSUME Jointed, Simulate
    PROVE  Jointed'
<1>1. CASE UNCHANGED <<world, joints, adjacent>>
  BY <1>1 DEF Jointed, AdjacencyIsExact, Ids, IsJoint
<1>2. ASSUME NEW i \in Ids, Examine(i) PROVE Jointed'
  <2> DEFINE breaks == check.load[i] > joints[i].desc.force
  <2>1. /\ UNCHANGED <<world, adjacent>>
        /\ joints' = [joints EXCEPT ![i] = Loaded(i, check.load[i], breaks)]
    BY <1>2 DEF Examine
  <2>2. ASSUME NEW n \in Ids
        PROVE  IsJoint(joints'[n]) /\ joints'[n].desc = joints[n].desc
    BY <2>1 DEF Jointed, IsJoint, Loaded
  <2>3. joints' = [n \in Ids |-> joints'[n]]
    BY <2>1 DEF Jointed
  <2> QED BY <2>1, <2>2, <2>3, SameDescriptions DEF Jointed
<1>3. ASSUME NEW i \in Ids, Spread(i) PROVE Jointed'
  <2>1. PICK torn \in SUBSET {n \in Touching(i) : TooWeak(n)} :
          joints' = [n \in Ids |->
                        IF n \in torn
                          THEN Loaded(n, (joints[n].lastImpulse * world.cascade.stress) \div 2, TRUE)
                          ELSE joints[n]]
    BY <1>3 DEF Spread
  <2>2. ASSUME NEW n \in Ids
        PROVE  IsJoint(joints'[n]) /\ joints'[n].desc = joints[n].desc
    BY <2>1 DEF Jointed, IsJoint, Loaded
  <2>3. joints' = [n \in Ids |-> joints'[n]]
    BY <2>1
  <2>4. UNCHANGED <<world, adjacent>>
    BY <1>3 DEF Spread
  <2> QED BY <2>2, <2>3, <2>4, SameDescriptions DEF Jointed
<1>4. CASE (\E dt \in FrameTime : Step(dt)) \/ Substep \/ EndStep \/ StartWave \/ EndSubstep
           \/ (\E i \in Ids : PassOver(i))
  <2>1. UNCHANGED <<world, joints, adjacent>>
    BY <1>4 DEF Step, Substep, EndStep, StartWave, EndSubstep, PassOver
  <2> QED BY <1>1, <2>1
<1> QED BY <1>2, <1>3, <1>4 DEF Simulate

LEMMA BuildingKeepsExact ==
    ASSUME Jointed, Build
    PROVE  Jointed'
<1>1. CASE \E b \in Body : CreateBody(b) \/ DestroyBody(b)
  <2>1. UNCHANGED <<joints, adjacent>>
    BY <1>1 DEF CreateBody, DestroyBody
  <2>2. world' \in PhysicsWorld /\ world'.nextId = world.nextId
    BY <1>1 DEF CreateBody, DestroyBody, Jointed, PhysicsWorld
  <2> QED BY <2>1, <2>2, SameDescriptions DEF Jointed
<1>2. CASE CreateHeightfield
  <2>1. UNCHANGED <<joints, adjacent>>
    BY <1>2 DEF CreateHeightfield
  <2>2. world' \in PhysicsWorld /\ world'.nextId = world.nextId
    BY <1>2 DEF CreateHeightfield, Jointed, PhysicsWorld
  <2> QED BY <2>1, <2>2, SameDescriptions DEF Jointed
<1>3. CASE \E s \in Shape : CreateCharacter(s) \/ ApplyParams(s) \/ ResizeCharacter(s.half)
  <2>1. UNCHANGED <<world, joints, adjacent>>
    BY <1>3 DEF CreateCharacter, ApplyParams, ResizeCharacter
  <2> QED BY <2>1, SameDescriptions DEF Jointed
<1> QED BY <1>1, <1>2, <1>3, CreationKeepsExact, DestructionKeepsExact DEF Build

\* Whatever is created, broken and destroyed, a body knows exactly the constraints
\* that hold it: the cascade asks every neighbour and nobody else.
THEOREM NeighboursAreExact == PhysicsSpec => []AdjacencyIsExact
<1>1. PhysicsInit => Jointed
  BY DEF PhysicsInit, Jointed, PhysicsWorld, NoLoad, Ids, IsJoint, AdjacencyIsExact
<1>2. Jointed /\ [PhysicsNext]_physicsVars => Jointed'
  <2>1. Jointed /\ UNCHANGED physicsVars => Jointed'
    BY DEF physicsVars, Jointed, AdjacencyIsExact, Ids, IsJoint
  <2> QED BY <2>1, SimulationKeepsExact, BuildingKeepsExact DEF PhysicsNext
<1>3. Jointed => AdjacencyIsExact
  BY DEF Jointed
<1> QED BY <1>1, <1>2, <1>3, PTL DEF PhysicsSpec

-----------------------------------------------------------------------------
(* Sequences *)

LEMMA TailOf ==
    ASSUME NEW S, NEW s \in Seq(S), s # <<>>
    PROVE  /\ 1 \in DOMAIN s /\ Head(s) = s[1] /\ Head(s) \in S /\ Tail(s) \in Seq(S)
           /\ \A n \in DOMAIN Tail(s) : n \in Nat \ {0} /\ n + 1 \in DOMAIN s /\ Tail(s)[n] = s[n + 1]
           /\ \A n \in DOMAIN s : n = 1 \/ (n - 1 \in DOMAIN Tail(s) /\ Tail(s)[n - 1] = s[n])
OBVIOUS

LEMMA AppendTo ==
    ASSUME NEW S, NEW s \in Seq(S), NEW x \in S
    PROVE  /\ Append(s, x) \in Seq(S) /\ Len(s) + 1 \notin DOMAIN s
           /\ DOMAIN Append(s, x) = DOMAIN s \cup {Len(s) + 1} /\ Append(s, x)[Len(s) + 1] = x
           /\ \A n \in DOMAIN s : Append(s, x)[n] = s[n]
OBVIOUS

-----------------------------------------------------------------------------
(* Frames *)

FrameSpec == ThumbnailsInit /\ FrameInit /\ [][FrameNext]_<<thumbnailVars, frameVars>>

Writing == cpu.at \in {"draw", "bake", "baking", "record"}

Work == [frame : Frame, image : Image] \cup {Bake}

FramesTypeOK ==
    /\ cpu \in [at : {"wait", "acquire", "draw", "bake", "baking", "record", "present", "closing", "gone"},
                frame : Frame, image : Image \cup {0}]
    /\ Writing \/ cpu.at = "present" => cpu.image \in Image
    /\ fence \in [Frame -> BOOLEAN] /\ available \in [Frame -> BOOLEAN]
    /\ finished \in [Image -> {"clear", "pending", "signalled"}]
    /\ queue \in Seq(Work)
    /\ screen \in [free : SUBSET Image, presented : Seq([image : Image, after : Image]),
                   shown : Seq(Image), resized : BOOLEAN]

\* A frame is with the main thread, with the GPU, or its fence is signalled;
\* the GPU has it once.
Fences ==
    /\ FramesTypeOK
    /\ \A f \in Frame : fence[f] => ~available[f]
    /\ \A n \in DOMAIN queue : queue[n].frame \in Frame => ~fence[queue[n].frame]
    /\ \A m, n \in DOMAIN queue : queue[m].frame = queue[n].frame => m = n
    /\ Writing => ~fence[cpu.frame] /\ ~Pending(cpu.frame)
    /\ cpu.at = "acquire" => fence[cpu.frame]
    /\ \A f \in Frame : fence[f] \/ Pending(f) \/ (Writing /\ cpu.frame = f)

Presented == {screen.presented[n].image : n \in DOMAIN screen.presented}
Held      == IF Writing \/ cpu.at = "present" THEN {cpu.image} ELSE {}
Submitted == IF cpu.at = "present" THEN {cpu.image} ELSE {}

\* An image is free, held, presented or shown, one of these; its semaphore is
\* clear unless it was submitted, and pending while the GPU has it.
Images ==
    /\ Fences
    /\ \A n \in DOMAIN screen.presented : screen.presented[n].after = screen.presented[n].image
    /\ \A m, n \in DOMAIN screen.presented :
          screen.presented[m].image = screen.presented[n].image => m = n
    /\ screen.free \cap (Held \cup Presented \cup Range(screen.shown)) = {}
    /\ Held \cap (Presented \cup Range(screen.shown)) = {}
    /\ Presented \cap Range(screen.shown) = {}
    /\ \A i \in Image : finished[i] # "clear" => i \in Presented \cup Submitted
    /\ \A n \in DOMAIN queue : queue[n] # Bake => finished[queue[n].image] = "pending"
    /\ \A m, n \in DOMAIN queue :
          queue[m] # Bake /\ queue[n] # Bake /\ queue[m].image = queue[n].image => m = n

LEMMA FencesInit == FrameInit => Fences
<1> SUFFICES ASSUME FrameInit PROVE Fences
  OBVIOUS
<1>1. 0 \in Frame
  BY FrameLoopAssumption DEF Frame
<1>2. cpu.at = "wait" /\ ~Writing
  BY DEF FrameInit, Writing
<1>3. FramesTypeOK
  BY <1>1, <1>2 DEF FrameInit, FramesTypeOK
<1> QED BY <1>2, <1>3 DEF Fences, FrameInit

\* A frame is below MaxFrames, a bake is none.
LEMMA FrameWork ==
    /\ Bake.frame \notin Frame /\ Bake \in Work
    /\ \A w \in Work : w = Bake \/ (w # Bake /\ w.frame \in Frame /\ w.image \in Image)
    /\ \A f \in Frame : (f + 1) % MaxFrames \in Frame
    /\ \A f \in Frame, i \in Image : [frame |-> f, image |-> i] # Bake
BY FrameLoopAssumption DEF Frame, Bake, Work

\* Where the main thread goes without touching the fences.
LEMMA ThreadMoves ==
    ASSUME Fences, FramesTypeOK', UNCHANGED <<fence, available, queue>>, cpu'.frame = cpu.frame,
           Writing' <=> Writing, cpu'.at = "acquire" => fence[cpu.frame]
    PROVE  Fences'
BY DEF Fences, Pending

LEMMA PresentedTyped ==
    ASSUME FramesTypeOK
    PROVE  screen.presented \in Seq([image : Image, after : Image])
<1>1. PICK S : S = Seq([image : Image, after : Image])
  OBVIOUS
<1>2. screen \in [free : SUBSET Image, presented : S, shown : Seq(Image), resized : BOOLEAN]
  BY <1>1 DEF FramesTypeOK
<1> QED BY <1>1, <1>2

LEMMA FramesTyped ==
    ASSUME FramesTypeOK, FrameNext
    PROVE  FramesTypeOK'
<1> USE DEF GoTo, Writing, FramesTypeOK
<1>1. CASE WaitForFence \/ Close \/ AcquireResized \/ Drawn \/ Shutdown \/ Gone \/ Resize
           \/ (\E t \in Texture : AskForBake(t)) \/ Panels \/ Writes
  <2>1. UNCHANGED <<fence, available, finished, queue>>
    BY <1>1 DEF WaitForFence, Close, AcquireResized, Drawn, Shutdown, Gone, Resize, AskForBake, Panels,
                Writes, frameVars, Reset
  <2>2. screen' = screen \/ screen' = [screen EXCEPT !.resized = TRUE]
    BY <1>1 DEF WaitForFence, Close, AcquireResized, Drawn, Shutdown, Gone, Resize, AskForBake, Panels,
                Writes, frameVars
  <2>3. \/ cpu' = cpu
        \/ \E there \in {"wait", "acquire", "closing", "gone"} : cpu' = [cpu EXCEPT !.at = there]
        \/ cpu.at = "draw" /\ \E there \in {"bake", "record"} : cpu' = [cpu EXCEPT !.at = there]
    BY <1>1 DEF WaitForFence, Close, AcquireResized, Drawn, Shutdown, Gone, Resize, AskForBake, Panels,
                Writes, frameVars
  <2>4. screen' \in [free : SUBSET Image, presented : Seq([image : Image, after : Image]),
                     shown : Seq(Image), resized : BOOLEAN]
    BY <2>2
  <2>5. PICK c \in [at : {"wait", "acquire", "draw", "bake", "baking", "record", "present", "closing",
                          "gone"}, frame : Frame, image : Image \cup {0}] : c = cpu
    OBVIOUS
  <2>6. \/ cpu' = c
        \/ \E there \in {"wait", "acquire", "closing", "gone"} : cpu' = [c EXCEPT !.at = there]
        \/ c.at = "draw" /\ \E there \in {"bake", "record"} : cpu' = [c EXCEPT !.at = there]
    BY <2>3, <2>5
  <2>7. /\ cpu' \in [at : {"wait", "acquire", "draw", "bake", "baking", "record", "present", "closing",
                           "gone"}, frame : Frame, image : Image \cup {0}]
        /\ Writing' \/ cpu'.at = "present" => cpu'.image = c.image /\ (Writing \/ cpu.at = "present")
    BY <2>5, <2>6
  <2> QED BY <2>1, <2>4, <2>5, <2>7
<1>2. ASSUME NEW i \in Image, Acquire(i) PROVE FramesTypeOK'
  BY <1>2 DEF Acquire, Reset
<1>3. CASE StartBake \/ EndBake
  <2>1. queue' = queue \/ queue' = <<Bake>>
    BY <1>3 DEF StartBake, EndBake
  <2>2. queue' \in Seq(Work)
    <3>1. PICK b \in Work : b = Bake
      BY FrameWork
    <3>2. <<b>> \in Seq(Work)
      OBVIOUS
    <3> QED BY <2>1, <3>1, <3>2
  <2> QED BY <1>3, <2>2 DEF StartBake, EndBake
<1>4. CASE Submit
  <2>1. [frame |-> cpu.frame, image |-> cpu.image] \in Work /\ cpu.image \in Image
    BY <1>4 DEF Submit, Work
  <2>2. queue' \in Seq(Work)
    BY <1>4, <2>1 DEF Submit
  <2>3. finished' \in [Image -> {"clear", "pending", "signalled"}]
    BY <1>4, <2>1 DEF Submit, FinishedSemaphore
  <2> QED BY <1>4, <2>1, <2>2, <2>3 DEF Submit
<1>5. CASE Present
  <2>1. cpu.image \in Image
    BY <1>5 DEF Present
  <2>2. Append(screen.presented, [image |-> cpu.image, after |-> cpu.image])
          \in Seq([image : Image, after : Image])
    BY <2>1
  <2>3. (cpu.frame + 1) % MaxFrames \in Frame
    BY FrameWork
  <2>4. screen' = [screen EXCEPT !.presented = Append(@, [image |-> cpu.image, after |-> cpu.image])]
        /\ cpu' = [cpu EXCEPT !.at = "wait", !.frame = (@ + 1) % MaxFrames]
        /\ UNCHANGED <<fence, available, finished, queue>>
    BY <1>5 DEF Present, FinishedSemaphore
  <2> QED BY <2>2, <2>3, <2>4
<1>6. CASE GpuRuns
  <2>1. queue' \in Seq(Work) /\ Head(queue) \in Work
    BY <1>6 DEF GpuRuns
  <2>2. PICK w \in Work : w = Head(queue)
    BY <2>1
  <2>3. /\ fence' \in [Frame -> BOOLEAN] /\ available' \in [Frame -> BOOLEAN]
        /\ finished' \in [Image -> {"clear", "pending", "signalled"}]
    <3>1. CASE w = Bake
      BY <1>6, <2>2, <3>1 DEF GpuRuns
    <3>2. CASE w # Bake
      <4>1. w.frame \in Frame /\ w.image \in Image
        BY <3>2, FrameWork
      <4> QED BY <1>6, <2>2, <3>2, <4>1 DEF GpuRuns, FinishedSemaphore
    <3> QED BY <3>1, <3>2
  <2> QED BY <1>6, <2>1, <2>3 DEF GpuRuns
<1>7. CASE Show
  <2>1. PICK presented \in Seq([image : Image, after : Image]) : presented = screen.presented
    BY PresentedTyped
  <2>2. presented # <<>> /\ Head(presented) \in [image : Image, after : Image]
    <3>1. presented # <<>>
      BY <1>7, <2>1 DEF Show
    <3> QED BY <3>1, TailOf
  <2>3. PICK next \in [image : Image, after : Image] : next = Head(presented)
    BY <2>2
  <2>4. /\ finished' = [finished EXCEPT ![next.after] = "clear"]
        /\ screen' = [screen EXCEPT !.presented = Tail(@), !.shown = <<next.image>>,
                          !.free = @ \cup Range(screen.shown)]
    BY <1>7, <2>3, <2>1 DEF Show
  <2>5. PICK old \in Seq(Image) : old = screen.shown
    OBVIOUS
  <2>6. Range(screen.shown) \subseteq Image
    BY <2>5 DEF Range
  <2>7. Tail(screen.presented) \in Seq([image : Image, after : Image]) /\ <<next.image>> \in Seq(Image)
    BY <2>1, <2>2, <2>3
  <2>8. screen' \in [free : SUBSET Image, presented : Seq([image : Image, after : Image]),
                     shown : Seq(Image), resized : BOOLEAN]
    BY <2>4, <2>6, <2>7
  <2>9. UNCHANGED <<cpu, fence, available, queue>>
        /\ finished' \in [Image -> {"clear", "pending", "signalled"}]
    BY <1>7, <2>4 DEF Show
  <2> QED BY <2>8, <2>9
<1> QED BY <1>1, <1>2, <1>3, <1>4, <1>5, <1>6, <1>7 DEF FrameNext, Draws

LEMMA FencesNext ==
    ASSUME Fences, FrameNext
    PROVE  Fences'
<1>1. FramesTypeOK /\ FramesTypeOK'
  BY FramesTyped DEF Fences
<1>2. /\ fence \in [Frame -> BOOLEAN] /\ available \in [Frame -> BOOLEAN] /\ queue \in Seq(Work)
      /\ cpu = [at |-> cpu.at, frame |-> cpu.frame, image |-> cpu.image] /\ cpu.frame \in Frame
  BY <1>1 DEF FramesTypeOK
<1>3. CASE WaitForFence \/ Close \/ AcquireResized \/ Drawn \/ Shutdown \/ Gone \/ Resize \/ Show
           \/ (\E t \in Texture : AskForBake(t)) \/ Panels \/ Writes
  <2>1. UNCHANGED <<fence, available, queue>>
    BY <1>3 DEF WaitForFence, Close, AcquireResized, Drawn, Shutdown, Gone, Resize, Show, AskForBake,
                Panels, Writes, frameVars, Reset
  <2>2. \/ cpu' = cpu
        \/ cpu' = [cpu EXCEPT !.at = "acquire"] /\ fence[cpu.frame] /\ ~Writing
        \/ (\E there \in {"wait", "closing", "gone"} : cpu' = [cpu EXCEPT !.at = there]) /\ ~Writing
        \/ cpu.at = "draw" /\ \E there \in {"bake", "record"} : cpu' = [cpu EXCEPT !.at = there]
    BY <1>3 DEF WaitForFence, Close, AcquireResized, Drawn, Shutdown, Gone, Resize, Show, AskForBake,
                Panels, Writes, frameVars, GoTo, Writing
  <2>3. cpu'.frame = cpu.frame /\ (Writing' <=> Writing) /\ (cpu'.at = "acquire" => fence[cpu.frame])
    BY <1>2, <2>2 DEF Writing, Fences
  <2> QED BY <1>1, <2>1, <2>3, ThreadMoves
<1>4. ASSUME NEW i \in Image, Acquire(i) PROVE Fences'
  <2>1. /\ cpu.at = "acquire" /\ cpu' = [cpu EXCEPT !.at = "draw", !.image = i] /\ UNCHANGED queue
        /\ fence' = [fence EXCEPT ![cpu.frame] = FALSE]
        /\ available' = [available EXCEPT ![cpu.frame] = TRUE]
    BY <1>4 DEF Acquire, Reset
  <2>2. Writing' /\ ~Writing /\ cpu'.frame = cpu.frame /\ cpu'.at = "draw" /\ fence[cpu.frame]
    BY <1>2, <2>1 DEF Writing, Fences
  <2>3. ~Pending(cpu.frame)
    BY <1>2, <2>2 DEF Fences, Pending
  <2>4. /\ ~fence'[cpu.frame] /\ \A f \in Frame : f # cpu.frame => fence'[f] = fence[f]
        /\ \A f \in Frame : f # cpu.frame => available'[f] = available[f]
    BY <1>2, <2>1
  <2> QED BY <1>1, <1>2, <2>1, <2>2, <2>3, <2>4 DEF Fences, Pending
<1>5. CASE StartBake \/ EndBake
  <2>1. UNCHANGED <<fence, available>> /\ Writing /\ Writing' /\ cpu'.frame = cpu.frame
        /\ cpu'.at # "acquire" /\ queue = <<>> /\ (queue' = queue \/ queue' = <<Bake>>)
    BY <1>2, <1>5 DEF StartBake, EndBake, GoTo, Writing
  <2>2. DOMAIN queue = {}
    BY <2>1
  <2>3. \A f \in Frame : ~Pending(f)'
    BY <2>1, <2>2, FrameWork DEF Pending
  <2>4. \A n \in DOMAIN queue' : queue'[n].frame \notin Frame /\ \A m \in DOMAIN queue' : m = n
    BY <2>1, <2>2, FrameWork
  <2> QED BY <1>1, <1>2, <2>1, <2>2, <2>3, <2>4 DEF Fences, Pending
<1>6. CASE Submit
  <2>1. PICK w \in Work, f \in Frame : w.frame = f /\ f = cpu.frame /\ queue' = Append(queue, w)
    <3>1. [frame |-> cpu.frame, image |-> cpu.image] \in Work
      BY <1>1, <1>6 DEF Submit, Work, FramesTypeOK, Writing
    <3> QED BY <1>2, <1>6, <3>1 DEF Submit
  <2>2. /\ Writing /\ ~Writing' /\ cpu'.at = "present" /\ cpu'.frame = f /\ UNCHANGED <<fence, available>>
        /\ ~fence[f] /\ ~Pending(f)
    BY <1>2, <1>6, <2>1 DEF Submit, Writing, GoTo, Fences
  <2>3. PICK m : /\ m \notin DOMAIN queue /\ DOMAIN queue' = DOMAIN queue \cup {m} /\ queue'[m] = w
                 /\ \A n \in DOMAIN queue : queue'[n] = queue[n]
    BY <1>2, <2>1, AppendTo
  <2>4. \A g \in Frame : Pending(g)' <=> g = f \/ Pending(g)
    BY <2>1, <2>3 DEF Pending
  <2>5. \A n \in DOMAIN queue' : queue'[n].frame \in Frame => ~fence'[queue'[n].frame]
    BY <2>1, <2>2, <2>3 DEF Fences
  <2>6. \A k, n \in DOMAIN queue' : queue'[k].frame = queue'[n].frame => k = n
    BY <2>1, <2>2, <2>3 DEF Fences, Pending
  <2>7. \A g \in Frame : fence'[g] \/ Pending(g)'
    BY <2>1, <2>2, <2>4 DEF Fences
  <2> QED BY <1>1, <2>2, <2>5, <2>6, <2>7 DEF Fences
<1>7. CASE Present
  <2>1. UNCHANGED <<fence, available, queue>> /\ ~Writing /\ ~Writing' /\ cpu'.at = "wait"
    BY <1>2, <1>7 DEF Present, Writing
  <2> QED BY <1>1, <2>1 DEF Fences, Pending
<1>8. CASE GpuRuns
  <2>1. PICK w \in Work : w = Head(queue) /\ w = queue[1] /\ 1 \in DOMAIN queue
    BY <1>2, <1>8, TailOf DEF GpuRuns
  <2>2. /\ queue # <<>> /\ queue' = Tail(queue) /\ UNCHANGED cpu
        /\ IF w = Bake THEN UNCHANGED <<fence, available>>
           ELSE /\ available' = [available EXCEPT ![w.frame] = FALSE]
                /\ fence' = [fence EXCEPT ![w.frame] = TRUE]
    BY <1>8, <2>1 DEF GpuRuns
  <2>3. \A n \in DOMAIN queue' : n \in Nat \ {0} /\ n + 1 \in DOMAIN queue /\ queue'[n] = queue[n + 1]
    BY <1>2, <2>2, TailOf
  <2>4. \A n \in DOMAIN queue : n = 1 \/ (n - 1 \in DOMAIN queue' /\ queue'[n - 1] = queue[n])
    BY <1>2, <2>2, TailOf
  <2>5. \A n \in DOMAIN queue' : queue'[n].frame # w.frame
    BY <2>1, <2>3 DEF Fences
  <2>6. \A k, n \in DOMAIN queue' : queue'[k].frame = queue'[n].frame => k = n
    BY <2>3 DEF Fences
  <2>7. Writing' = Writing /\ cpu' = cpu
    BY <2>2 DEF Writing
  <2>8. \A f \in Frame : f # w.frame => (Pending(f)' <=> Pending(f))
    BY <2>1, <2>3, <2>4 DEF Pending
  <2>9. \A f \in Frame : Pending(f)' => Pending(f)
    BY <2>3 DEF Pending
  <2>10. CASE w = Bake
    <3>1. UNCHANGED <<fence, available>> /\ w.frame \notin Frame
      BY <2>2, <2>10, FrameWork
    <3>2. \A n \in DOMAIN queue' : queue'[n].frame \in Frame => ~fence'[queue'[n].frame]
      BY <2>3, <3>1 DEF Fences
    <3> QED BY <1>1, <1>2, <2>6, <2>7, <2>8, <2>9, <3>1, <3>2 DEF Fences
  <2>11. CASE w # Bake
    <3>1. w.frame \in Frame
      BY <2>11, FrameWork
    <3>2. /\ fence'[w.frame] /\ ~available'[w.frame]
          /\ \A f \in Frame : f # w.frame => fence'[f] = fence[f] /\ available'[f] = available[f]
      BY <1>2, <2>2, <2>11, <3>1
    <3>3. \A n \in DOMAIN queue' : queue'[n].frame \in Frame => ~fence'[queue'[n].frame]
      BY <2>3, <2>5, <3>2 DEF Fences
    <3>4. Pending(w.frame)
      BY <2>1 DEF Pending
    <3>5. Writing => cpu.frame # w.frame
      BY <3>4 DEF Fences
    <3>6. \A f \in Frame : fence'[f] => ~available'[f]
      BY <3>2 DEF Fences
    <3>7. \A f \in Frame : fence'[f] \/ Pending(f)' \/ (Writing' /\ cpu'.frame = f)
      BY <2>7, <2>8, <3>2 DEF Fences
    <3>8. /\ Writing' => ~fence'[cpu'.frame] /\ ~Pending(cpu.frame)'
          /\ cpu'.at = "acquire" => fence'[cpu'.frame]
      <4>1. Writing => ~fence[cpu.frame] /\ ~Pending(cpu.frame)
        BY DEF Fences
      <4>2. Writing => ~fence'[cpu.frame]
        BY <1>2, <3>2, <3>5, <4>1
      <4>3. cpu.at = "acquire" => fence'[cpu.frame]
        BY <1>2, <3>2 DEF Fences
      <4>4. Writing => ~Pending(cpu.frame)'
        <5>1. PICK f \in Frame : f = cpu.frame
          BY <1>2
        <5>2. Pending(f)' => Pending(f)
          BY <2>9
        <5>3. Pending(cpu.frame)' => Pending(f)'
          BY <2>7, <5>1
        <5> QED BY <4>1, <5>1, <5>2, <5>3
      <4> QED BY <2>7, <4>2, <4>3, <4>4
    <3> QED BY <1>1, <2>6, <3>3, <3>6, <3>7, <3>8 DEF Fences
  <2> QED BY <2>10, <2>11
<1> QED BY <1>3, <1>4, <1>5, <1>6, <1>7, <1>8 DEF FrameNext, Draws

LEMMA ImagesInit == FrameInit => Images
<1> SUFFICES ASSUME FrameInit PROVE Images
  OBVIOUS
<1>1. Held = {} /\ Presented = {} /\ Range(screen.shown) = {} /\ DOMAIN queue = {}
      /\ DOMAIN screen.presented = {} /\ \A i \in Image : finished[i] = "clear"
  BY DEF FrameInit, Held, Writing, Presented, Range
<1> QED BY <1>1, FencesInit DEF Images

\* Nothing is submitted, presented or shown, and no image changes hands.
LEMMA ImagesStay ==
    ASSUME Images, Fences', UNCHANGED <<finished, Held, Submitted>>, screen'.presented = screen.presented,
           screen'.shown = screen.shown, screen'.free = screen.free,
           queue' = queue \/ queue' = <<Bake>>
    PROVE  Images'
<1>1. Presented' = Presented /\ Range(screen'.shown) = Range(screen.shown)
  BY DEF Presented
<1>2. CASE queue' = queue
  BY <1>1, <1>2 DEF Images
<1>3. CASE queue' = <<Bake>>
  <2>1. \A n \in DOMAIN queue' : queue'[n] = Bake
    BY <1>3
  <2> QED BY <1>1, <2>1 DEF Images
<1> QED BY <1>2, <1>3

LEMMA ImagesNext ==
    ASSUME Images, FrameNext, Fences'
    PROVE  Images'
<1>1. /\ FramesTypeOK /\ queue \in Seq(Work) /\ finished \in [Image -> {"clear", "pending", "signalled"}]
      /\ cpu = [at |-> cpu.at, frame |-> cpu.frame, image |-> cpu.image]
      /\ screen = [free |-> screen.free, presented |-> screen.presented, shown |-> screen.shown,
                   resized |-> screen.resized]
      /\ (Writing \/ cpu.at = "present" => cpu.image \in Image)
  BY DEF Images, Fences, FramesTypeOK
<1>2. CASE WaitForFence \/ Close \/ AcquireResized \/ Drawn \/ Shutdown \/ Gone \/ Resize
           \/ (\E t \in Texture : AskForBake(t)) \/ Panels \/ Writes \/ StartBake \/ EndBake
  <2>1. UNCHANGED finished /\ (queue' = queue \/ queue' = <<Bake>>)
        /\ (screen' = screen \/ screen' = [screen EXCEPT !.resized = TRUE])
    BY <1>2 DEF WaitForFence, Close, AcquireResized, Drawn, Shutdown, Gone, Resize, AskForBake,
                Panels, Writes, StartBake, EndBake, frameVars
  <2>2. \/ cpu' = cpu
        \/ /\ \E there \in {"wait", "acquire", "closing", "gone"} : cpu' = [cpu EXCEPT !.at = there]
           /\ cpu.at \in {"wait", "acquire", "closing", "gone"}
        \/ Writing /\ \E there \in {"bake", "baking", "record"} : cpu' = [cpu EXCEPT !.at = there]
    BY <1>2 DEF WaitForFence, Close, AcquireResized, Drawn, Shutdown, Gone, Resize, AskForBake,
                Panels, Writes, StartBake, EndBake, frameVars, GoTo, Writing
  <2>3. Held' = Held /\ Submitted' = Submitted
    BY <1>1, <2>2 DEF Held, Submitted, Writing
  <2>4. screen'.presented = screen.presented /\ screen'.shown = screen.shown /\ screen'.free = screen.free
    BY <1>1, <2>1
  <2> QED BY <2>1, <2>3, <2>4, ImagesStay
<1>3. ASSUME NEW i \in Image, Acquire(i) PROVE Images'
  <2>1. /\ cpu.at = "acquire" /\ cpu' = [cpu EXCEPT !.at = "draw", !.image = i]
        /\ UNCHANGED <<queue, finished>> /\ i \in screen.free
        /\ screen' = [screen EXCEPT !.free = @ \ {i}]
    BY <1>3 DEF Acquire
  <2>2. /\ Held = {} /\ Submitted = {} /\ Held' = {i} /\ Submitted' = {}
    BY <1>1, <2>1 DEF Held, Submitted, Writing
  <2>3. screen'.presented = screen.presented /\ screen'.shown = screen.shown
        /\ screen'.free = screen.free \ {i} /\ Presented' = Presented
    BY <1>1, <2>1 DEF Presented
  <2> QED BY <2>1, <2>2, <2>3 DEF Images
<1>4. CASE Submit
  <2>1. PICK i \in Image, w \in Work :
           i = cpu.image /\ w.image = i /\ w # Bake /\ queue' = Append(queue, w)
    <3>1. cpu.frame \in Frame /\ cpu.image \in Image
      BY <1>1, <1>4 DEF Submit, FramesTypeOK, Writing
    <3>2. [frame |-> cpu.frame, image |-> cpu.image] \in Work
          /\ [frame |-> cpu.frame, image |-> cpu.image] # Bake
      BY <3>1, FrameWork DEF Work
    <3> QED BY <1>4, <3>1, <3>2 DEF Submit
  <2>2. /\ Held = {i} /\ Held' = {i} /\ Submitted = {} /\ Submitted' = {i} /\ UNCHANGED screen
        /\ finished' = [finished EXCEPT ![i] = "pending"]
    BY <1>1, <1>4, <2>1 DEF Submit, Held, Submitted, Writing, GoTo, FinishedSemaphore
  <2>3. finished[i] = "clear" /\ finished'[i] = "pending"
        /\ \A k \in Image : k # i => finished'[k] = finished[k]
    BY <1>1, <2>1, <2>2 DEF Images
  <2>4. PICK m : /\ m \notin DOMAIN queue /\ DOMAIN queue' = DOMAIN queue \cup {m} /\ queue'[m] = w
                 /\ \A n \in DOMAIN queue : queue'[n] = queue[n]
    BY <1>1, <2>1, AppendTo
  <2>5. \A n \in DOMAIN queue : queue[n] # Bake => queue[n].image \in Image /\ queue[n].image # i
                                                  /\ finished'[queue[n].image] = "pending"
    <3>1. \A n \in DOMAIN queue : queue[n] \in Work
      BY <1>1
    <3> QED BY <2>3, <3>1, FrameWork DEF Images
  <2>6. \A n \in DOMAIN queue' : queue'[n] # Bake => finished'[queue'[n].image] = "pending"
    BY <2>1, <2>3, <2>4, <2>5
  <2>7. \A k, n \in DOMAIN queue' :
           queue'[k] # Bake /\ queue'[n] # Bake /\ queue'[k].image = queue'[n].image => k = n
    BY <2>1, <2>4, <2>5 DEF Images
  <2>8. Presented' = Presented
    BY <2>2 DEF Presented
  <2>9. \A k \in Image : finished'[k] # "clear" => k \in Presented' \cup Submitted'
    BY <2>2, <2>3, <2>8 DEF Images
  <2> QED BY <2>2, <2>6, <2>7, <2>8, <2>9 DEF Images
<1>5. CASE Present
  <2>1. PICK x, i : i \in Image /\ i = cpu.image /\ x = [image |-> i, after |-> i]
    BY <1>1, <1>5 DEF Present
  <2>2. screen' = [screen EXCEPT !.presented = Append(@, x)]
        /\ cpu' = [cpu EXCEPT !.at = "wait", !.frame = (@ + 1) % MaxFrames] /\ cpu.at = "present"
        /\ UNCHANGED <<finished, queue>>
    BY <1>5, <2>1 DEF Present, FinishedSemaphore
  <2>3. Held = {i} /\ Submitted = {i} /\ Held' = {} /\ Submitted' = {}
    BY <1>1, <2>1, <2>2 DEF Held, Submitted, Writing
  <2>4. PICK m, P : /\ P = DOMAIN screen.presented /\ m \notin P
                    /\ DOMAIN screen'.presented = P \cup {m} /\ screen'.presented[m] = x
                    /\ \A n \in P : screen'.presented[n] = screen.presented[n]
    <3>1. PICK p \in Seq([image : Image, after : Image]) : p = screen.presented
      BY <1>1, PresentedTyped
    <3>2. x \in [image : Image, after : Image] /\ screen'.presented = Append(p, x)
      BY <1>1, <2>1, <2>2, <3>1
    <3> QED BY <3>1, <3>2, AppendTo
  <2>5. screen'.shown = screen.shown /\ screen'.free = screen.free
    BY <1>1, <2>2
  <2>6. x.image = i /\ x.after = i
    BY <2>1
  <2>7. Presented' = Presented \cup {i}
    BY <2>4, <2>6 DEF Presented
  <2>8. \A n \in DOMAIN screen'.presented : screen'.presented[n].after = screen'.presented[n].image
    BY <2>4, <2>6 DEF Images
  <2>9. \A k, n \in DOMAIN screen'.presented :
           screen'.presented[k].image = screen'.presented[n].image => k = n
    BY <2>3, <2>4, <2>6 DEF Images, Presented
  <2> QED BY <2>2, <2>3, <2>5, <2>7, <2>8, <2>9 DEF Images
<1>6. CASE GpuRuns
  <2>1. PICK w \in Work : w = Head(queue) /\ w = queue[1] /\ 1 \in DOMAIN queue
    BY <1>1, <1>6, TailOf DEF GpuRuns
  <2>2. /\ queue # <<>> /\ queue' = Tail(queue) /\ UNCHANGED <<cpu, screen>>
        /\ IF w = Bake THEN UNCHANGED finished
           ELSE finished' = [finished EXCEPT ![w.image] = "signalled"]
    BY <1>6, <2>1 DEF GpuRuns, FinishedSemaphore
  <2>3. \A n \in DOMAIN queue' : n \in Nat \ {0} /\ n + 1 \in DOMAIN queue /\ queue'[n] = queue[n + 1]
                                 /\ n + 1 # 1
    BY <1>1, <2>2, TailOf
  <2>4. Held' = Held /\ Submitted' = Submitted /\ Presented' = Presented
    BY <2>2 DEF Held, Submitted, Presented, Writing
  <2>5. \A k, n \in DOMAIN queue' :
           queue'[k] # Bake /\ queue'[n] # Bake /\ queue'[k].image = queue'[n].image => k = n
    BY <2>3 DEF Images
  <2>6. CASE w = Bake
    BY <2>2, <2>3, <2>4, <2>5, <2>6 DEF Images
  <2>7. CASE w # Bake
    <3>1. w.image \in Image /\ finished[w.image] = "pending"
      BY <2>1, <2>7, FrameWork DEF Images
    <3>2. finished'[w.image] = "signalled" /\ \A k \in Image : k # w.image => finished'[k] = finished[k]
      BY <1>1, <2>2, <2>7, <3>1
    <3>3. \A n \in DOMAIN queue' : queue'[n] # Bake => queue'[n].image # w.image
      BY <2>1, <2>3, <2>7 DEF Images
    <3>4. \A n \in DOMAIN queue' : queue'[n] \in Work
      BY <1>1, <2>3
    <3>5. \A n \in DOMAIN queue' : queue'[n] # Bake => finished'[queue'[n].image] = "pending"
      BY <2>3, <3>2, <3>3, <3>4, FrameWork DEF Images
    <3>6. \A k \in Image : finished'[k] # "clear" => finished[k] # "clear"
      BY <3>1, <3>2
    <3> QED BY <2>2, <2>4, <2>5, <3>5, <3>6 DEF Images
  <2> QED BY <2>6, <2>7
<1>7. CASE Show
  <2>1. PICK p \in Seq([image : Image, after : Image]) : p = screen.presented /\ p # <<>>
    BY <1>1, <1>7, PresentedTyped DEF Show
  <2>2. PICK x \in [image : Image, after : Image] : x = Head(p) /\ x = p[1] /\ 1 \in DOMAIN p
    BY <2>1, TailOf
  <2>3. PICK i \in Image : i = x.image /\ i = x.after
    BY <2>1, <2>2 DEF Images
  <2>4. /\ finished[i] = "signalled" /\ finished' = [finished EXCEPT ![i] = "clear"]
        /\ screen' = [screen EXCEPT !.presented = Tail(@), !.shown = <<i>>,
                                    !.free = @ \cup Range(screen.shown)]
        /\ UNCHANGED <<cpu, queue>>
    BY <1>7, <2>1, <2>2, <2>3 DEF Show
  <2>5. /\ screen'.presented = Tail(p) /\ screen'.shown = <<i>>
        /\ screen'.free = screen.free \cup Range(screen.shown)
    BY <1>1, <2>1, <2>4
  <2>6. \A n \in DOMAIN screen'.presented :
           n \in Nat \ {0} /\ n + 1 \in DOMAIN p /\ screen'.presented[n] = p[n + 1] /\ n + 1 # 1
    BY <2>1, <2>5, TailOf
  <2>7. \A n \in DOMAIN p : n = 1 \/ (n - 1 \in DOMAIN screen'.presented /\ screen'.presented[n - 1] = p[n])
    BY <2>1, <2>5, TailOf
  <2>8. /\ \A n \in DOMAIN p : p[n].after = p[n].image
        /\ \A m, n \in DOMAIN p : p[m].image = p[n].image => m = n
        /\ Presented = {p[n].image : n \in DOMAIN p}
    BY <2>1 DEF Images, Presented
  <2>9. /\ \A n \in DOMAIN screen'.presented : screen'.presented[n].after = screen'.presented[n].image
        /\ \A m, n \in DOMAIN screen'.presented :
              screen'.presented[m].image = screen'.presented[n].image => m = n
    BY <2>6, <2>8
  <2>10. i \in Presented /\ Presented' = Presented \ {i}
    <3>1. ASSUME NEW n \in DOMAIN screen'.presented
          PROVE  screen'.presented[n].image \in Presented \ {i}
      <4>1. n + 1 \in DOMAIN p /\ n + 1 # 1 /\ screen'.presented[n] = p[n + 1]
        BY <2>6
      <4>2. p[n + 1].image # p[1].image
        BY <2>2, <2>8, <4>1
      <4> QED BY <2>2, <2>3, <2>8, <4>1, <4>2
    <3>2. ASSUME NEW n \in DOMAIN p, p[n].image # i
          PROVE  \E m \in DOMAIN screen'.presented : screen'.presented[m].image = p[n].image
      <4>1. n # 1
        BY <2>2, <2>3, <3>2
      <4> QED BY <2>7, <4>1
    <3>3. Presented' = {screen'.presented[n].image : n \in DOMAIN screen'.presented}
      BY DEF Presented
    <3>4. Presented' \subseteq Presented \ {i} /\ Presented \ {i} \subseteq Presented'
      BY <2>8, <3>1, <3>2, <3>3
    <3> QED BY <2>2, <2>3, <2>8, <3>4
  <2>11. Range(screen'.shown) = {i} /\ Held' = Held /\ Submitted' = Submitted
    <3>1. Range(<<i>>) = {i}
      BY DEF Range
    <3> QED BY <2>4, <2>5, <3>1 DEF Held, Submitted, Writing
  <2>12. /\ screen'.free \cap (Held' \cup Presented' \cup Range(screen'.shown)) = {}
         /\ Held' \cap (Presented' \cup Range(screen'.shown)) = {}
         /\ Presented' \cap Range(screen'.shown) = {}
    BY <2>5, <2>10, <2>11 DEF Images
  <2>13. finished'[i] = "clear" /\ \A k \in Image : k # i => finished'[k] = finished[k]
    BY <1>1, <2>4
  <2>14. \A k \in Image : finished'[k] # "clear" => k \in Presented' \cup Submitted'
    BY <2>10, <2>11, <2>13 DEF Images
  <2>15. \A n \in DOMAIN queue : queue[n] \in Work
    BY <1>1
  <2>16. \A n \in DOMAIN queue' : queue'[n] # Bake => finished'[queue'[n].image] = "pending"
    BY <2>4, <2>13, <2>15, FrameWork DEF Images
  <2> QED BY <2>4, <2>9, <2>12, <2>14, <2>16 DEF Images
<1> QED BY <1>2, <1>3, <1>4, <1>5, <1>6, <1>7 DEF FrameNext, Draws

\* However many frames are in flight, images there are and long the GPU and the screen
\* take, the thread, the GPU and the screen never have the same frame or semaphore.
THEOREM FramesNeverCollide == FrameSpec => []FramesDoNotCollide
<1>1. Images /\ [FrameNext]_<<thumbnailVars, frameVars>> => Images'
  <2> SUFFICES ASSUME Images, [FrameNext]_<<thumbnailVars, frameVars>> PROVE Images'
    OBVIOUS
  <2>1. CASE FrameNext
    <3>1. Fences'
      BY <2>1, FencesNext DEF Images
    <3> QED BY <2>1, <3>1, ImagesNext
  <2>2. CASE UNCHANGED <<thumbnailVars, frameVars>>
    <3>1. UNCHANGED <<cpu, fence, available, finished, queue, screen>>
      BY <2>2 DEF frameVars
    <3>2. Fences' <=> Fences
      BY <3>1 DEF Fences, FramesTypeOK, Writing, Pending
    <3> QED BY <3>1, <3>2 DEF Images, Writing, Held, Submitted, Presented
  <2> QED BY <2>1, <2>2
<1>2. Images => FramesDoNotCollide
  <2> SUFFICES ASSUME Images PROVE FramesDoNotCollide
    OBVIOUS
  <2>1. Fences /\ cpu.frame \in Frame /\ (Writing => cpu.image \in Image)
    BY DEF Images, Fences, FramesTypeOK
  <2>2. Writing => ~Pending(cpu.frame)
    BY <2>1 DEF Fences
  <2>3. cpu.at = "acquire" => ~available[cpu.frame]
    BY <2>1 DEF Fences
  <2>4. cpu.at = "record" => finished[cpu.image] = "clear"
    BY <2>1 DEF Images, Held, Submitted, Writing
  <2>5. cpu.at = "wait" => fence[cpu.frame] \/ Pending(cpu.frame)
    BY <2>1 DEF Fences, Writing
  <2> QED BY <2>2, <2>3, <2>4, <2>5 DEF FramesDoNotCollide, FinishedSemaphore, Writing
<1> QED BY <1>1, <1>2, ImagesInit, PTL DEF FrameSpec

-----------------------------------------------------------------------------
(* Audio *)

AudioSpec == AudioInit /\ [][AudioNext]_audioVars

IsEvent(d) == {"max", "voices", "last", "variants"} \subseteq DOMAIN d /\ d.max \in Int /\ d.voices \in Nat

\* Beside the counts: slots are slots, events are counted in naturals, and no
\* sound has the handle of silence.
Sounding ==
    /\ slots = [i \in Slot |-> slots[i]]
    /\ nextHandle \in Nat \ {0}
    /\ events = [e \in DOMAIN events |-> events[e]]
    /\ \A e \in DOMAIN events : IsEvent(events[e])
    /\ VoicesCounted

\* A set of naturals that is not empty has a least element.
LEMMA LeastOf ==
    ASSUME NEW S \in SUBSET Nat, S # {}
    PROVE  \E i \in S : \A j \in S : i <= j
<1>1. PICK i \in S : \A j \in S : <<j, i>> \notin OpToRel(<, Nat)
  BY WFMin, NatLessThanWellFounded
<1>2. \A j \in S : ~(j < i)
  BY <1>1 DEF OpToRel
<1>3. \A j \in S : i <= j
  BY <1>2
<1> QED BY <1>3

\* The sounds of an event that play.
SoundsOf(e) == {i \in Slot : Playing(i) /\ slots[i].event = e}

LEMMA SlotsAreFew ==
    /\ IsFiniteSet(Slot)
    /\ \A S \in SUBSET Slot : IsFiniteSet(S) /\ Cardinality(S) \in Nat
<1>1. MaxSounds \in Nat
  BY AudioAssumption
<1>2. IsFiniteSet(Slot)
  BY <1>1, FS_Interval DEF Slot
<1> QED BY <1>2, FS_Subset, FS_CardinalityType

LEMMA VoicesAre == \A e : Voices(e) = Cardinality(SoundsOf(e)) /\ Voices(e) \in Nat
BY SlotsAreFew DEF Voices, SoundsOf

LEMMA LoadStep ==
    ASSUME Sounding, NEW b \in Bank, NEW n \in 0 .. Len(b), LoadBank(b, n)
    PROVE  Sounding'
<1> DEFINE names == {b[m][1] : m \in 1 .. n}
           def(e) == b[CHOOSE m \in 1 .. n : b[m][1] = e][2]
<1>1. /\ events' = [e \in DOMAIN events \cup names |->
                       IF e \in names THEN Fresh(def(e)) ELSE events[e]]
      /\ reloaded' = reloaded \cup {e \in names : Voices(e) > 0}
      /\ slots' = slots /\ nextHandle' = nextHandle
  BY DEF LoadBank
<1> HIDE DEF def
<1>2. \A e \in names : def(e).max \in Int
  <2> SUFFICES ASSUME NEW e \in names PROVE def(e).max \in Int
    OBVIOUS
  <2>1. \E m \in 1 .. n : b[m][1] = e
    OBVIOUS
  <2>2. PICK m \in 1 .. n : def(e) = b[m][2]
    BY <2>1 DEF def
  <2>3. m \in 1 .. Len(b)
    OBVIOUS
  <2> QED BY <2>2, <2>3, BankAssumption
<1>3. \A e \in names : IsEvent(Fresh(def(e))) /\ Fresh(def(e)).voices = 0
  BY <1>2 DEF IsEvent, Fresh
<1> HIDE DEF names
<1>4. \A e : Voices(e)' = Voices(e)
  BY <1>1 DEF Voices, Playing
<1>5. ASSUME NEW e \in DOMAIN events'
      PROVE  /\ IsEvent(events'[e])
             /\ events'[e].voices <= Voices(e)'
             /\ events'[e].voices > 0 => events'[e].voices <= events'[e].max
             /\ e \notin reloaded' => events'[e].voices = Voices(e)'
  <2>1. CASE e \in names
    <3>1. events'[e] = Fresh(def(e))
      BY <1>1, <2>1
    <3>2. e \notin reloaded' => ~(Voices(e) > 0)
      BY <1>1, <2>1
    <3> QED BY <3>1, <3>2, <1>3, <1>4, <2>1, VoicesAre
  <2>2. CASE e \notin names
    <3>1. e \in DOMAIN events /\ events'[e] = events[e]
      BY <1>1, <2>2
    <3>2. e \notin reloaded' => e \notin reloaded
      BY <1>1
    <3> QED BY <3>1, <3>2, <1>4 DEF Sounding, VoicesCounted
  <2> QED BY <2>1, <2>2
<1>6. VoicesCounted'
  BY <1>5 DEF VoicesCounted
<1> QED BY <1>1, <1>5, <1>6 DEF Sounding

\* An event that only forgot how it was played counts as before.
LEMMA SilentStep ==
    ASSUME Sounding, NEW e \in DOMAIN events, NEW d, IsEvent(d),
           d.max = events[e].max, d.voices = events[e].voices,
           events' = [events EXCEPT ![e] = d], UNCHANGED <<slots, nextHandle, reloaded>>
    PROVE  Sounding'
<1>1. /\ events' = [f \in DOMAIN events |-> IF f = e THEN d ELSE events[f]]
      /\ slots' = slots /\ reloaded' = reloaded /\ nextHandle' = nextHandle
  BY DEF Sounding
<1>2. \A f : Voices(f)' = Voices(f)
  BY <1>1 DEF Voices, Playing
<1>3. VoicesCounted'
  BY <1>1, <1>2 DEF VoicesCounted, Sounding
<1> QED BY <1>1, <1>3 DEF Sounding

LEMMA StartStep ==
    ASSUME Sounding, NEW e \in DOMAIN events, NEW d, IsEvent(d),
           d.max = events[e].max, d.voices = events[e].voices,
           events[e].voices < events[e].max,
           Free # {}, Start(e, d), UNCHANGED reloaded
    PROVE  Sounding'
<1> DEFINE sound == [handle |-> nextHandle, event |-> e, looping |-> d.looping, tags |-> d.tags]
<1>1. PICK slot \in Free :
        /\ slots' = [slots EXCEPT ![slot] = sound]
        /\ nextHandle' = nextHandle + 1
        /\ events' = [events EXCEPT ![e] = [d EXCEPT !.voices = @ + 1]]
  <2>1. Free \in SUBSET Nat
    BY AudioAssumption DEF Free, Slot
  <2>2. \E i \in Free : \A j \in Free : i <= j
    BY <2>1, LeastOf
  <2> QED BY <2>2 DEF Start
<1>2. sound # Silent
  <2>1. sound.handle # 0
    BY DEF Sounding
  <2>2. sound # Silent
    BY <2>1 DEF Silent
  <2> QED BY <2>2
<1>3. sound.event = e
  OBVIOUS
<1> HIDE DEF sound
<1>4. slot \in Slot /\ ~Playing(slot)
  BY DEF Free
<1>5. slots' = [i \in Slot |-> IF i = slot THEN sound ELSE slots[i]]
  BY <1>1, <1>4 DEF Sounding
<1>6. SoundsOf(e)' = SoundsOf(e) \cup {slot} /\ slot \notin SoundsOf(e)
  BY <1>2, <1>3, <1>4, <1>5 DEF SoundsOf, Playing
<1>7. \A f : f # e => SoundsOf(f)' = SoundsOf(f)
  BY <1>2, <1>3, <1>4, <1>5 DEF SoundsOf, Playing
<1>8. Voices(e)' = Voices(e) + 1
  <2>1. IsFiniteSet(SoundsOf(e))
    BY SlotsAreFew DEF SoundsOf
  <2>2. Cardinality(SoundsOf(e) \cup {slot}) = Cardinality(SoundsOf(e)) + 1
    BY <2>1, <1>6, FS_AddElement
  <2>3. Voices(e)' = Cardinality(SoundsOf(e)')
    BY DEF Voices, SoundsOf
  <2> QED BY <2>2, <2>3, <1>6, VoicesAre
<1>9. \A f : f # e => Voices(f)' = Voices(f)
  <2>1. \A f : Voices(f)' = Cardinality(SoundsOf(f)')
    BY DEF Voices, SoundsOf
  <2> QED BY <2>1, <1>7, VoicesAre
<1> DEFINE n == [d EXCEPT !.voices = @ + 1]
<1>10. IsEvent(n) /\ n.max = events[e].max /\ n.voices = events[e].voices + 1
  BY DEF IsEvent
<1> HIDE DEF n
<1>11. events' = [f \in DOMAIN events |-> IF f = e THEN n ELSE events[f]]
  BY <1>1 DEF Sounding, n
<1>12. ASSUME NEW f \in DOMAIN events
       PROVE  /\ IsEvent(events'[f])
              /\ events'[f].voices <= Voices(f)'
              /\ events'[f].voices > 0 => events'[f].voices <= events'[f].max
              /\ f \notin reloaded => events'[f].voices = Voices(f)'
  <2>1. CASE f = e
    <3>1. events'[f] = n
      BY <1>11, <2>1
    <3>2. events[e].voices \in Nat /\ events[e].max \in Int /\ Voices(e) \in Nat
      BY VoicesAre DEF Sounding, IsEvent
    <3>3. events[e].voices <= Voices(e) /\ (e \notin reloaded => events[e].voices = Voices(e))
      BY DEF Sounding, VoicesCounted
    <3> QED BY <3>1, <3>2, <3>3, <2>1, <1>8, <1>10
  <2>2. CASE f # e
    <3>1. events'[f] = events[f] /\ Voices(f)' = Voices(f)
      BY <1>9, <1>11, <2>2
    <3> QED BY <3>1 DEF Sounding, VoicesCounted
  <2> QED BY <2>1, <2>2
<1>13. DOMAIN events' = DOMAIN events /\ events' = [f \in DOMAIN events' |-> events'[f]]
  BY <1>11
<1>14. VoicesCounted'
  BY <1>12, <1>13 DEF VoicesCounted
<1>15. slots' = [i \in Slot |-> slots'[i]] /\ nextHandle' \in Nat \ {0}
  BY <1>1, <1>5 DEF Sounding
<1> QED BY <1>12, <1>13, <1>14, <1>15 DEF Sounding

LEMMA PostStep ==
    ASSUME Sounding, NEW e \in DOMAIN events, Post(e)
    PROVE  Sounding'
<1> DEFINE def == Played(events[e])
<1>1. events[e].voices < events[e].max /\ reloaded' = reloaded
  BY DEF Post
<1>2. IsEvent(events[e])
  BY DEF Sounding
<1>3. IsEvent(def) /\ def.max = events[e].max /\ def.voices = events[e].voices
  BY <1>2 DEF Played, IsEvent
<1>4. CASE events' = [events EXCEPT ![e] = def] /\ UNCHANGED <<slots, nextHandle>>
  <2> HIDE DEF def
  <2> QED BY <1>1, <1>3, <1>4, SilentStep
<1>5. CASE \E v \in Candidates(def) : \E var \in Picked(def.variants[v]) :
              LET used == [def EXCEPT !.variants[v] = var]
              IN  \/ events' = [events EXCEPT ![e] = used] /\ UNCHANGED <<slots, nextHandle>>
                  \/ Free # {} /\ Start(e, used)
  <2> HIDE DEF def
  <2>0. PICK v \in Candidates(def) : \E var \in Picked(def.variants[v]) :
          LET used == [def EXCEPT !.variants[v] = var]
          IN  \/ events' = [events EXCEPT ![e] = used] /\ UNCHANGED <<slots, nextHandle>>
              \/ Free # {} /\ Start(e, used)
    BY <1>5
  <2>1. PICK var \in Picked(def.variants[v]) :
          LET used == [def EXCEPT !.variants[v] = var]
          IN  \/ events' = [events EXCEPT ![e] = used] /\ UNCHANGED <<slots, nextHandle>>
              \/ Free # {} /\ Start(e, used)
    BY <2>0
  <2> DEFINE used == [def EXCEPT !.variants[v] = var]
  <2>2. IsEvent(used) /\ used.max = events[e].max /\ used.voices = events[e].voices
    BY <1>3 DEF IsEvent
  <2>3. \/ events' = [events EXCEPT ![e] = used] /\ UNCHANGED <<slots, nextHandle>>
        \/ Free # {} /\ Start(e, used)
    BY <2>1
  <2> HIDE DEF used
  <2>4. CASE events' = [events EXCEPT ![e] = used] /\ UNCHANGED <<slots, nextHandle>>
    BY <1>1, <2>2, <2>4, SilentStep
  <2>5. CASE Free # {} /\ Start(e, used)
    BY <1>1, <2>2, <2>5, StartStep
  <2> QED BY <2>3, <2>4, <2>5
<1> QED BY <1>4, <1>5 DEF Post

\* Ending sounds that play takes as many off each count, and no count below zero.
LEMMA EndingStep ==
    ASSUME Sounding, NEW gone \in SUBSET Slot, \A i \in gone : Playing(i), End(gone)
    PROVE  Sounding'
<1> DEFINE ended(e) == {i \in gone : slots[i].event = e}
           stopped(e) == Cardinality(ended(e))
<1>1. /\ slots' = [i \in Slot |-> IF i \in gone THEN Silent ELSE slots[i]]
      /\ events' = [e \in DOMAIN events |->
             [events[e] EXCEPT !.voices = IF @ > stopped(e) THEN @ - stopped(e) ELSE 0]]
      /\ nextHandle' = nextHandle /\ reloaded' = reloaded
  BY DEF End, Freed
<1>2. ASSUME NEW e PROVE stopped(e) \in Nat /\ Voices(e)' = Voices(e) - stopped(e) /\ Voices(e)' \in Nat
  <2>1. ended(e) \subseteq SoundsOf(e) /\ SoundsOf(e) \subseteq Slot
    BY DEF SoundsOf
  <2>2. SoundsOf(e)' = SoundsOf(e) \ ended(e)
    BY <1>1 DEF SoundsOf, Playing
  <2>3. /\ IsFiniteSet(ended(e)) /\ stopped(e) \in Nat /\ IsFiniteSet(SoundsOf(e))
        /\ Cardinality(SoundsOf(e)) \in Nat
    BY <2>1, SlotsAreFew
  <2>4. SoundsOf(e) \cap ended(e) = ended(e)
    BY <2>1
  <2>5. Cardinality(SoundsOf(e) \ ended(e)) = Cardinality(SoundsOf(e)) - stopped(e)
    BY <2>3, <2>4, FS_Difference
  <2>6. Cardinality(SoundsOf(e) \ ended(e)) \in Nat
    BY <2>1, SlotsAreFew
  <2>7. Voices(e)' = Cardinality(SoundsOf(e)')
    BY DEF Voices, SoundsOf
  <2> QED BY <2>2, <2>3, <2>5, <2>6, <2>7, VoicesAre
<1> HIDE DEF stopped
<1>3. ASSUME NEW e \in DOMAIN events
      PROVE  /\ IsEvent(events'[e]) /\ events'[e].max = events[e].max
             /\ events'[e].voices = IF events[e].voices > stopped(e)
                                      THEN events[e].voices - stopped(e) ELSE 0
  <2>1. IsEvent(events[e]) /\ stopped(e) \in Nat
    BY <1>2 DEF Sounding
  <2> QED BY <1>1, <2>1 DEF IsEvent
<1>4. ASSUME NEW e \in DOMAIN events
      PROVE  /\ events'[e].voices <= Voices(e)'
             /\ events'[e].voices > 0 => events'[e].voices <= events'[e].max
             /\ e \notin reloaded => events'[e].voices = Voices(e)'
  <2>1. events[e].voices \in Nat /\ events[e].max \in Int
    BY DEF Sounding, IsEvent
  <2>2. /\ events[e].voices <= Voices(e)
        /\ events[e].voices > 0 => events[e].voices <= events[e].max
        /\ e \notin reloaded => events[e].voices = Voices(e)
    BY DEF Sounding, VoicesCounted
  <2> QED BY <1>2, <1>3, <2>1, <2>2, VoicesAre
<1>5. DOMAIN events' = DOMAIN events /\ events' = [e \in DOMAIN events' |-> events'[e]]
  BY <1>1
<1>6. VoicesCounted'
  BY <1>1, <1>4, <1>5 DEF VoicesCounted
<1>7. slots' = [i \in Slot |-> slots'[i]] /\ nextHandle' \in Nat \ {0}
  BY <1>1 DEF Sounding
<1> QED BY <1>3, <1>5, <1>6, <1>7 DEF Sounding

LEMMA StopAllStep == ASSUME Sounding, StopAll PROVE Sounding'
<1>1. /\ slots' = [i \in Slot |-> Silent]
      /\ events' = [e \in DOMAIN events |-> [events[e] EXCEPT !.voices = 0]]
      /\ nextHandle' = nextHandle
  BY DEF StopAll
<1>2. \A e : Voices(e)' = 0
  <2> SUFFICES ASSUME NEW e PROVE Voices(e)' = 0
    OBVIOUS
  <2>1. SoundsOf(e)' = {}
    BY <1>1 DEF SoundsOf, Playing
  <2>2. Voices(e)' = Cardinality(SoundsOf(e)')
    BY DEF Voices, SoundsOf
  <2> QED BY <2>1, <2>2, FS_EmptySet
<1>3. \A e \in DOMAIN events : IsEvent(events'[e]) /\ events'[e].voices = 0
  BY <1>1 DEF Sounding, IsEvent
<1>4. DOMAIN events' = DOMAIN events /\ events' = [e \in DOMAIN events' |-> events'[e]]
  BY <1>1
<1>5. VoicesCounted'
  BY <1>2, <1>3, <1>4 DEF VoicesCounted
<1>6. slots' = [i \in Slot |-> slots'[i]] /\ nextHandle' \in Nat \ {0}
  BY <1>1 DEF Sounding
<1> QED BY <1>3, <1>4, <1>5, <1>6 DEF Sounding

LEMMA QuietStep == ASSUME Sounding, UNCHANGED <<events, slots, nextHandle, reloaded>> PROVE Sounding'
BY DEF Sounding, VoicesCounted, Voices, Playing

LEMMA AudioStep == ASSUME Sounding, AudioNext PROVE Sounding'
<1>1. ASSUME NEW h \in 1 .. MaxHandle, StopEvent(h) PROVE Sounding'
  <2>1. End({i \in Slot : Playing(i) /\ slots[i].handle = h})
    BY <1>1 DEF StopEvent
  <2> DEFINE gone == {i \in Slot : Playing(i) /\ slots[i].handle = h}
  <2>2. gone \in SUBSET Slot /\ \A i \in gone : Playing(i)
    OBVIOUS
  <2> HIDE DEF gone
  <2> QED BY <2>1, <2>2, EndingStep DEF gone
<1>2. ASSUME NEW t \in Tag, StopByTag(t) PROVE Sounding'
  <2>1. End({i \in Slot : Playing(i) /\ t \in slots[i].tags})
    BY <1>2 DEF StopByTag
  <2> DEFINE gone == {i \in Slot : Playing(i) /\ t \in slots[i].tags}
  <2>2. gone \in SUBSET Slot /\ \A i \in gone : Playing(i)
    OBVIOUS
  <2> HIDE DEF gone
  <2> QED BY <2>1, <2>2, EndingStep DEF gone
<1>3. ASSUME CleanupFinished PROVE Sounding'
  <2>1. PICK over \in SUBSET {i \in Slot : Playing(i) /\ ~slots[i].looping} : End(over)
    BY <1>3 DEF CleanupFinished
  <2>2. over \in SUBSET Slot /\ \A i \in over : Playing(i)
    BY <2>1
  <2> QED BY <2>1, <2>2, EndingStep
<1>4. ASSUME NEW x \in Level, SetParam(x) PROVE Sounding'
  BY <1>4, QuietStep DEF SetParam
<1>5. ASSUME Passes PROVE Sounding'
  BY <1>5, QuietStep DEF Passes
<1> QED BY <1>1, <1>2, <1>3, <1>4, <1>5, LoadStep, PostStep, StopAllStep DEF AudioNext

\* An event's voices are the sounds of it that play, for every bank, every number
\* of slots and every order of posts, stops, endings and reloads
\* (Audio.cpp 303-312, 319-336, 468-483).
THEOREM VoicesNeverDrift == AudioSpec => []VoicesCounted
<1>1. AudioInit => Sounding
  <2> SUFFICES ASSUME AudioInit PROVE Sounding
    OBVIOUS
  <2>1. events = [e \in {} |-> 0] /\ slots = [i \in Slot |-> Silent] /\ nextHandle = 1
    BY DEF AudioInit
  <2>2. DOMAIN events = {}
    BY <2>1
  <2>3. events = [e \in DOMAIN events |-> events[e]]
    BY <2>1, <2>2
  <2> QED BY <2>1, <2>2, <2>3 DEF Sounding, VoicesCounted
<1>2. Sounding /\ [AudioNext]_audioVars => Sounding'
  BY AudioStep, QuietStep DEF audioVars
<1>3. Sounding => VoicesCounted
  BY DEF Sounding
<1> QED BY <1>1, <1>2, <1>3, PTL DEF AudioSpec

-----------------------------------------------------------------------------
(* Thumbnails *)

\* A picture shows the version its entry was made for, but of what raced.
Shows(known, showing, late) ==
    \A t \in Texture \ late : t \in DOMAIN known /\ showing[t] # 0 => showing[t] = known[t]

TruePictures == pictures = [t \in Texture |-> pictures[t]] /\ Shows(entries, pictures, raced)

LEMMA EvictKeeps ==
    ASSUME NEW gone, NEW known, NEW order, NEW showing, NEW late, Evict(gone, known, order, showing),
           Shows(known, showing, late), raced' = late
    PROVE  TruePictures'
BY DEF Evict, Shows, TruePictures

LEMMA MarkKeeps == ASSUME TruePictures, Mark PROVE TruePictures'
<1> DEFINE t == baking.texture
           known == [u \in DOMAIN entries \cup {t} |-> IF u = t THEN SourceTime(t) ELSE entries[u]]
           order == <<t>> \o SelectSeq(lru, LAMBDA u : u # t)
           showing == [pictures EXCEPT ![t] = baking.version]
<1>1. /\ Evict(OverBudget(order), known, order, showing)
      /\ raced' = IF files[t] = baking.version THEN raced \ {t} ELSE raced \cup {t}
  BY DEF Mark
<1>2. Shows(known, showing, raced')
  <2> SUFFICES ASSUME NEW u \in Texture \ raced', u \in DOMAIN known, showing[u] # 0
               PROVE  showing[u] = known[u]
    BY DEF Shows
  <2>1. CASE u = t
    <3>1. files[t] = baking.version
      BY <1>1, <2>1
    <3> QED BY <2>1, <3>1 DEF SourceTime, TruePictures
  <2>2. CASE u # t
    <3>1. u \in DOMAIN entries /\ known[u] = entries[u] /\ showing[u] = pictures[u] /\ u \notin raced
      BY <1>1, <2>2 DEF TruePictures
    <3> QED BY <3>1 DEF TruePictures, Shows
  <2> QED BY <2>1, <2>2
<1> HIDE DEF known, order, showing
<1> QED BY <1>1, <1>2, EvictKeeps

LEMMA ThumbnailStep == ASSUME TruePictures, FrameNext PROVE TruePictures'
<1>1. CASE UNCHANGED <<entries, pictures, raced>>
  BY <1>1 DEF TruePictures, Shows
<1>2. CASE Mark
  BY <1>2, MarkKeeps
<1>3. CASE Rescan \/ InvalidateStale \/ ClearCache
  <2>1. Shows(entries, pictures, raced) /\ raced' = raced
    BY <1>3 DEF TruePictures, Rescan, InvalidateStale, ClearCache
  <2> QED BY <1>3, <2>1, EvictKeeps DEF Rescan, InvalidateStale, ClearCache
<1> QED BY <1>1, <1>2, <1>3 DEF FrameNext, thumbnailVars, StartBake, EndBake, Panels, Writes, Load,
           GiveUp, Edit

\* What the panel calls valid shows the version the browser lists, for all textures,
\* versions and budgets, whatever is edited, rescanned, evicted or baked between
\* frames, unless the file changed while it was baked (ThumbnailCache.cpp 67-95,
\* 97-108, 183-214).
THEOREM PicturesShowTheirFiles == FrameSpec => []ThumbnailsAreTrue
<1>1. ThumbnailsInit => TruePictures
  <2> SUFFICES ASSUME ThumbnailsInit PROVE TruePictures
    OBVIOUS
  <2>1. DOMAIN entries = {} /\ pictures = [t \in Texture |-> 0]
    BY DEF ThumbnailsInit
  <2> QED BY <2>1 DEF TruePictures, Shows
<1>2. TruePictures /\ [FrameNext]_<<thumbnailVars, frameVars>> => TruePictures'
  BY ThumbnailStep DEF TruePictures, Shows, thumbnailVars
<1>3. TruePictures => ThumbnailsAreTrue
  BY DEF TruePictures, Shows, ThumbnailsAreTrue, Valid
<1> QED BY <1>1, <1>2, <1>3, PTL DEF FrameSpec

-----------------------------------------------------------------------------
(* Pipelines *)

PipelineSpec == PipelinesInit /\ [][PipelinesNext]_pipelineVars

\* An entry of either map, of a description asked for and of the stages it has;
\* built of what is wanted once its files are known.
IsGraphics(entry) ==
    entry.desc \in Graphics /\ DOMAIN entry.built = StagesOf(entry.desc)
IsCompute(entry) == entry.desc \in Compute /\ DOMAIN entry.built = {entry.desc.comp}
AsWanted(entry) == Announced(entry) => \A p \in DOMAIN entry.built : entry.built[p] = Wanted(entry, p)

\* What the registry has: shaders nobody edited unannounced are current, and so
\* are the pipelines; off, it has nothing.
Stocked ==
    /\ source \in [Path -> [edit: Nat \ {0}, compiles: BOOLEAN]]
    /\ edits \in Nat /\ \A p \in Path : source[p].edit <= edits
    /\ \A p \in DOMAIN modules \cap told : p \in Path => modules[p] = CompiledFrom(p)
    /\ \A b \in DOMAIN graphics : IsGraphics(graphics[b]) /\ AsWanted(graphics[b])
    /\ \A b \in DOMAIN compute : IsCompute(compute[b]) /\ AsWanted(compute[b])
    /\ cache \subseteq {gpu}
    /\ ~Running => DOMAIN modules = {} /\ DOMAIN graphics = {} /\ DOMAIN compute = {}

\* What the shader that polls has; its stamp is of an edit that was.
Watching ==
    /\ watched = [module |-> watched.module, stamp |-> watched.stamp, at |-> watched.at,
                  overtaken |-> watched.overtaken]
    /\ watched.stamp \in Nat /\ watched.stamp <= edits
    /\ (watched.at = "loading" /\ ~watched.overtaken) =>
          source[Watched].compiles /\ watched.module = source[Watched].edit
    /\ (watched.at = "idle" /\ watched.stamp = source[Watched].edit
            /\ source[Watched].compiles /\ ~watched.overtaken) =>
          watched.module = source[Watched].edit

LEMMA DescIs ==
    /\ \A d \in Graphics :
          /\ {d.vert, d.frag} \subseteq Path /\ StagesOf(d) \subseteq Path
          /\ {d.tesc, d.tese} \subseteq Path \cup {NoStage}
          /\ "comp" \notin DOMAIN d
          /\ \A p \in StagesOf(d) : p \in {d[s] : s \in DOMAIN d \ {"key"}}
    /\ \A d \in Compute : d.comp \in Path /\ "comp" \in DOMAIN d
                          /\ d.comp \in {d[s] : s \in DOMAIN d \ {"key"}}
<1>1. ASSUME NEW d \in Graphics
      PROVE  /\ {d.vert, d.frag} \subseteq Path /\ StagesOf(d) \subseteq Path
             /\ {d.tesc, d.tese} \subseteq Path \cup {NoStage}
             /\ "comp" \notin DOMAIN d
             /\ \A p \in StagesOf(d) : p \in {d[s] : s \in DOMAIN d \ {"key"}}
  <2>1. /\ {d.vert, d.frag} \subseteq Path /\ {d.tesc, d.tese} \subseteq Path \cup {NoStage}
        /\ DOMAIN d = {"vert", "frag", "tesc", "tese", "key"}
    BY PipelinesAssumption
  <2>2. StagesOf(d) \subseteq {d.vert, d.frag, d.tesc, d.tese}
    BY DEF StagesOf
  <2>3. {d.vert, d.frag, d.tesc, d.tese} \subseteq {d[s] : s \in DOMAIN d \ {"key"}}
    <3>1. {"vert", "frag", "tesc", "tese"} \subseteq DOMAIN d \ {"key"}
      BY <2>1
    <3> QED BY <3>1
  <2>4. StagesOf(d) \subseteq Path
    BY <2>1 DEF StagesOf, Tessellated
  <2> QED BY <2>1, <2>2, <2>3, <2>4
<1>2. ASSUME NEW d \in Compute
      PROVE  d.comp \in Path /\ "comp" \in DOMAIN d /\ d.comp \in {d[s] : s \in DOMAIN d \ {"key"}}
  BY PipelinesAssumption
<1> QED BY <1>1, <1>2

\* What is built of shaders that are current is what is wanted.
LEMMA BuiltAsWanted ==
    ASSUME Stocked, NEW d \in Graphics, StagesOf(d) \subseteq told, NEW p \in StagesOf(d),
           NEW entry, entry.desc = d
    PROVE  BuildGraphics(d)[p] = Wanted(entry, p)
<1>1. \A q \in StagesOf(d) : ModuleOf(q) = CompiledFrom(q)
  BY DescIs DEF Stocked, ModuleOf
<1>2. "comp" \notin DOMAIN entry.desc
  BY DescIs
<1>3. CASE p \in {d.vert, d.frag}
  <2>1. BuildGraphics(d)[p] = ModuleOf(p)
    BY <1>3 DEF BuildGraphics
  <2>2. Wanted(entry, p) = CompiledFrom(p)
    BY <1>3 DEF Wanted
  <2> QED BY <1>1, <2>1, <2>2
<1>4. CASE p \notin {d.vert, d.frag}
  <2>1. Tessellated(d) /\ {d.tesc, d.tese} \subseteq StagesOf(d)
    BY <1>4 DEF StagesOf
  <2>2. ModuleOf(d.tesc) = CompiledFrom(d.tesc) /\ ModuleOf(d.tese) = CompiledFrom(d.tese)
    BY <1>1, <2>1
  <2>3. BuildGraphics(d)[p] =
          IF CompiledFrom(d.tesc) # 0 /\ CompiledFrom(d.tese) # 0 THEN CompiledFrom(p) ELSE 0
    BY <1>1, <1>4, <2>1, <2>2 DEF BuildGraphics
  <2>4. Wanted(entry, p) =
          IF {CompiledFrom(q) : q \in {d.tesc, d.tese}} \cap {0} = {} THEN CompiledFrom(p) ELSE 0
    BY <1>2, <1>4 DEF Wanted
  <2>5. {CompiledFrom(q) : q \in {d.tesc, d.tese}} = {CompiledFrom(d.tesc), CompiledFrom(d.tese)}
    OBVIOUS
  <2> QED BY <2>3, <2>4, <2>5
<1> QED BY <1>3, <1>4

\* An edit takes the file's pipelines out of what is known to be current, and
\* changes what is wanted of no other.
LEMMA WantedStays ==
    ASSUME NEW entry, IsGraphics(entry) \/ IsCompute(entry), AsWanted(entry),
           \A q \in told' : q \in told /\ CompiledFrom(q)' = CompiledFrom(q)
    PROVE  AsWanted(entry)'
<1> SUFFICES ASSUME Announced(entry)', NEW p \in DOMAIN entry.built
             PROVE  entry.built[p] = Wanted(entry, p)'
  BY DEF AsWanted
<1>1. \A q \in DOMAIN entry.built : q \in told' /\ q \in told /\ CompiledFrom(q)' = CompiledFrom(q)
  BY DEF Announced
<1>2. entry.built[p] = Wanted(entry, p)
  BY <1>1 DEF AsWanted, Announced
<1> DEFINE d == entry.desc
<1>3. CASE "comp" \in DOMAIN d \/ p \in {d.vert, d.frag}
  BY <1>1, <1>2, <1>3 DEF Wanted
<1>4. CASE ~("comp" \in DOMAIN d \/ p \in {d.vert, d.frag})
  <2>1. IsGraphics(entry)
    BY <1>4, DescIs DEF IsCompute
  <2>2. {d.tesc, d.tese} \subseteq DOMAIN entry.built
    BY <1>4, <2>1 DEF IsGraphics, StagesOf
  <2>3. {CompiledFrom(q) : q \in {d.tesc, d.tese}}' = {CompiledFrom(q) : q \in {d.tesc, d.tese}}
    BY <1>1, <2>2
  <2> QED BY <1>1, <1>2, <1>4, <2>3 DEF Wanted
<1> QED BY <1>3, <1>4

\* The same of an entry that a map has afterwards.
LEMMA EntriesStay ==
    ASSUME NEW b
    PROVE  /\ \A entry : entry = graphics'[b] /\ AsWanted(entry)' => AsWanted(graphics[b])'
           /\ \A entry : entry = compute'[b] /\ AsWanted(entry)' => AsWanted(compute[b])'
BY DEF AsWanted, Announced, Wanted

\* What the maps have afterwards is wanted then when it was before.
LEMMA MapsStay ==
    ASSUME \A b \in DOMAIN graphics' : IsGraphics(graphics'[b]) /\ AsWanted(graphics'[b]),
           \A b \in DOMAIN compute' : IsCompute(compute'[b]) /\ AsWanted(compute'[b]),
           \A q \in told' : q \in told /\ CompiledFrom(q)' = CompiledFrom(q)
    PROVE  /\ \A b \in DOMAIN graphics' : IsGraphics(graphics'[b]) /\ AsWanted(graphics[b])'
           /\ \A b \in DOMAIN compute' : IsCompute(compute'[b]) /\ AsWanted(compute[b])'
<1>1. ASSUME NEW b \in DOMAIN graphics' PROVE AsWanted(graphics[b])'
  <2>1. PICK entry : entry = graphics'[b]
    OBVIOUS
  <2>2. IsGraphics(entry) /\ AsWanted(entry)
    BY <2>1
  <2>3. AsWanted(entry)'
    BY <2>2, WantedStays
  <2> QED BY <2>1, <2>3, EntriesStay
<1>2. ASSUME NEW b \in DOMAIN compute' PROVE AsWanted(compute[b])'
  <2>1. PICK entry : entry = compute'[b]
    OBVIOUS
  <2>2. IsCompute(entry) /\ AsWanted(entry)
    BY <2>1
  <2>3. AsWanted(entry)'
    BY <2>2, WantedStays
  <2> QED BY <2>1, <2>3, EntriesStay
<1> QED BY <1>1, <1>2

LEMMA EditKeeps == ASSUME Stocked, Watching, NEW p \in Path, EditShader(p) PROVE Stocked' /\ Watching'
<1>1. PICK ok \in BOOLEAN : source' = [source EXCEPT ![p] = [edit |-> edits + 1, compiles |-> ok]]
  BY DEF EditShader
<1>2. /\ edits' = edits + 1 /\ told' = told \ {p} /\ UNCHANGED <<registryVars, diskVars>>
      /\ watched' = [watched EXCEPT !.overtaken = @ \/ (p = Watched /\ watched.at = "loading")]
  BY DEF EditShader
<1>3. /\ source' \in [Path -> [edit: Nat \ {0}, compiles: BOOLEAN]]
      /\ \A q \in Path : source'[q].edit <= edits'
      /\ source'[p].edit = edits + 1 /\ \A q \in Path : q # p => source'[q] = source[q]
  BY <1>1, <1>2 DEF Stocked
<1>4. \A q : q # p => CompiledFrom(q)' = CompiledFrom(q)
  BY <1>1 DEF CompiledFrom, Stocked
<1>5. \A q \in told' : q \in told /\ CompiledFrom(q)' = CompiledFrom(q)
  BY <1>2, <1>4
<1>6. /\ \A b \in DOMAIN graphics' : IsGraphics(graphics'[b]) /\ AsWanted(graphics[b])'
      /\ \A b \in DOMAIN compute' : IsCompute(compute'[b]) /\ AsWanted(compute[b])'
  <2>1. graphics' = graphics /\ compute' = compute
    BY <1>2 DEF registryVars
  <2> QED BY <1>5, <2>1, MapsStay DEF Stocked
<1>7. Stocked'
  BY <1>2, <1>3, <1>5, <1>6 DEF Stocked, registryVars, diskVars, Running
<1>8. Watching'
  <2>1. Watched \in Path
    BY PipelinesAssumption
  <2>2. /\ watched'.stamp = watched.stamp /\ watched'.at = watched.at /\ watched'.module = watched.module
        /\ watched'.overtaken = (watched.overtaken \/ (p = Watched /\ watched.at = "loading"))
        /\ watched' = [module |-> watched'.module, stamp |-> watched'.stamp, at |-> watched'.at,
                       overtaken |-> watched'.overtaken]
    BY <1>2 DEF Watching
  <2>3. CASE p = Watched
    <3>1. watched'.stamp # source'[Watched].edit
      BY <1>3, <2>2, <2>3 DEF Watching, Stocked
    <3>2. watched'.stamp \in Nat /\ watched'.stamp <= edits'
      BY <1>2, <2>2 DEF Watching, Stocked
    <3> QED BY <2>2, <2>3, <3>1, <3>2 DEF Watching
  <2>4. CASE p # Watched
    <3>1. source'[Watched] = source[Watched] /\ edits' = edits + 1
      BY <1>2, <1>3, <2>1, <2>4
    <3>2. /\ watched'.stamp = watched.stamp /\ watched'.at = watched.at
          /\ watched'.module = watched.module
          /\ watched'.overtaken = (watched.overtaken \/ FALSE)
      BY <2>2, <2>4
    <3>3. ~watched'.overtaken => ~watched.overtaken
      BY <3>2
    <3> QED BY <2>2, <3>1, <3>2, <3>3 DEF Watching, Stocked
  <2> QED BY <2>3, <2>4
<1> QED BY <1>7, <1>8

LEMMA GetGraphicsKeeps == ASSUME Stocked, NEW d \in Graphics, GetGraphics(d) PROVE Stocked'
<1> DEFINE entry == [desc |-> d, built |-> BuildGraphics(d)]
<1>1. /\ Running /\ UNCHANGED <<source, edits, told, gpu, compute>>
      /\ \/ graphics' = With(graphics, Hash[d], entry) /\ cache' = cache \cup {gpu}
         \/ UNCHANGED <<graphics, cache>>
      /\ \E paths : modules' = WithLoaded(paths)
  BY DEF GetGraphics
<1>2. \A q : CompiledFrom(q)' = CompiledFrom(q)
  BY <1>1 DEF CompiledFrom
<1>3. \A p \in DOMAIN modules' \cap told' : p \in Path => modules'[p] = CompiledFrom(p)'
  BY <1>1, <1>2 DEF Stocked, WithLoaded, ModuleOf
<1>4. IsGraphics(entry)
  BY DEF IsGraphics, BuildGraphics
<1>5. AsWanted(entry)
  <2> SUFFICES ASSUME Announced(entry), NEW p \in DOMAIN entry.built PROVE entry.built[p] = Wanted(entry, p)
    BY DEF AsWanted
  <2>1. DOMAIN entry.built = StagesOf(d) /\ StagesOf(d) \subseteq told
    BY DEF Announced, BuildGraphics
  <2>2. BuildGraphics(d)[p] = Wanted(entry, p)
    BY <2>1, BuiltAsWanted
  <2> QED BY <2>2
<1> HIDE DEF entry
<1>6. \A b \in DOMAIN graphics' : IsGraphics(graphics'[b]) /\ AsWanted(graphics'[b])
  BY <1>1, <1>4, <1>5 DEF Stocked, With
<1>7. /\ \A b \in DOMAIN graphics' : AsWanted(graphics[b])'
      /\ \A b \in DOMAIN compute' : IsCompute(compute'[b]) /\ AsWanted(compute[b])'
  <2>1. \A q \in told' : q \in told /\ CompiledFrom(q)' = CompiledFrom(q)
    BY <1>1, <1>2
  <2> QED BY <1>1, <1>6, <2>1, MapsStay DEF Stocked
<1> QED BY <1>1, <1>3, <1>6, <1>7 DEF Stocked, Running

LEMMA GetComputeKeeps == ASSUME Stocked, NEW d \in Compute, GetCompute(d) PROVE Stocked'
<1> DEFINE entry == [desc |-> d, built |-> [p \in {d.comp} |-> ModuleOf(p)]]
<1>1. /\ Running /\ UNCHANGED <<source, edits, told, gpu, graphics, cache>>
      /\ compute' = With(compute, Hash[d], entry) \/ UNCHANGED compute
      /\ \E paths : modules' = WithLoaded(paths)
  BY DEF GetCompute, diskVars
<1>2. \A q : CompiledFrom(q)' = CompiledFrom(q)
  BY <1>1 DEF CompiledFrom
<1>3. \A p \in DOMAIN modules' \cap told' : p \in Path => modules'[p] = CompiledFrom(p)'
  BY <1>1, <1>2 DEF Stocked, WithLoaded, ModuleOf
<1>4. IsCompute(entry)
  BY DEF IsCompute
<1>5. AsWanted(entry)
  <2>1. d.comp \in Path /\ "comp" \in DOMAIN d
    BY DescIs
  <2>2. d.comp \in told => ModuleOf(d.comp) = CompiledFrom(d.comp)
    BY <2>1 DEF Stocked, ModuleOf
  <2> QED BY <2>1, <2>2 DEF AsWanted, Announced, Wanted
<1> HIDE DEF entry
<1>6. \A b \in DOMAIN compute' : IsCompute(compute'[b]) /\ AsWanted(compute'[b])
  BY <1>1, <1>4, <1>5 DEF Stocked, With
<1>7. /\ \A b \in DOMAIN compute' : AsWanted(compute[b])'
      /\ \A b \in DOMAIN graphics' : IsGraphics(graphics'[b]) /\ AsWanted(graphics[b])'
  <2>1. \A q \in told' : q \in told /\ CompiledFrom(q)' = CompiledFrom(q)
    BY <1>1, <1>2
  <2> QED BY <1>1, <1>6, <2>1, MapsStay DEF Stocked
<1> QED BY <1>1, <1>3, <1>6, <1>7 DEF Stocked, Running

\* Whatever used the shader goes, so what stays does not ask what became of it.
LEMMA InvalidateKeeps == ASSUME Stocked, NEW p \in Path, InvalidateShader(p) PROVE Stocked'
<1>1. /\ Running /\ UNCHANGED <<source, edits, gpu, cache>> /\ told' = told \cup {p}
      /\ graphics' = Without(graphics, p) /\ compute' = Without(compute, p)
      /\ modules' = [q \in DOMAIN modules |-> IF q = p THEN CompiledFrom(p) ELSE modules[q]]
  BY DEF InvalidateShader, diskVars
<1>2. \A q : CompiledFrom(q)' = CompiledFrom(q)
  BY <1>1 DEF CompiledFrom
<1>3. \A q \in DOMAIN modules' \cap told' : q \in Path => modules'[q] = CompiledFrom(q)'
  BY <1>1, <1>2 DEF Stocked
<1>4. ASSUME NEW entry, IsGraphics(entry) \/ IsCompute(entry), AsWanted(entry), ~UsesShader(entry, p)
      PROVE  AsWanted(entry)'
  <2>1. p \notin DOMAIN entry.built
    BY <1>4, DescIs DEF UsesShader, IsGraphics, IsCompute
  <2>2. Announced(entry)' => Announced(entry)
    BY <1>1, <2>1 DEF Announced
  <2>3. \A q : Wanted(entry, q)' = Wanted(entry, q)
    BY <1>2 DEF Wanted
  <2> QED BY <1>4, <2>2, <2>3 DEF AsWanted
<1>5. ASSUME NEW b \in DOMAIN graphics' PROVE IsGraphics(graphics'[b]) /\ AsWanted(graphics[b])'
  <2>1. b \in DOMAIN graphics /\ graphics'[b] = graphics[b] /\ ~UsesShader(graphics[b], p)
    BY <1>1 DEF Without
  <2>2. PICK entry : entry = graphics[b]
    OBVIOUS
  <2>3. IsGraphics(entry) /\ AsWanted(entry)
    BY <2>1, <2>2 DEF Stocked
  <2>4. AsWanted(entry)'
    BY <1>4, <2>1, <2>2, <2>3
  <2> QED BY <2>1, <2>2, <2>3, <2>4, EntriesStay
<1>6. ASSUME NEW b \in DOMAIN compute' PROVE IsCompute(compute'[b]) /\ AsWanted(compute[b])'
  <2>1. b \in DOMAIN compute /\ compute'[b] = compute[b] /\ ~UsesShader(compute[b], p)
    BY <1>1 DEF Without
  <2>2. PICK entry : entry = compute[b]
    OBVIOUS
  <2>3. IsCompute(entry) /\ AsWanted(entry)
    BY <2>1, <2>2 DEF Stocked
  <2>4. AsWanted(entry)'
    BY <1>4, <2>1, <2>2, <2>3
  <2> QED BY <2>1, <2>2, <2>3, <2>4, EntriesStay
<1> QED BY <1>1, <1>3, <1>5, <1>6 DEF Stocked, Running

\* A registry without pipelines, and without shaders or as it was.
LEMMA EmptyKeeps ==
    ASSUME Stocked, UNCHANGED <<source, edits>>, DOMAIN graphics' = {}, DOMAIN compute' = {},
           DOMAIN modules' = {} \/ (UNCHANGED <<modules, told, gpu>> /\ Running), cache' \subseteq {gpu'}
    PROVE  Stocked'
<1>1. \A q : CompiledFrom(q)' = CompiledFrom(q)
  BY DEF CompiledFrom
<1> QED BY <1>1 DEF Stocked, Running

LEMMA PollKeeps ==
    ASSUME Stocked, Watching, LoadWatched \/ StampWatched \/ CheckReload \/ RecompileWatched
           \/ UnopenedWatched
    PROVE  Watching'
<1>1. Watched \in Path /\ source[Watched].edit \in Nat \ {0} /\ source[Watched].edit <= edits
  BY PipelinesAssumption DEF Stocked
<1>2. source' = source /\ edits' = edits
  BY DEF LoadWatched, StampWatched, CheckReload, RecompileWatched, UnopenedWatched
<1>3. CASE LoadWatched
  BY <1>1, <1>2, <1>3 DEF LoadWatched, Watching, CompiledFrom, Unloaded
<1>4. CASE StampWatched
  BY <1>1, <1>2, <1>4 DEF StampWatched, Watching
<1>5. CASE CheckReload
  BY <1>1, <1>2, <1>5 DEF CheckReload, Watching
<1>6. CASE RecompileWatched
  BY <1>1, <1>2, <1>6 DEF RecompileWatched, Watching, CompiledFrom
<1>7. CASE UnopenedWatched
  <2>1. edits \in Nat
    BY DEF Stocked
  <2>2. /\ watched' = [module |-> watched'.module, stamp |-> watched'.stamp, at |-> watched'.at,
                        overtaken |-> watched'.overtaken]
        /\ watched'.at = "idle" /\ watched'.stamp = 0
    BY <1>7 DEF UnopenedWatched, Watching
  <2> QED BY <1>1, <1>2, <2>1, <2>2 DEF Watching
<1> QED BY <1>3, <1>4, <1>5, <1>6, <1>7

LEMMA PipelineStep == ASSUME Stocked, Watching, PipelinesNext PROVE Stocked' /\ Watching'
<1>1. DOMAIN Empty = {}
  BY DEF Empty
<1>2. ASSUME UNCHANGED <<source, edits, watched>> PROVE Watching'
  BY <1>2 DEF Watching
<1>3. ASSUME UNCHANGED <<source, edits>>, watched' = Unloaded PROVE Watching'
  <2>1. Watched \in Path /\ source[Watched].edit # 0 /\ edits \in Nat
    BY PipelinesAssumption DEF Stocked
  <2> QED BY <1>3, <2>1 DEF Watching, Unloaded
<1>4. ASSUME NEW g \in Gpu, LaunchOn(g) PROVE Stocked' /\ Watching'
  <2>1. /\ UNCHANGED <<source, edits, graphics, compute, modules, watched>> /\ ~Running
        /\ cache' \subseteq {gpu'}
    BY <1>4 DEF LaunchOn, ValidBlob, registryVars
  <2>2. DOMAIN modules' = {} /\ DOMAIN graphics' = {} /\ DOMAIN compute' = {}
    BY <2>1 DEF Stocked
  <2> QED BY <1>2, <2>1, <2>2, EmptyKeeps
<1>5. ASSUME DestroyAll PROVE Stocked' /\ Watching'
  <2>1. /\ UNCHANGED <<source, edits, told, gpu, cache, modules, watched>> /\ Running
        /\ DOMAIN graphics' = {} /\ DOMAIN compute' = {}
    BY <1>1, <1>5 DEF DestroyAll, diskVars
  <2>2. cache' \subseteq {gpu'}
    BY <2>1 DEF Stocked
  <2> QED BY <1>2, <2>1, <2>2, EmptyKeeps
<1>6. ASSUME RegistryShutdown \/ RegistryCrash PROVE Stocked' /\ Watching'
  <2>1. /\ UNCHANGED <<source, edits>> /\ watched' = Unloaded /\ cache' \subseteq {gpu'}
        /\ DOMAIN modules' = {} /\ DOMAIN graphics' = {} /\ DOMAIN compute' = {}
    BY <1>1, <1>6 DEF RegistryShutdown, RegistryCrash, RegistryGone
  <2> QED BY <1>3, <2>1, EmptyKeeps
<1>7. ASSUME LoadWatched \/ StampWatched \/ CheckReload \/ RecompileWatched \/ UnopenedWatched
      PROVE  Stocked' /\ Watching'
  <2>1. UNCHANGED <<source, edits, told, modules, graphics, compute, gpu, cache>>
    BY <1>7 DEF LoadWatched, StampWatched, CheckReload, RecompileWatched, UnopenedWatched,
                  registryVars, diskVars
  <2>2. Stocked'
    BY <2>1 DEF Stocked, AsWanted, Announced, Wanted, CompiledFrom, Running
  <2> QED BY <1>7, <2>2, PollKeeps
<1>8. ASSUME NEW d \in Graphics, GetGraphics(d) PROVE Stocked' /\ Watching'
  BY <1>2, <1>8, GetGraphicsKeeps DEF GetGraphics
<1>9. ASSUME NEW d \in Compute, GetCompute(d) PROVE Stocked' /\ Watching'
  BY <1>2, <1>9, GetComputeKeeps DEF GetCompute
<1>10. ASSUME NEW p \in Path, InvalidateShader(p) PROVE Stocked' /\ Watching'
  BY <1>2, <1>10, InvalidateKeeps DEF InvalidateShader
<1> QED BY <1>4, <1>5, <1>6, <1>7, <1>8, <1>9, <1>10, EditKeeps DEF PipelinesNext

\* Once a shader was invalidated every pipeline handed out is built of what its
\* files hold, no driver's blob is another GPU's, and a shader that polls is current
\* when it was looked at, for all files, descriptions and hashes, colliding ones too
\* (PipelineRegistry.cpp 58-77, 107-138, VkShader.cpp 116-201).
THEOREM PipelinesStayCurrent == PipelineSpec => []PipelinesAreCurrent
<1>1. PipelinesInit => Stocked /\ Watching
  <2> SUFFICES ASSUME PipelinesInit PROVE Stocked /\ Watching
    OBVIOUS
  <2>1. DOMAIN modules = {} /\ DOMAIN graphics = {} /\ DOMAIN compute = {}
    BY DEF PipelinesInit, Empty
  <2>2. Watched \in Path /\ source \in [Path -> [edit: {1}, compiles: BOOLEAN]] /\ edits = 1
    BY PipelinesAssumption DEF PipelinesInit
  <2>3. Stocked
    BY <2>1, <2>2 DEF PipelinesInit, Stocked
  <2>4. Watching
    BY <2>2 DEF PipelinesInit, Watching, Unloaded
  <2> QED BY <2>3, <2>4
<1>2. (Stocked /\ Watching) /\ [PipelinesNext]_pipelineVars => (Stocked /\ Watching)'
  <2> SUFFICES ASSUME Stocked, Watching, UNCHANGED pipelineVars PROVE Stocked' /\ Watching'
    BY PipelineStep
  <2> QED BY DEF pipelineVars, Stocked, Watching, AsWanted, Announced, Wanted, CompiledFrom, Running
<1>3. Stocked /\ Watching => PipelinesAreCurrent
  BY DEF Stocked, Watching, PipelinesAreCurrent, AsWanted
<1> QED BY <1>1, <1>2, <1>3, PTL DEF PipelineSpec

-----------------------------------------------------------------------------
(* Crossfades *)

AnimatorSpec == AnimatorInit /\ [][AnimatorNext]_animatorVars

\* A crossfade goes from one state to another.
Crossfade ==
    /\ anim \in [current: AnimState \cup {Nowhere}, target: AnimState \cup {Nowhere},
                 elapsed: Nat, fade: Int]
    /\ DOMAIN cursor = AnimState
    /\ Fading => anim.target # anim.current
    /\ anim.current = Nowhere => ~Fading

\* What begins fades, for a tick at least, from the beginning of another clip.
LEMMA BegunFades ==
    ASSUME Crossfade, NEW to \in AnimState, NEW d \in Int, to # anim.current, anim.current # Nowhere
    PROVE  LET b == Begun(anim, to, d) IN
           /\ b.current = anim.current /\ b.target = to /\ b.elapsed = 0
           /\ b.fade \in Int /\ b.fade >= 1
           /\ b \in [current: AnimState \cup {Nowhere}, target: AnimState \cup {Nowhere},
                     elapsed: Nat, fade: Int]
<1>1. AtLeastOne(d) \in Int /\ AtLeastOne(d) >= 1
  BY DEF AtLeastOne
<1> QED BY <1>1 DEF Begun, Crossfade

LEMMA FadeKeeps ==
    ASSUME Crossfade, NEW dt \in Elapse, Fade(dt)
    PROVE  /\ Crossfade'
           /\ \A s \in AnimState : Weight(anim, s) > 0 =>
                /\ cursor'[s] = Advanced(s, dt)
                /\ Weight(anim', s) = 0 => Weight(anim, s) <= dt
<1> DEFINE a == [anim EXCEPT !.elapsed = @ + dt]
<1>1. dt \in Nat /\ Nowhere \notin AnimState /\ dt > 0
  BY AnimatorAssumption
<1>2. /\ anim.current \in AnimState /\ anim.target \in AnimState /\ anim.target # anim.current
      /\ anim.elapsed \in Nat /\ anim.fade \in Int /\ anim.target # Nowhere
  BY <1>1 DEF Fade, Crossfade, Fading
<1>3. /\ a.current = anim.current /\ a.target = anim.target /\ a.fade = anim.fade
      /\ a.elapsed = anim.elapsed + dt
      /\ a \in [current: AnimState \cup {Nowhere}, target: AnimState \cup {Nowhere},
                elapsed: Nat, fade: Int]
  BY <1>1 DEF Crossfade
<1>4. anim' = IF a.elapsed >= a.fade THEN Completed(a) ELSE a
  BY DEF Fade
<1> HIDE DEF a
<1>5. DOMAIN cursor' = AnimState
  BY DEF Fade
<1>6. Crossfade'
  <2>1. CASE a.elapsed >= a.fade
    BY <1>1, <1>2, <1>3, <1>4, <1>5, <2>1 DEF Completed, Crossfade, Fading
  <2>2. CASE ~(a.elapsed >= a.fade)
    BY <1>1, <1>2, <1>3, <1>4, <1>5, <2>2 DEF Crossfade, Fading
  <2> QED BY <2>1, <2>2
<1>7. ASSUME NEW s \in AnimState, Weight(anim, s) > 0
      PROVE  cursor'[s] = Advanced(s, dt) /\ (Weight(anim', s) = 0 => Weight(anim, s) <= dt)
  <2>1. /\ s = anim.target => Weight(anim, s) = anim.elapsed
        /\ s = anim.current => Weight(anim, s) = anim.fade - anim.elapsed
        /\ s \in {anim.current, anim.target}
    BY <1>2, <1>7 DEF Weight
  <2>2. cursor'[s] = Advanced(s, dt)
    BY <2>1 DEF Fade
  <2>3. CASE a.elapsed >= a.fade
    <3>1. s = anim.target => Weight(anim', s) = 1
      BY <1>2, <1>3, <1>4, <2>3 DEF Completed, Weight
    <3>2. s = anim.current => Weight(anim, s) <= dt
      BY <1>1, <1>2, <1>3, <2>1, <2>3
    <3> QED BY <2>1, <2>2, <3>1, <3>2
  <2>4. CASE ~(a.elapsed >= a.fade)
    <3>1. Weight(anim', s) > 0
      BY <1>1, <1>2, <1>3, <1>4, <2>1, <2>4 DEF Weight
    <3> QED BY <2>2, <3>1
  <2> QED BY <2>3, <2>4
<1> QED BY <1>6, <1>7

\* A transition out of the state that shows alone.
LEMMA BeginKeeps ==
    ASSUME Crossfade, ~Fading, anim.current # Nowhere, NEW to \in AnimState, NEW d \in Int,
           NEW played, DOMAIN played = AnimState,
           anim' = Begun(anim, to, d), cursor' = Rewound(played, anim, anim')
    PROVE  /\ Crossfade'
           /\ \A s \in AnimState : Weight(anim, s) > 0 =>
                cursor'[s] = played[s] /\ Weight(anim', s) # 0
<1>1. \A s \in AnimState : Weight(anim, s) > 0 => s = anim.current
  BY DEF Weight, Fading
<1>2. Weight(anim, anim.current) = 1
  BY DEF Weight, Fading
<1>3. CASE to = anim.current
  <2>1. anim' = anim /\ cursor' = played
    BY <1>3 DEF Begun, Rewound
  <2> QED BY <1>1, <1>2, <2>1 DEF Crossfade, Fading
<1>4. CASE to # anim.current
  <2>1. /\ anim'.current = anim.current /\ anim'.target = to /\ anim'.elapsed = 0
        /\ anim'.fade \in Int /\ anim'.fade >= 1
        /\ anim' \in [current: AnimState \cup {Nowhere}, target: AnimState \cup {Nowhere},
                      elapsed: Nat, fade: Int]
    BY <1>4, BegunFades
  <2>2. to # Nowhere
    BY AnimatorAssumption
  <2>3. cursor' = [played EXCEPT ![to] = 0]
    BY <2>1, <2>2 DEF Rewound, Fading
  <2>4. Crossfade'
    BY <1>4, <2>1, <2>3 DEF Crossfade, Fading
  <2>5. Weight(anim', anim.current) >= 1
    BY <1>4, <2>1, <2>2 DEF Weight
  <2>6. anim.current \in AnimState => cursor'[anim.current] = played[anim.current]
    BY <1>4, <2>3
  <2>7. Weight(anim', anim.current) # 0
    BY <1>4, <2>1, <2>2, <2>5 DEF Weight
  <2> QED BY <1>1, <2>4, <2>6, <2>7
<1> QED BY <1>3, <1>4

LEMMA PlayKeeps ==
    ASSUME Crossfade, NEW dt \in Elapse, Play(dt)
    PROVE  /\ Crossfade'
           /\ \A s \in AnimState : Weight(anim, s) > 0 =>
                cursor'[s] = Advanced(s, dt) /\ Weight(anim', s) # 0
<1> DEFINE played == [cursor EXCEPT ![anim.current] = Advanced(anim.current, dt)]
           firing == {i \in DOMAIN Transitions : Fires(Transitions[i], played[anim.current])}
<1>1. anim.current # Nowhere /\ ~Fading /\ anim.current \in AnimState
  BY DEF Play, Crossfade
<1>2. DOMAIN played = AnimState /\ played[anim.current] = Advanced(anim.current, dt)
  BY <1>1 DEF Crossfade
<1>3. \A s \in AnimState : Weight(anim, s) > 0 => s = anim.current
  BY <1>1 DEF Weight, Fading
<1>4. CASE firing = {}
  <2>1. cursor' = played /\ anim' = anim
    BY <1>4 DEF Play
  <2>2. Weight(anim, anim.current) # 0
    BY <1>1 DEF Weight, Fading
  <2> QED BY <1>2, <1>3, <2>1, <2>2 DEF Crossfade, Fading
<1>5. CASE firing # {}
  <2> DEFINE e == Transitions[CHOOSE i \in firing : \A j \in firing : i <= j]
  <2>1. anim' = Begun(anim, e.to, e.fade) /\ cursor' = Rewound(played, anim, anim')
    BY <1>5 DEF Play
  <2>2. e.to \in AnimState /\ e.fade \in Int
    <3>1. \E i \in firing : \A j \in firing : i <= j
      BY <1>5, AnimatorAssumption, LeastOf
    <3> QED BY <3>1, AnimatorAssumption
  <2> HIDE DEF e, played
  <2> QED BY <1>1, <1>2, <1>3, <2>1, <2>2, BeginKeeps
<1> QED BY <1>4, <1>5

LEMMA ForceKeeps ==
    ASSUME Crossfade, NEW to \in AnimState, NEW d \in Forced, TriggerTransition(to, d)
    PROVE  /\ Crossfade'
           /\ ~Fading => \A s \in AnimState : Weight(anim, s) > 0 =>
                cursor'[s] = cursor[s] /\ Weight(anim', s) # 0
<1> DEFINE fade == IF d >= 0 THEN d ELSE EdgeFade(to)
           edges == {i \in DOMAIN Transitions :
                        Transitions[i].from = anim.current /\ Transitions[i].to = to}
<1>1. /\ anim.current # Nowhere /\ (to # anim.current \/ Fading)
      /\ anim' = Begun(anim, to, fade) /\ cursor' = Rewound(cursor, anim, anim')
  BY DEF TriggerTransition
<1>2. fade \in Int
  <2>1. CASE edges = {}
    BY <2>1, AnimatorAssumption DEF EdgeFade
  <2>2. CASE edges # {}
    <3>1. \E i \in edges : \A j \in edges : i <= j
      BY <2>2, AnimatorAssumption, LeastOf
    <3>2. EdgeFade(to) = Transitions[CHOOSE i \in edges : \A j \in edges : i <= j].fade
      BY <2>2 DEF EdgeFade
    <3> QED BY <3>1, <3>2, AnimatorAssumption
  <2> QED BY <2>1, <2>2
<1> HIDE DEF fade, edges
<1>3. CASE ~Fading
  BY <1>1, <1>2, <1>3, BeginKeeps DEF Crossfade
<1>4. CASE Fading /\ to = anim.current
  BY <1>1, <1>4 DEF Begun, Rewound, Crossfade, Fading
<1>5. CASE Fading /\ to # anim.current
  <2>1. /\ anim'.current = anim.current /\ anim'.target = to
        /\ anim' \in [current: AnimState \cup {Nowhere}, target: AnimState \cup {Nowhere},
                      elapsed: Nat, fade: Int]
    BY <1>1, <1>2, <1>5, BegunFades
  <2>2. DOMAIN cursor' = AnimState
    BY <1>1 DEF Rewound, Crossfade
  <2> QED BY <1>1, <1>5, <2>1, <2>2 DEF Crossfade, Fading
<1> QED BY <1>3, <1>4, <1>5

\* The picture of an animation never jumps, but for what a game forces in the middle
\* of a crossfade: for every graph of states and transitions, all lengths of clips,
\* durations and times between updates (AnimationStateMachine.cpp 56-106, 258-272).
THEOREM PicturesNeverPop == AnimatorSpec => NothingPops
<1>1. AnimatorInit => Crossfade
  BY DEF AnimatorInit, Crossfade, Fading
<1>2. Crossfade /\ [AnimatorNext]_animatorVars => Crossfade'
  <2> SUFFICES ASSUME Crossfade, [AnimatorNext]_animatorVars PROVE Crossfade'
    OBVIOUS
  <2>1. ASSUME UNCHANGED <<anim, cursor>> PROVE Crossfade'
    BY <2>1 DEF Crossfade, Fading
  <2>2. ASSUME NEW s \in AnimState, SetInitialState(s) PROVE Crossfade'
    BY <2>2, AnimatorAssumption DEF SetInitialState, Crossfade, Fading
  <2>3. CASE (\E t \in Trigger : SetTrigger(t) \/ ClearTrigger(t)) \/ ClearAllTriggers
    BY <2>1, <2>3 DEF SetTrigger, ClearTrigger, ClearAllTriggers
  <2>4. CASE \E dt \in Elapse : Update(dt)
    BY <2>4, FadeKeeps, PlayKeeps DEF Update
  <2>5. CASE \E s \in AnimState, d \in Forced : TriggerTransition(s, d)
    BY <2>5, ForceKeeps
  <2> QED BY <2>1, <2>2, <2>3, <2>4, <2>5 DEF AnimatorNext, animatorVars
<1>3. ASSUME Crossfade, Undisturbed, NEW s \in AnimState, Weight(anim, s) > 0
      PROVE  /\ cursor'[s] \in {cursor[s]} \cup {Advanced(s, dt) : dt \in Elapse}
             /\ Weight(anim', s) = 0 => \E dt \in Elapse : Weight(anim, s) <= dt
  <2>1. ASSUME NEW dt \in Elapse, Update(dt)
        PROVE  cursor'[s] = Advanced(s, dt) /\ (Weight(anim', s) = 0 => Weight(anim, s) <= dt)
    BY <1>3, <2>1, FadeKeeps, PlayKeeps DEF Update
  <2>2. ASSUME ~Fading, \E to \in AnimState, d \in Forced : TriggerTransition(to, d)
        PROVE  cursor'[s] = cursor[s] /\ Weight(anim', s) # 0
    BY <1>3, <2>2, ForceKeeps
  <2> QED BY <1>3, <2>1, <2>2 DEF Undisturbed
<1>4. Crossfade /\ [AnimatorNext]_animatorVars =>
        [Undisturbed => \A s \in AnimState : Weight(anim, s) > 0 =>
          /\ cursor'[s] \in {cursor[s]} \cup {Advanced(s, dt) : dt \in Elapse}
          /\ Weight(anim', s) = 0 => \E dt \in Elapse : Weight(anim, s) <= dt]_animatorVars
  BY <1>3
<1> QED BY <1>1, <1>2, <1>4, PTL DEF AnimatorSpec, NothingPops

-----------------------------------------------------------------------------
(* Input *)

InputSpec == InputInit /\ [][DeviceNext \/ BindingsNext]_inputVars

\* What is down, or is to be, has not been quiet for long: a key, a click, a hold,
\* a button of the gamepad.
Recent ==
    /\ held.pad \in (SUBSET PadButton) \cup {NoPad} /\ input.connected \in BOOLEAN
    /\ quiet \in Int /\ quiet <= 2 /\ input.frames \in 0 .. 2
    /\ \A k \in DOMAIN holds :
          /\ holds[k] \in Nat
          /\ quiet <= IF frame = "commands" THEN 1 - holds[k] ELSE 0 - holds[k]
    /\ input.injected # {} \/ input.padInjected # {} \/ input.frames = 2 => quiet <= 0
    /\ input.keys # {} \/ input.frames = 1 => quiet <= 1
    /\ input.active => input.frames # 0
    /\ ~(input.pad \subseteq stranded) => input.connected /\ quiet <= 1
    /\ imgui \subseteq overtaken \cup (IF input.frames = 1 THEN {input.button} ELSE {})

\* The records keep their fields.
Fields ==
    input = [keys |-> input.keys, injected |-> input.injected, frames |-> input.frames,
             button |-> input.button, active |-> input.active, connected |-> input.connected,
             pad |-> input.pad, padInjected |-> input.padInjected]

\* The bindings, and the file they were saved to.
Stored ==
    /\ bindings \in [Action -> [BindSlot -> Binding]]
    /\ \A a \in Action : \A s \in DOMAIN bindingFile[a] \cap BindSlot : bindingFile[a][s] \in Binding
    /\ \A b \in saved, a \in Action, s \in BindSlot :
          b[a][s] # NoBinding => s \in DOMAIN bindingFile[a] /\ bindingFile[a][s] = b[a][s]

LEMMA CommandKeeps ==
    ASSUME Recent, NEW n \in Nat \ {0}, frame = "commands", UNCHANGED <<frame, held, imgui, stranded>>,
           quiet' = IF quiet < 1 - n THEN quiet ELSE 1 - n,
           input'.keys = input.keys, input'.connected = input.connected, input'.pad = input.pad,
           input'.active = input.active,
           \/ input'.frames = input.frames /\ input'.button = input.button /\ overtaken' = overtaken
           \/ /\ input'.frames = 2
              /\ overtaken' = IF input.frames = 1 THEN overtaken \cup {input.button} ELSE overtaken,
           \A k \in DOMAIN holds' : holds'[k] = n \/ (k \in DOMAIN holds /\ holds'[k] = holds[k])
    PROVE  Recent'
<1>1. quiet' \in Int /\ quiet' <= quiet /\ quiet' <= 1 - n /\ quiet' <= 0
  BY DEF Recent
<1>2. \A k \in DOMAIN holds' : holds'[k] \in Nat /\ quiet' <= 1 - holds'[k]
  BY <1>1 DEF Recent
<1>3. imgui' \subseteq overtaken' \cup (IF input'.frames = 1 THEN {input'.button} ELSE {})
  BY DEF Recent
<1> QED BY <1>1, <1>2, <1>3 DEF Recent

LEMMA TickKeeps == ASSUME Recent, Fields, TickHolds PROVE Recent' /\ Fields'
<1>1. /\ frame = "commands" /\ frame' = "update" /\ UNCHANGED <<held, imgui, quiet, overtaken, stranded>>
      /\ input' = [input EXCEPT !.injected = @ \cup DOMAIN holds']
      /\ holds' = [k \in {j \in DOMAIN holds : holds[j] > 0} |-> holds[k] - 1]
  BY DEF TickHolds, LastingHolds
<1>2. \A k \in DOMAIN holds' : holds'[k] \in Nat /\ quiet <= 0 - holds'[k] /\ quiet <= 0
  BY <1>1 DEF Recent
<1>3. /\ input'.injected = input.injected \cup DOMAIN holds'
      /\ input'.keys = input.keys /\ input'.frames = input.frames /\ input'.button = input.button
      /\ input'.active = input.active /\ input'.connected = input.connected
      /\ input'.pad = input.pad /\ input'.padInjected = input.padInjected
  BY <1>1 DEF Fields
<1>4. Fields'
  BY <1>1 DEF Fields
<1>5. input'.injected # {} => quiet <= 0
  BY <1>2, <1>3 DEF Recent
<1> QED BY <1>1, <1>2, <1>3, <1>4, <1>5 DEF Recent

LEMMA UpdateKeeps == ASSUME Recent, UpdateInput PROVE Recent' /\ Fields'
<1>1. /\ frame = "update" /\ frame' = "commands" /\ UNCHANGED <<held, holds>> /\ input' = Updated
  BY DEF UpdateInput
<1>2. /\ quiet' \in Int /\ quiet' <= 2
      /\ quiet <= 0 => quiet' <= 1
      /\ quiet < 0 => quiet' = quiet + 1
      /\ held.keys # {} \/ held.pad \notin {{}, NoPad} => quiet' <= 0
  BY DEF UpdateInput, Recent
<1>3. \A k \in DOMAIN holds : holds[k] \in Nat /\ quiet' <= 1 - holds[k]
  BY <1>1, <1>2 DEF Recent
<1>4. Fields' /\ input'.injected = {} /\ input'.padInjected = {} /\ input'.keys = held.keys \cup input.injected
  BY <1>1 DEF Updated, ClearInjected, Fields
<1>5. input'.keys # {} => quiet' <= 1
  BY <1>2, <1>4 DEF Recent
<1>6. /\ input'.frames \in 0 .. 2 /\ input'.frames # 2
      /\ input'.frames = 1 <=> input.frames = 2
      /\ input'.button = input.button
      /\ input'.active => input.frames = 2
  <2>1. input.frames > 0 => (input'.active <=> input.frames = 2)
    BY <1>1 DEF Updated
  <2>2. input.frames = 0 => (input'.active <=> input.active)
    BY <1>1 DEF Updated
  <2>3. /\ input'.frames = IF input.frames > 0 THEN input.frames - 1 ELSE 0
        /\ input'.button = input.button
    BY <1>1 DEF Updated
  <2> QED BY <2>1, <2>2, <2>3 DEF Recent
<1>7. input'.frames = 1 => quiet' <= 1
  BY <1>2, <1>6 DEF Recent
<1>8. imgui' \subseteq overtaken' \cup (IF input'.frames = 1 THEN {input'.button} ELSE {})
  <2>1. CASE input.frames = 2
    BY <1>6, <2>1 DEF UpdateInput, Recent
  <2>2. CASE input.frames # 2
    BY <1>6, <2>2 DEF UpdateInput, Recent
  <2> QED BY <2>1, <2>2
<1>9. input'.connected \in BOOLEAN /\ (~(input'.pad \subseteq stranded') => input'.connected /\ quiet' <= 1)
  <2>1. input'.connected \in BOOLEAN /\ (input'.connected <=> Connected)
    BY <1>1 DEF Updated, Connected
  <2>2. input'.pad = Polled \cup input.padInjected
    BY <1>1 DEF Updated
  <2>3. CASE Connected
    <3>1. input'.pad = held.pad \cup input.padInjected /\ held.pad # NoPad
      BY <2>2, <2>3 DEF Polled, Connected
    <3>2. held.pad # {} => quiet' <= 1
      BY <1>2, <3>1
    <3>3. input.padInjected # {} => quiet' <= 1
      BY <1>2 DEF Recent
    <3> QED BY <2>1, <2>3, <3>1, <3>2, <3>3
  <2>4. CASE ~Connected /\ input.connected
    BY <2>1, <2>2, <2>4 DEF UpdateInput, Polled
  <2>5. CASE ~Connected /\ ~input.connected
    <3>1. input.pad \subseteq stranded
      BY <2>5 DEF Recent
    <3>2. input'.pad = input.pad \cup input.padInjected
      BY <2>2, <2>5 DEF Polled
    <3>3. stranded' = stranded \cup input.padInjected
      BY <2>5 DEF UpdateInput
    <3> QED BY <2>1, <3>1, <3>2, <3>3
  <2> QED BY <2>3, <2>4, <2>5
<1> QED BY <1>1, <1>2, <1>3, <1>4, <1>5, <1>6, <1>7, <1>8, <1>9 DEF Recent

LEMMA DeviceKeeps == ASSUME Recent, Fields, DeviceNext PROVE Recent' /\ Fields' /\ UNCHANGED bindingVars
<1>1. ASSUME NEW keys \in SUBSET Key, NEW pad \in (SUBSET PadButton) \cup {NoPad}, Hold(keys, pad)
      PROVE  Recent' /\ Fields' /\ UNCHANGED bindingVars
  BY <1>1 DEF Hold, Recent, Fields
<1>2. ASSUME NEW k \in Key, InjectKey(k) PROVE Recent' /\ Fields' /\ UNCHANGED bindingVars
  <2>1. Fields' /\ UNCHANGED bindingVars
    BY <1>2 DEF InjectKey, Commanded, Fields
  <2>2. /\ input'.keys = input.keys /\ input'.connected = input.connected /\ input'.pad = input.pad
        /\ input'.active = input.active /\ input'.frames = input.frames /\ input'.button = input.button
    BY <1>2 DEF InjectKey, Commanded, Fields
  <2>3. /\ frame = "commands" /\ UNCHANGED <<frame, held, imgui, stranded, holds, overtaken>>
        /\ quiet' = IF quiet < 1 - 1 THEN quiet ELSE 1 - 1
    BY <1>2 DEF InjectKey, Commanded
  <2> QED BY <2>1, <2>2, <2>3, CommandKeeps
<1>3. ASSUME NEW k \in Key, ReleaseKey(k) PROVE Recent' /\ Fields' /\ UNCHANGED bindingVars
  <2>1. Fields' /\ UNCHANGED bindingVars
    BY <1>3 DEF ReleaseKey, Commanded, Fields
  <2> QED BY <1>3, <2>1, CommandKeeps DEF ReleaseKey, Commanded
<1>4. ASSUME NEW k \in Key, NEW n \in 1 .. MaxHold, HoldKey(k, n)
      PROVE  Recent' /\ Fields' /\ UNCHANGED bindingVars
  <2>1. Fields' /\ UNCHANGED bindingVars
    BY <1>4 DEF HoldKey, Commanded, Fields
  <2>2. n \in Nat \ {0}
    BY InputAssumption
  <2> QED BY <1>4, <2>1, <2>2, CommandKeeps DEF HoldKey, Commanded
<1>5. ASSUME NEW b \in Button, InjectMouseClick(b) PROVE Recent' /\ Fields' /\ UNCHANGED bindingVars
  <2>1. Fields' /\ UNCHANGED bindingVars
    BY <1>5 DEF InjectMouseClick, Commanded, Fields
  <2> QED BY <1>5, <2>1, CommandKeeps DEF InjectMouseClick, Commanded
<1>6. ASSUME NEW b \in PadButton, InjectGamepadButton(b) PROVE Recent' /\ Fields' /\ UNCHANGED bindingVars
  <2>1. Fields' /\ UNCHANGED bindingVars
    BY <1>6 DEF InjectGamepadButton, Commanded, Fields
  <2>2. /\ input'.keys = input.keys /\ input'.connected = input.connected /\ input'.pad = input.pad
        /\ input'.active = input.active /\ input'.frames = input.frames /\ input'.button = input.button
    BY <1>6 DEF InjectGamepadButton, Commanded, Fields
  <2>3. /\ frame = "commands" /\ UNCHANGED <<frame, held, imgui, stranded, holds, overtaken>>
        /\ quiet' = IF quiet < 1 - 1 THEN quiet ELSE 1 - 1
    BY <1>6 DEF InjectGamepadButton, Commanded
  <2> QED BY <2>1, <2>2, <2>3, CommandKeeps
<1>7. CASE TickHolds
  BY <1>7, TickKeeps DEF TickHolds
<1>8. CASE UpdateInput
  BY <1>8, UpdateKeeps DEF UpdateInput
<1> QED BY <1>1, <1>2, <1>3, <1>4, <1>5, <1>6, <1>7, <1>8 DEF DeviceNext

LEMMA BindingsKeep == ASSUME Stored, BindingsNext PROVE Stored' /\ UNCHANGED deviceVars
<1>1. ASSUME NEW a \in Action, NEW s \in BindSlot, NEW b \in Binding, Rebind(a, s, b)
      PROVE  Stored' /\ UNCHANGED deviceVars
  BY <1>1 DEF Rebind, Stored
<1>2. CASE SaveBindings
  <2>1. bindings' = bindings /\ UNCHANGED deviceVars
    BY <1>2 DEF SaveBindings
  <2>2. CASE bindingFile' = ToFile /\ saved' = {bindings}
    BY <2>1, <2>2 DEF ToFile, Stored
  <2>3. CASE bindingFile' = Unread /\ saved' = {}
    BY <2>1, <2>3 DEF Unread, Stored
  <2> QED BY <1>2, <2>1, <2>2, <2>3 DEF SaveBindings
<1>3. CASE StartBindings
  <2>1. UNCHANGED <<bindingFile, saved, deviceVars>> /\ bindings' = FromFile
    BY <1>3 DEF StartBindings
  <2>2. FromFile \in [Action -> [BindSlot -> Binding]]
    BY InputAssumption DEF FromFile, Stored
  <2> QED BY <2>1, <2>2 DEF Stored
<1> QED BY <1>1, <1>2, <1>3 DEF BindingsNext

\* Two updates after the last input nothing is down any more, and what was saved is
\* what the next start binds, but for the buttons and slots the properties name: for
\* all keys, buttons, actions and bindings, and holds of any length (Input.cpp
\* 118-210, DevServer.cpp 120-137, InputBindings.cpp 82-124).
THEOREM InputStaysFaithful == InputSpec => InputIsFaithful
<1> DEFINE IInv == Recent /\ Fields /\ Stored
<1>1. InputInit => IInv
  <2> SUFFICES ASSUME InputInit PROVE IInv
    OBVIOUS
  <2>1. Fields /\ input.pad = {} /\ ~input.active /\ input.frames = 0 /\ input.connected = FALSE
    BY DEF InputInit, Fields
  <2>2. DOMAIN holds = {}
    BY DEF InputInit, NoHolds
  <2>3. /\ held.pad = NoPad /\ quiet = 2 /\ imgui = {}
        /\ input.keys = {} /\ input.injected = {} /\ input.padInjected = {}
    BY DEF InputInit
  <2>4. Recent
    <3>1. held.pad \in (SUBSET PadButton) \cup {NoPad} /\ input.connected \in BOOLEAN
      BY <2>1, <2>3
    <3>2. ~(input.pad \subseteq stranded) => input.connected /\ quiet <= 1
      BY <2>1
    <3>3. input.active => input.frames # 0
      BY <2>1
    <3> HIDE DEF InputInit
    <3> QED BY <2>1, <2>2, <2>3, <3>1, <3>2, <3>3 DEF Recent
  <2>5. \A a \in Action : DOMAIN bindingFile[a] = {}
    <3>1. \A a \in Action : bindingFile[a] = [s \in {} |-> NoBinding]
      BY DEF InputInit, Unread
    <3>2. DOMAIN [s \in {} |-> NoBinding] = {}
      OBVIOUS
    <3> QED BY <3>1, <3>2
  <2>6. bindings \in [Action -> [BindSlot -> Binding]] /\ saved = {}
    BY InputAssumption DEF InputInit
  <2>7. Stored
    BY <2>5, <2>6 DEF Stored
  <2> QED BY <2>1, <2>4, <2>7
<1>2. IInv /\ [DeviceNext \/ BindingsNext]_inputVars => IInv'
  <2> SUFFICES ASSUME IInv, [DeviceNext \/ BindingsNext]_inputVars PROVE IInv'
    OBVIOUS
  <2>1. UNCHANGED deviceVars => (Recent /\ Fields)'
    BY DEF deviceVars, Recent, Fields
  <2>2. UNCHANGED bindingVars => Stored'
    BY DEF bindingVars, Stored
  <2> QED BY <2>1, <2>2, DeviceKeeps, BindingsKeep DEF inputVars
<1>3. IInv => NothingSticks
  <2> SUFFICES ASSUME IInv, quiet = 2, frame = "commands"
               PROVE  /\ input.keys \cup input.injected = {} /\ ~input.active
                      /\ imgui \subseteq overtaken /\ input.pad \subseteq stranded
                      /\ \A a \in Action : IsActionDown(a) =>
                            \E s \in BindSlot :
                               bindings[a][s] \in [source: {"gamepad_button"}, code: stranded]
    BY DEF NothingSticks
  <2>1. /\ input.keys = {} /\ input.injected = {} /\ ~input.active
        /\ imgui \subseteq overtaken /\ input.pad \subseteq stranded
    BY DEF Recent
  <2>2. ASSUME NEW a \in Action, NEW s \in BindSlot, IsBindingDown(bindings[a][s])
        PROVE  bindings[a][s] \in [source: {"gamepad_button"}, code: stranded]
    <3>1. bindings[a][s].source = "gamepad_button" /\ bindings[a][s].code \in stranded
      BY <2>1, <2>2 DEF IsBindingDown, IsMouseDown
    <3>2. bindings[a][s] \in Binding
      BY DEF Stored
    <3>3. bindings[a][s] = [source |-> bindings[a][s].source, code |-> bindings[a][s].code]
      BY <3>2, InputAssumption
    <3> QED BY <3>1, <3>3
  <2> QED BY <2>1, <2>2 DEF IsActionDown
<1>4. IInv => [StartBindings => \A b \in saved, a \in Action, s \in BindSlot :
                  bindings'[a][s] = b[a][s] \/ b[a][s] = NoBinding]_inputVars
  BY DEF StartBindings, FromFile, Stored
<1> QED BY <1>1, <1>2, <1>3, <1>4, PTL DEF InputSpec, InputIsFaithful, BindingsReturn

-----------------------------------------------------------------------------
(* Waves of breaks *)

\* The function the waves are defined by exists, for any number of waves.
LEMMA WavesAre ==
    ASSUME NEW from, NEW near, NEW depth \in Nat
    PROVE  \E w : /\ w = Waves(from, near, depth) /\ w[0] = from
                  /\ \A n \in 1 .. depth : w[n] = w[n - 1] \cup Along(near, w[n - 1])
<1> DEFINE Is(f, m) == f = [n \in 0 .. m |-> IF n = 0 THEN from ELSE f[n - 1] \cup Along(near, f[n - 1])]
           bad == {m \in Nat : ~\E f : Is(f, m)}
<1>1. bad = {}
  <2> SUFFICES ASSUME bad # {} PROVE FALSE
    OBVIOUS
  <2>1. PICK m \in bad : \A k \in bad : m <= k
    BY LeastOf
  <2>2. m \in Nat /\ ~\E f : Is(f, m)
    BY <2>1
  <2>3. m # 0
    <3> SUFFICES ASSUME m = 0 PROVE FALSE
      OBVIOUS
    <3> DEFINE f == [n \in 0 .. 0 |-> from]
    <3>1. Is(f, 0)
      OBVIOUS
    <3> HIDE DEF f, Is
    <3> QED BY <2>2, <3>1
  <2>4. m - 1 \in Nat /\ m - 1 \notin bad
    <3> HIDE DEF bad
    <3> QED BY <2>1, <2>2, <2>3
  <2>5. PICK g : Is(g, m - 1)
    BY <2>4
  <2>6. \A n \in 0 .. m - 1 : g[n] = IF n = 0 THEN from ELSE g[n - 1] \cup Along(near, g[n - 1])
    BY <2>5
  <2> DEFINE f == [n \in 0 .. m |-> IF n = m THEN g[m - 1] \cup Along(near, g[m - 1]) ELSE g[n]]
  <2>7. /\ \A n \in 0 .. m - 1 : f[n] = g[n]
        /\ f[m] = g[m - 1] \cup Along(near, g[m - 1])
        /\ f = [n \in 0 .. m |-> f[n]]
    BY <2>2
  <2> HIDE DEF f
  <2>8. ASSUME NEW n \in 0 .. m
        PROVE  f[n] = IF n = 0 THEN from ELSE f[n - 1] \cup Along(near, f[n - 1])
    <3>1. CASE n = m
      <4>1. m - 1 \in 0 .. m - 1 /\ n # 0
        BY <2>2, <2>3, <3>1
      <4> QED BY <2>7, <3>1, <4>1
    <3>2. CASE n # m
      <4>1. n \in 0 .. m - 1 /\ (n # 0 => n - 1 \in 0 .. m - 1)
        BY <2>2, <3>2
      <4>2. CASE n = 0
        BY <2>6, <2>7, <4>1, <4>2
      <4>3. CASE n # 0
        BY <2>6, <2>7, <4>1, <4>3
      <4> QED BY <4>2, <4>3
    <3> QED BY <3>1, <3>2
  <2>9. Is(f, m)
    BY <2>7, <2>8
  <2> QED BY <2>2, <2>9
<1>2. PICK f : Is(f, depth)
  BY <1>1
<1>3. Waves(from, near, depth) = CHOOSE g : Is(g, depth)
  BY DEF Waves
<1>4. PICK w : w = Waves(from, near, depth)
  OBVIOUS
<1>5. Is(w, depth)
  BY <1>2, <1>3, <1>4
<1> QED BY <1>4, <1>5

\* Waves add up, and once one adds nothing no later one does.
LEMMA WavesGrow ==
    ASSUME NEW from, NEW near, NEW depth \in Nat, NEW k \in 0 .. depth
    PROVE  LET w == Waves(from, near, depth) IN
           /\ \A n \in k .. depth : w[k] \subseteq w[n]
           /\ k < depth /\ w[k + 1] = w[k] => \A n \in k .. depth : w[n] = w[k]
<1>1. PICK w : /\ w = Waves(from, near, depth) /\ w[0] = from
               /\ \A n \in 1 .. depth : w[n] = w[n - 1] \cup Along(near, w[n - 1])
  BY WavesAre
<1> DEFINE less == {n \in k .. depth : ~(w[k] \subseteq w[n])}
           more == {n \in k .. depth : w[n] # w[k]}
<1>2. less = {}
  <2> SUFFICES ASSUME less # {} PROVE FALSE
    OBVIOUS
  <2> less \in SUBSET Nat
    OBVIOUS
  <2>1. PICK m \in less : \A j \in less : m <= j
    <3> HIDE DEF less
    <3> QED BY LeastOf
  <2>2. m # k /\ m - 1 \in k .. depth /\ m - 1 \notin less /\ m \in 1 .. depth
    BY <2>1
  <2> QED BY <1>1, <2>1, <2>2
<1>3. ASSUME k < depth, w[k + 1] = w[k] PROVE more = {}
  <2> SUFFICES ASSUME more # {} PROVE FALSE
    OBVIOUS
  <2> more \in SUBSET Nat
    OBVIOUS
  <2>1. PICK m \in more : \A j \in more : m <= j
    <3> HIDE DEF more
    <3> QED BY LeastOf
  <2>2. m # k /\ m - 1 \in k .. depth /\ m - 1 \notin more /\ m \in 1 .. depth
    BY <2>1
  <2>3. w[m - 1] = w[k]
    BY <2>2
  <2>4. k + 1 \in 1 .. depth /\ (k + 1) - 1 = k
    BY <1>3
  <2>5. w[k] = w[k] \cup Along(near, w[k])
    BY <1>1, <1>3, <2>4
  <2> QED BY <1>1, <2>1, <2>2, <2>3, <2>5
<1> QED BY <1>1, <1>2, <1>3

\* What the waves reach is struck or the end of a pair.
LEMMA WavesWithin ==
    ASSUME NEW from, NEW near, NEW depth \in Nat, NEW S, from \subseteq S,
           \A p \in near : p[2] \in S
    PROVE  \A n \in 0 .. depth : Waves(from, near, depth)[n] \subseteq S
<1>1. PICK w : /\ w = Waves(from, near, depth) /\ w[0] = from
               /\ \A n \in 1 .. depth : w[n] = w[n - 1] \cup Along(near, w[n - 1])
  BY WavesAre
<1> DEFINE bad == {n \in 0 .. depth : ~(w[n] \subseteq S)}
<1>2. bad = {}
  <2> SUFFICES ASSUME bad # {} PROVE FALSE
    OBVIOUS
  <2> bad \in SUBSET Nat
    OBVIOUS
  <2>1. PICK m \in bad : \A j \in bad : m <= j
    <3> HIDE DEF bad
    <3> QED BY LeastOf
  <2>2. m # 0 /\ m - 1 \in 0 .. depth /\ m - 1 \notin bad /\ m \in 1 .. depth
    BY <1>1, <2>1
  <2>3. Along(near, w[m - 1]) \subseteq S
    BY DEF Along
  <2> QED BY <1>1, <2>1, <2>2, <2>3
<1> QED BY <1>1, <1>2

\* What is reached after each wave, were there no cap.
Sweep == Waves(Struck, Near, WaveLimit)

LEMMA SweepIs ==
    ASSUME world \in PhysicsWorld
    PROVE  /\ WaveLimit \in Nat /\ Sweep[0] = Struck
           /\ \A n \in 0 .. WaveLimit : Sweep[n] \subseteq Stood
           /\ \A n \in 0 .. WaveLimit : \A m \in n .. WaveLimit : Sweep[n] \subseteq Sweep[m]
           /\ \A n \in 0 .. WaveLimit - 1 :
                 /\ Sweep[n + 1] = Sweep[n] \cup Along(Near, Sweep[n])
                 /\ Sweep[n + 1] = Sweep[n] => \A m \in n .. WaveLimit : Sweep[m] = Sweep[n]
<1>1. WaveLimit \in Nat
  BY PhysicsAssumption DEF WaveLimit, PhysicsWorld
<1>2. PICK w : /\ w = Sweep /\ w[0] = Struck
               /\ \A n \in 1 .. WaveLimit : w[n] = w[n - 1] \cup Along(Near, w[n - 1])
  BY <1>1, WavesAre DEF Sweep
<1>3. \A n \in 0 .. WaveLimit : w[n] \subseteq Stood
  <2>1. Struck \subseteq Stood /\ \A p \in Near : p[2] \in Stood
    BY DEF Struck, Near, Weak
  <2> QED BY <1>1, <1>2, <2>1, WavesWithin DEF Sweep
<1>4. ASSUME NEW n \in 0 .. WaveLimit
      PROVE  /\ \A m \in n .. WaveLimit : w[n] \subseteq w[m]
             /\ n < WaveLimit /\ w[n + 1] = w[n] => \A m \in n .. WaveLimit : w[m] = w[n]
  BY <1>1, <1>2, WavesGrow DEF Sweep
<1>5. ASSUME NEW n \in 0 .. WaveLimit - 1
      PROVE  w[n + 1] = w[n] \cup Along(Near, w[n])
  <2>1. n + 1 \in 1 .. WaveLimit /\ (n + 1) - 1 = n
    BY <1>1
  <2> QED BY <1>2, <2>1
<1>6. \A n \in 0 .. WaveLimit - 1 : n \in 0 .. WaveLimit /\ n < WaveLimit
  BY <1>1
<1> QED BY <1>1, <1>2, <1>3, <1>4, <1>5, <1>6

\* The fields of the check, and joints made from descriptions.
IsCheck ==
    check = [at |-> check.at, load |-> check.load, todo |-> check.todo, next |-> check.next,
             depth |-> check.depth, fresh |-> check.fresh, told |-> check.told]
Described == IsCheck /\ \A i \in Ids : joints[i].desc \in Desc

\* What is fresh broke just now, and was counted.
Counted ==
    /\ check.fresh \subseteq Stood /\ \A i \in check.fresh : joints[i].broken
    /\ check.told = Cardinality(check.fresh) /\ Cardinality(check.fresh) <= MaxBreaks

\* The cap has room for another break.
Open == Cardinality(check.fresh) < MaxBreaks

\* Pass 1 has broken what was struck, of what it has looked at.
Striking ==
    /\ check.todo \subseteq Ids /\ check.next = check.fresh
    /\ check.fresh \cap check.todo = {} /\ check.fresh \subseteq Struck
    /\ check.todo # {} => Open
    /\ Open => \A i \in Stood \ check.todo :
          joints[i].lastImpulse = check.load[i] /\ (i \in Struck => i \in check.fresh)

\* A wave breaks the next layer, and has done so around what is no longer to do.
Spreading ==
    /\ check.depth \in 0 .. WaveLimit - 1
    /\ check.todo \subseteq Sweep[check.depth] /\ check.fresh \subseteq Sweep[check.depth + 1]
    /\ Open =>
          /\ Sweep[check.depth] \subseteq check.fresh
          /\ check.next = check.fresh \ Sweep[check.depth]
          /\ \A i \in Stood \ check.fresh : joints[i].lastImpulse = check.load[i]
          /\ Along(Near, Sweep[check.depth] \ check.todo) \subseteq check.fresh

\* The inductive invariant of a check.
Cascading ==
    /\ Jointed /\ Described
    /\ check.at \in {"impulses", "wave"} => Counted
    /\ check.at = "impulses" => Striking
    /\ check.at = "wave" => Spreading
    /\ BreaksAreExact

LEMMA IdsFinite == ASSUME Jointed PROVE IsFiniteSet(Ids)
<1>1. world.nextId \in Nat
  BY DEF Jointed, PhysicsWorld
<1>2. Ids \subseteq 0 .. world.nextId
  BY <1>1 DEF Jointed
<1>3. IsFiniteSet(0 .. world.nextId)
  BY <1>1, FS_Interval
<1> HIDE DEF Ids
<1> QED BY <1>2, <1>3, FS_Subset

\* A step that breaks what is then fresh leaves the waves as they are.
LEMMA SweepStays ==
    ASSUME Jointed, world' = world, check'.load = check.load, Ids' = Ids,
           \A i \in Ids : joints'[i].desc = joints[i].desc,
           \A i \in Ids : joints'[i].desc.force > 0 =>
              ((~joints'[i].broken \/ i \in check'.fresh) <=> (~joints[i].broken \/ i \in check.fresh))
    PROVE  /\ Stood' = Stood /\ Struck' = Struck /\ Near' = Near /\ WaveLimit' = WaveLimit
           /\ Sweep' = Sweep /\ Reached' = Reached
<1>1. Stood' = Stood
  BY DEF Stood
<1>2. Struck' = Struck
  BY <1>1 DEF Struck, Stood
<1>3. Weak' = Weak
  BY <1>1 DEF Weak, Stood
<1>4. \A i \in Stood : Ends(i)' = Ends(i)
  BY DEF Ends, Stood
<1>5. Near' = Near
  BY <1>1, <1>3, <1>4 DEF Near, Weak
<1>6. WaveLimit' = WaveLimit
  BY DEF WaveLimit
<1> QED BY <1>1, <1>2, <1>5, <1>6 DEF Sweep, Reached

LEMMA SubstepStrikes == ASSUME Cascading, Substep PROVE Cascading'
<1>1. /\ UNCHANGED <<world, joints, adjacent>> /\ check'.at = "impulses"
      /\ check'.todo = Ids /\ check'.next = {} /\ check'.fresh = {} /\ check'.told = 0
      /\ IsCheck'
  BY DEF Substep, Idle, IsCheck
<1>2. Cardinality({}) = 0 /\ MaxBreaks \in Nat \ {0}
  BY FS_EmptySet, PhysicsAssumption
<1>3. Ids' = Ids
  BY <1>1 DEF Ids
<1>4. Counted'
  BY <1>1, <1>2 DEF Counted
<1>5. Stood' \subseteq Ids
  BY <1>3 DEF Stood
<1>6. Striking'
  BY <1>1, <1>2, <1>3, <1>5 DEF Striking, Open
<1>7. Jointed' /\ Described'
  BY <1>1, <1>3, SimulationKeepsExact DEF Cascading, Described, Simulate
<1> QED BY <1>1, <1>4, <1>6, <1>7 DEF Cascading, BreaksAreExact

LEMMA PassOverStrikes == ASSUME Cascading, NEW i \in Ids, PassOver(i) PROVE Cascading'
<1>1. /\ UNCHANGED <<world, joints, adjacent>> /\ check.at = "impulses" /\ i \in check.todo
      /\ ~Breakable(i) /\ check' = [check EXCEPT !.todo = @ \ {i}]
  BY DEF PassOver
<1>2. /\ check'.at = check.at /\ check'.todo = check.todo \ {i} /\ check'.next = check.next
      /\ check'.fresh = check.fresh /\ check'.told = check.told /\ check'.load = check.load
      /\ Ids' = Ids
  BY <1>1 DEF Cascading, Described, IsCheck, Ids
<1>3. Jointed' /\ Described'
  BY <1>1, <1>2, SimulationKeepsExact DEF Cascading, Described, IsCheck, Simulate
<1>4. Stood' = Stood /\ Struck' = Struck
  BY <1>1, <1>2, SweepStays DEF Cascading
<1>5. i \notin Stood
  BY <1>1 DEF Cascading, Striking, Stood, Breakable
<1>6. Counted'
  BY <1>1, <1>2, <1>4 DEF Cascading, Counted
<1>7. Striking'
  BY <1>1, <1>2, <1>4, <1>5 DEF Cascading, Striking, Open
<1> QED BY <1>1, <1>2, <1>3, <1>6, <1>7 DEF Cascading, BreaksAreExact

LEMMA ExamineStrikes == ASSUME Cascading, NEW i \in Ids, Examine(i) PROVE Cascading'
<1> DEFINE breaks == check.load[i] > joints[i].desc.force
<1>1. /\ UNCHANGED <<world, adjacent>> /\ check.at = "impulses" /\ i \in check.todo /\ Breakable(i)
      /\ joints' = [joints EXCEPT ![i] = Loaded(i, check.load[i], breaks)]
      /\ check'.at = check.at /\ check'.load = check.load
      /\ check'.fresh = IF breaks THEN check.fresh \cup {i} ELSE check.fresh
      /\ check'.next = check'.fresh
      /\ check'.told = IF breaks THEN check.told + 1 ELSE check.told
      /\ check'.todo = IF breaks /\ AtCap(Cardinality(check'.fresh)) THEN {} ELSE check.todo \ {i}
      /\ IsCheck'
  BY DEF Examine, Cascading, Described, IsCheck
<1>2. /\ Ids' = Ids
      /\ joints'[i].desc = joints[i].desc /\ joints'[i].lastImpulse = check.load[i]
      /\ joints'[i].broken <=> breaks
      /\ \A n \in Ids \ {i} : joints'[n] = joints[n]
  BY <1>1 DEF Ids, Loaded
<1>3. Jointed' /\ Described'
  <2>1. \A n \in Ids : joints'[n].desc = joints[n].desc
    BY <1>2
  <2>2. Jointed'
    BY SimulationKeepsExact DEF Cascading, Simulate
  <2> QED BY <1>1, <1>2, <2>1, <2>2 DEF Cascading, Described
<1>4. i \notin check.fresh /\ i \in Stood /\ Open /\ (breaks <=> i \in Struck)
  BY <1>1 DEF Cascading, Striking, Stood, Breakable, Struck
<1> HIDE DEF breaks
<1>5. Stood' = Stood /\ Struck' = Struck
  <2>1. \A n \in Ids : joints'[n].desc = joints[n].desc
    BY <1>2
  <2>2. ASSUME NEW n \in Ids
        PROVE  (~joints'[n].broken \/ n \in check'.fresh) <=> (~joints[n].broken \/ n \in check.fresh)
    BY <1>1, <1>2, <1>4 DEF Breakable
  <2> QED BY <1>1, <1>2, <2>1, <2>2, SweepStays DEF Cascading
<1>6. IsFiniteSet(check.fresh) /\ Cardinality(check.fresh) \in Nat /\ MaxBreaks \in Nat
  <2>1. check.fresh \subseteq Ids
    BY <1>1 DEF Cascading, Counted, Stood
  <2>2. IsFiniteSet(check.fresh)
    BY <2>1, IdsFinite, FS_Subset DEF Cascading
  <2> QED BY <2>2, FS_CardinalityType, PhysicsAssumption
<1>7. /\ breaks => Cardinality(check'.fresh) = Cardinality(check.fresh) + 1
      /\ ~breaks => check'.fresh = check.fresh
  <2>1. Cardinality(check.fresh \cup {i}) = Cardinality(check.fresh) + 1
    BY <1>4, <1>6, FS_AddElement
  <2> QED BY <1>1, <2>1
<1>8. Counted'
  <2>1. \A n \in check'.fresh : joints'[n].broken
    BY <1>1, <1>2, <1>4 DEF Cascading, Counted, Stood
  <2>2. check'.told = Cardinality(check'.fresh) /\ Cardinality(check'.fresh) <= MaxBreaks
    BY <1>1, <1>4, <1>6, <1>7 DEF Cascading, Counted, Open
  <2>3. check'.fresh \subseteq Stood
    BY <1>1, <1>4 DEF Cascading, Counted
  <2> QED BY <1>5, <2>1, <2>2, <2>3 DEF Counted
<1>9. Striking'
  <2>1. /\ check'.todo \subseteq Ids /\ check'.next = check'.fresh
        /\ check'.fresh \cap check'.todo = {} /\ check'.fresh \subseteq Struck
    BY <1>1, <1>4 DEF Cascading, Striking
  <2>2. check'.todo # {} => Open'
    <3>1. CASE breaks
      <4>1. Cardinality(check'.fresh) \in Nat
        BY <1>6, <1>7, <3>1
      <4>2. check'.todo # {} => ~(Cardinality(check'.fresh) >= MaxBreaks)
        BY <1>1, <3>1 DEF AtCap
      <4> QED BY <1>6, <4>1, <4>2 DEF Open
    <3>2. CASE ~breaks
      BY <1>4, <1>7, <3>2 DEF Open
    <3> QED BY <3>1, <3>2
  <2>3. Open' => check'.todo = check.todo \ {i}
    BY <1>1, <1>6, <1>7 DEF Open, AtCap
  <2>4. ASSUME Open', NEW n \in Stood \ check'.todo
        PROVE  joints'[n].lastImpulse = check'.load[n] /\ (n \in Struck => n \in check'.fresh)
    <3>1. CASE n = i
      BY <1>1, <1>2, <1>4, <3>1
    <3>2. CASE n # i
      BY <1>1, <1>2, <1>4, <2>3, <2>4, <3>2 DEF Cascading, Striking, Stood
    <3> QED BY <3>1, <3>2
  <2> QED BY <1>2, <1>5, <2>1, <2>2, <2>4 DEF Striking
<1> QED BY <1>1, <1>3, <1>8, <1>9 DEF Cascading, BreaksAreExact

LEMMA WaveStarts == ASSUME Cascading, StartWave PROVE Cascading'
<1> DEFINE depth == IF check.at = "wave" THEN check.depth + 1 ELSE 0
<1>1. /\ UNCHANGED <<world, joints, adjacent>> /\ check.at \in {"impulses", "wave"} /\ check.todo = {}
      /\ Spreads(check.next, depth)
      /\ check'.at = "wave" /\ check'.depth = depth /\ check'.todo = check.next /\ check'.next = {}
      /\ check'.load = check.load /\ check'.fresh = check.fresh /\ check'.told = check.told
      /\ IsCheck'
  BY DEF StartWave, Cascading, Described, IsCheck
<1>2. Jointed' /\ Described' /\ Ids' = Ids
  BY <1>1, SimulationKeepsExact DEF Cascading, Described, Simulate, Ids
<1>3. Stood' = Stood /\ Near' = Near /\ WaveLimit' = WaveLimit /\ Sweep' = Sweep
  BY <1>1, <1>2, SweepStays DEF Cascading
<1>4. Counted'
  BY <1>1, <1>3 DEF Cascading, Counted
<1>5. world \in PhysicsWorld
  BY DEF Cascading, Jointed
<1>6. Open /\ depth \in 0 .. WaveLimit - 1
  <2>1. Cardinality(check.fresh) \in Nat /\ MaxBreaks \in Nat
    <3>1. check.fresh \subseteq Ids
      BY <1>1 DEF Cascading, Counted, Stood
    <3> QED BY <3>1, IdsFinite, FS_Subset, FS_CardinalityType, PhysicsAssumption DEF Cascading
  <2>2. world.cascade.maxDepth \in Nat
    BY <1>5, PhysicsAssumption DEF PhysicsWorld
  <2>3. depth \in Nat
    BY <1>1, SweepIs, <1>5 DEF Cascading, Spreading
  <2> QED BY <1>1, <2>1, <2>2, <2>3 DEF Spreads, AtCap, Open, WaveLimit
<1> HIDE DEF depth
<1>7. /\ check.fresh = Sweep[depth] /\ check.next \subseteq Sweep[depth]
      /\ Along(Near, Sweep[depth] \ check.next) \subseteq Sweep[depth]
      /\ \A i \in Stood \ check.fresh : joints[i].lastImpulse = check.load[i]
  <2>1. CASE check.at = "impulses"
    <3>1. check.next = check.fresh /\ check.fresh = Struck /\ depth = 0
      BY <1>1, <1>6, <2>1 DEF Cascading, Striking, depth, Struck
    <3>2. Along(Near, {}) = {}
      BY DEF Along
    <3>3. Sweep[depth] = check.fresh /\ Sweep[depth] \ check.next = {}
      BY <1>5, <3>1, SweepIs
    <3> QED BY <1>1, <1>6, <2>1, <3>1, <3>2, <3>3 DEF Cascading, Striking
  <2>2. CASE check.at = "wave"
    <3>1. Spreading /\ depth = check.depth + 1 /\ WaveLimit \in Nat
      BY <1>5, <2>2, SweepIs DEF Cascading, depth
    <3>2. Sweep[depth] = Sweep[check.depth] \cup Along(Near, Sweep[check.depth])
      BY <1>5, <3>1, SweepIs DEF Spreading
    <3>3. Along(Near, Sweep[check.depth]) \subseteq check.fresh /\ Sweep[check.depth] \subseteq check.fresh
      <4>1. Sweep[check.depth] \ check.todo = Sweep[check.depth]
        BY <1>1
      <4> QED BY <1>6, <3>1, <4>1 DEF Spreading
    <3>4. check.fresh = Sweep[depth]
      BY <3>1, <3>2, <3>3 DEF Spreading
    <3>5. Sweep[depth] \ check.next = Sweep[check.depth]
      BY <1>6, <3>1, <3>2, <3>4 DEF Spreading
    <3> QED BY <1>6, <3>1, <3>3, <3>4, <3>5 DEF Spreading
  <2> QED BY <1>1, <2>1, <2>2
<1>8. Sweep[depth] \subseteq Sweep[depth + 1]
  BY <1>5, <1>6, SweepIs
<1>9. Spreading'
  BY <1>1, <1>2, <1>3, <1>6, <1>7, <1>8 DEF Spreading, Open
<1> QED BY <1>1, <1>2, <1>4, <1>9 DEF Cascading, BreaksAreExact

\* Who touches a constraint holds a body that it holds.
LEMMA TouchingIsNear ==
    ASSUME Jointed, Described, NEW i \in Ids
    PROVE  Touching(i) = {n \in Ids : Ends(n) \cap Ends(i) # {}}
<1>1. joints[i].desc.a \in Body /\ joints[i].desc.b \in Body
  BY PhysicsAssumption DEF Described
<1>2. ASSUME NEW b \in Body PROVE adjacent[b] = {n \in Ids : b \in Ends(n)}
  BY DEF Ends, Jointed, AdjacencyIsExact
<1>3. Touching(i) = {n \in Ids : joints[i].desc.a \in Ends(n)} \cup {n \in Ids : joints[i].desc.b \in Ends(n)}
  BY <1>1, <1>2 DEF Touching
<1>4. \A n \in Ids : Ends(n) \cap Ends(i) # {} <=> joints[i].desc.a \in Ends(n) \/ joints[i].desc.b \in Ends(n)
  BY DEF Ends
<1> QED BY <1>3, <1>4

LEMMA SpreadSpreads == ASSUME Cascading, NEW i \in Ids, Spread(i) PROVE Cascading'
<1> DEFINE weak == {n \in Touching(i) : TooWeak(n)}
           room == MaxBreaks - Cardinality(check.fresh)
           layer == Sweep[check.depth]
<1>1. PICK torn \in SUBSET weak :
        /\ torn = weak \/ Cardinality(torn) = room
        /\ Cardinality(torn) <= room
        /\ joints' = [n \in Ids |->
              IF n \in torn
                THEN Loaded(n, (joints[n].lastImpulse * world.cascade.stress) \div 2, TRUE)
                ELSE joints[n]]
        /\ check' = [check EXCEPT !.todo = @ \ {i}, !.next = @ \cup torn,
                        !.fresh = @ \cup torn, !.told = @ + Cardinality(torn)]
  BY DEF Spread
<1>2. /\ UNCHANGED <<world, adjacent>> /\ check.at = "wave" /\ i \in check.todo
      /\ Spreading /\ Counted /\ Jointed /\ Described
  BY DEF Spread, Cascading
<1>3. /\ check'.at = "wave" /\ check'.load = check.load /\ check'.depth = check.depth
      /\ check'.todo = check.todo \ {i} /\ check'.next = check.next \cup torn
      /\ check'.fresh = check.fresh \cup torn /\ check'.told = check.told + Cardinality(torn)
      /\ IsCheck'
  BY <1>1, <1>2 DEF Described, IsCheck
<1>4. /\ torn \subseteq Ids /\ torn \cap check.fresh = {} /\ torn \subseteq Stood
      /\ \A n \in weak : n \in Ids /\ Ends(n) \cap Ends(i) # {} /\ n \in Stood \ check.fresh
  BY <1>1, <1>2, TouchingIsNear DEF TooWeak, Breakable, Stood, Counted
<1>5. /\ Ids' = Ids /\ \A n \in Ids : joints'[n].desc = joints[n].desc
      /\ \A n \in torn : joints'[n].broken
      /\ \A n \in Ids \ torn : joints'[n] = joints[n]
  BY <1>1, <1>4 DEF Ids, Loaded
<1>6. Jointed' /\ Described'
  <2>1. Jointed'
    BY SimulationKeepsExact DEF Cascading, Simulate
  <2> QED BY <1>2, <1>3, <1>5, <2>1 DEF Described
<1>7. Stood' = Stood /\ Near' = Near /\ WaveLimit' = WaveLimit /\ Sweep' = Sweep
  <2>1. ASSUME NEW n \in Ids
        PROVE  (~joints'[n].broken \/ n \in check'.fresh) <=> (~joints[n].broken \/ n \in check.fresh)
    <3>1. CASE n \in torn
      BY <1>3, <1>4, <3>1 DEF Stood
    <3>2. CASE n \notin torn
      BY <1>3, <1>5, <3>2
    <3> QED BY <3>1, <3>2
  <2> QED BY <1>2, <1>3, <1>5, <2>1, SweepStays
<1>8. /\ IsFiniteSet(torn) /\ Cardinality(torn) \in Nat
      /\ Cardinality(check.fresh) \in Nat /\ MaxBreaks \in Nat
      /\ Cardinality(check'.fresh) = Cardinality(check.fresh) + Cardinality(torn)
  <2>1. IsFiniteSet(torn) /\ IsFiniteSet(check.fresh)
    BY <1>2, <1>4, IdsFinite, FS_Subset DEF Counted, Stood
  <2>2. Cardinality(check.fresh \cap torn) = 0
    BY <1>4, FS_EmptySet
  <2>3. Cardinality(torn) \in Nat /\ Cardinality(check.fresh) \in Nat
    BY <2>1, FS_CardinalityType
  <2>4. Cardinality(check.fresh \cup torn) =
          Cardinality(check.fresh) + Cardinality(torn) - Cardinality(check.fresh \cap torn)
    BY <2>1, FS_Union
  <2> QED BY <1>3, <2>1, <2>2, <2>3, <2>4, PhysicsAssumption
<1>9. Counted'
  <2>1. check'.fresh \subseteq Stood'
    BY <1>2, <1>3, <1>4, <1>7 DEF Counted
  <2>2. \A n \in check'.fresh : joints'[n].broken
    BY <1>2, <1>3, <1>4, <1>5 DEF Counted, Stood
  <2>3. check'.told = Cardinality(check'.fresh) /\ Cardinality(check'.fresh) <= MaxBreaks
    BY <1>1, <1>2, <1>3, <1>8 DEF Counted
  <2> QED BY <2>1, <2>2, <2>3 DEF Counted
<1>10. world \in PhysicsWorld /\ check.depth \in 0 .. WaveLimit - 1 /\ i \in layer /\ i \in Stood
  <2>1. world \in PhysicsWorld /\ check.depth \in 0 .. WaveLimit - 1 /\ i \in layer
    BY <1>2 DEF Jointed, Spreading
  <2>2. check.depth \in 0 .. WaveLimit
    BY <2>1, SweepIs
  <2> QED BY <2>1, <2>2, SweepIs
<1>11. layer \cup Along(Near, layer) = Sweep[check.depth + 1]
  BY <1>10, SweepIs
<1>12. Open => weak \subseteq Along(Near, layer)
  <2> SUFFICES ASSUME Open, NEW n \in weak PROVE n \in Along(Near, layer)
    OBVIOUS
  <2>1. joints[n].lastImpulse = check.load[n]
    BY <1>2, <1>4 DEF Spreading
  <2>2. n \in Weak
    BY <1>4, <2>1 DEF TooWeak, Weak
  <2>3. <<i, n>> \in Near
    BY <1>4, <1>10, <2>2 DEF Near
  <2> QED BY <1>10, <2>3 DEF Along
<1>13. ~Open => torn = {}
  <2> SUFFICES ASSUME ~Open PROVE torn = {}
    OBVIOUS
  <2>1. Cardinality(torn) = 0
    BY <1>1, <1>8 DEF Open
  <2> QED BY <1>8, <2>1, FS_EmptySet
<1>14. check'.fresh \subseteq Sweep[check.depth + 1]
  BY <1>1, <1>2, <1>3, <1>11, <1>12, <1>13 DEF Spreading
<1>15. ASSUME Open'
       PROVE  /\ layer \subseteq check'.fresh /\ check'.next = check'.fresh \ layer
              /\ \A n \in Stood \ check'.fresh : joints'[n].lastImpulse = check.load[n]
              /\ Along(Near, layer \ check'.todo) \subseteq check'.fresh
  <2>1. Open /\ torn = weak
    BY <1>1, <1>8, <1>15 DEF Open
  <2>2. /\ layer \subseteq check.fresh /\ check.next = check.fresh \ layer
        /\ \A n \in Stood \ check.fresh : joints[n].lastImpulse = check.load[n]
        /\ Along(Near, layer \ check.todo) \subseteq check.fresh
    BY <1>2, <2>1 DEF Spreading
  <2>3. layer \subseteq check'.fresh /\ check'.next = check'.fresh \ layer
    BY <1>3, <1>4, <2>2
  <2>4. \A n \in Stood \ check'.fresh : joints'[n].lastImpulse = check.load[n]
    BY <1>3, <1>5, <2>2 DEF Stood
  <2>5. ASSUME NEW p \in Near, p[1] \in layer \ check'.todo
        PROVE  p[2] \in check'.fresh
    <3>1. CASE p[1] # i
      <4>1. p[2] \in Along(Near, layer \ check.todo)
        BY <1>3, <2>5, <3>1 DEF Along
      <4> QED BY <1>3, <2>2, <4>1
    <3>2. CASE p[1] = i /\ p[2] \notin check.fresh
      <4>1. p[2] \in Weak /\ p[2] \in Stood /\ Ends(p[2]) \cap Ends(i) # {}
        BY <3>2 DEF Near, Weak
      <4>2. Breakable(p[2]) /\ p[2] \in Ids /\ joints[p[2]].lastImpulse = check.load[p[2]]
        BY <2>2, <3>2, <4>1 DEF Stood, Breakable
      <4>3. TooWeak(p[2])
        BY <4>1, <4>2 DEF Weak, TooWeak
      <4>4. p[2] \in Touching(i)
        BY <1>2, <4>1, <4>2, TouchingIsNear
      <4> QED BY <1>3, <2>1, <4>3, <4>4
    <3> QED BY <1>3, <3>1, <3>2
  <2>6. Along(Near, layer \ check'.todo) \subseteq check'.fresh
    BY <2>5 DEF Along
  <2> QED BY <2>3, <2>4, <2>6
<1>16. Spreading'
  BY <1>2, <1>3, <1>7, <1>14, <1>15 DEF Spreading
<1> QED BY <1>3, <1>6, <1>9, <1>16 DEF Cascading, BreaksAreExact

LEMMA SubstepEnds == ASSUME Cascading, EndSubstep PROVE Cascading'
<1> DEFINE depth == IF check.at = "wave" THEN check.depth + 1 ELSE 0
<1>1. /\ UNCHANGED <<world, joints, adjacent>> /\ check.at \in {"impulses", "wave"} /\ check.todo = {}
      /\ ~Spreads(check.next, depth) /\ check'.at = "substep" /\ IsCheck'
      /\ check'.load = check.load /\ check'.fresh = check.fresh /\ check'.told = check.told
  BY DEF EndSubstep, Cascading, Described, IsCheck
<1>2. Jointed' /\ Described' /\ Ids' = Ids
  BY <1>1, SimulationKeepsExact DEF Cascading, Described, Simulate, Ids
<1>3. Reached' = Reached
  BY <1>1, <1>2, SweepStays DEF Cascading
<1>4. world \in PhysicsWorld /\ Counted
  BY <1>1 DEF Cascading, Jointed
<1>5. /\ IsFiniteSet(Ids) /\ check.fresh \subseteq Ids /\ Cardinality(check.fresh) \in Nat
      /\ MaxBreaks \in Nat /\ Stood \subseteq Ids
  <2>1. check.fresh \subseteq Ids /\ Stood \subseteq Ids /\ IsFiniteSet(Ids)
    BY <1>4, IdsFinite DEF Counted, Stood, Cascading
  <2> QED BY <2>1, FS_Subset, FS_CardinalityType, PhysicsAssumption
<1>6. /\ WaveLimit \in Nat /\ Reached = Sweep[WaveLimit] /\ depth \in 0 .. WaveLimit
      /\ WaveLimit = IF world.cascade.enabled THEN world.cascade.maxDepth ELSE 0
  <2>1. WaveLimit \in Nat /\ Reached = Sweep[WaveLimit]
    BY <1>4, SweepIs DEF Reached, Sweep
  <2> QED BY <1>1, <2>1 DEF Cascading, Spreading, WaveLimit
<1>7. /\ check.fresh \subseteq Sweep[depth]
      /\ Open => /\ check.fresh = Sweep[depth]
                 /\ check.next = {} => Sweep[depth] = Sweep[WaveLimit]
  <2>1. CASE check.at = "impulses"
    <3>1. depth = 0 /\ Sweep[0] = Struck /\ check.next = check.fresh /\ check.fresh \subseteq Struck
      BY <1>4, <2>1, SweepIs DEF Cascading, Striking
    <3>2. Open => check.fresh = Struck
      BY <1>1, <2>1 DEF Cascading, Striking, Struck
    <3>3. ASSUME Sweep[0] = {} PROVE Sweep[0] = Sweep[WaveLimit]
      <4>1. CASE WaveLimit = 0
        BY <4>1
      <4>2. CASE WaveLimit # 0
        <5>1. Along(Near, {}) = {}
          BY DEF Along
        <5>2. 0 \in 0 .. WaveLimit - 1 /\ WaveLimit \in 0 .. WaveLimit
          BY <1>6, <4>2
        <5>3. Sweep[0 + 1] = Sweep[0]
          BY <1>4, <3>3, <5>1, <5>2, SweepIs
        <5> QED BY <1>4, <5>2, <5>3, SweepIs
      <4> QED BY <4>1, <4>2
    <3> QED BY <3>1, <3>2, <3>3
  <2>2. CASE check.at = "wave"
    <3>1. Spreading /\ depth = check.depth + 1 /\ check.depth \in 0 .. WaveLimit - 1
      BY <2>2 DEF Cascading, Spreading
    <3>2. Sweep[depth] = Sweep[check.depth] \cup Along(Near, Sweep[check.depth])
      BY <1>4, <3>1, SweepIs
    <3>3. Sweep[check.depth] \ check.todo = Sweep[check.depth]
      BY <1>1
    <3>4. Open => check.fresh = Sweep[depth]
      BY <3>1, <3>2, <3>3 DEF Spreading
    <3>5. ASSUME Open, check.next = {} PROVE Sweep[depth] = Sweep[WaveLimit]
      <4>1. Sweep[check.depth + 1] = Sweep[check.depth]
        BY <3>1, <3>2, <3>4, <3>5 DEF Spreading
      <4>2. \A m \in check.depth .. WaveLimit : Sweep[m] = Sweep[check.depth]
        BY <1>4, <3>1, <4>1, SweepIs
      <4>3. depth \in check.depth .. WaveLimit /\ WaveLimit \in check.depth .. WaveLimit
        BY <1>6, <3>1
      <4> QED BY <4>2, <4>3
    <3> QED BY <3>1, <3>4, <3>5 DEF Spreading
  <2> QED BY <1>1, <2>1, <2>2
<1> HIDE DEF depth
<1>8. check.fresh \subseteq Reached
  <2>1. WaveLimit \in depth .. WaveLimit
    BY <1>6
  <2> QED BY <1>4, <1>6, <1>7, <2>1, SweepIs
<1>9. check.fresh = Reached \/ Cardinality(check.fresh) = MaxBreaks
  <2>1. CASE Open
    <3>1. ~world.cascade.enabled \/ check.next = {} \/ ~(depth < world.cascade.maxDepth)
      BY <1>1, <1>5, <2>1 DEF Spreads, AtCap, Open
    <3>2. depth = WaveLimit \/ check.next = {}
      BY <1>6, <3>1
    <3> QED BY <1>6, <1>7, <2>1, <3>2
  <2>2. CASE ~Open
    BY <1>4, <1>5, <2>2 DEF Open, Counted
  <2> QED BY <2>1, <2>2
<1>10. check.fresh # Reached => Cardinality(Reached) > Cardinality(check.fresh)
  <2>1. Reached \subseteq Ids
    <3>1. WaveLimit \in 0 .. WaveLimit
      BY <1>6
    <3> QED BY <1>4, <1>5, <1>6, <3>1, SweepIs
  <2>2. IsFiniteSet(Reached)
    BY <1>5, <2>1, FS_Subset
  <2>3. /\ Cardinality(check.fresh) <= Cardinality(Reached)
        /\ Cardinality(check.fresh) = Cardinality(Reached) => check.fresh = Reached
    BY <1>8, <2>2, FS_Subset
  <2>4. Cardinality(Reached) \in Nat
    BY <2>2, FS_CardinalityType
  <2> QED BY <1>5, <2>3, <2>4
<1>11. BreaksAreExact'
  BY <1>1, <1>3, <1>4, <1>5, <1>8, <1>9, <1>10 DEF BreaksAreExact, Counted
<1> QED BY <1>1, <1>2, <1>11 DEF Cascading

\* Between substeps and steps nothing breaks.
LEMMA RestKeeps ==
    ASSUME Cascading, Build \/ (\E dt \in FrameTime : Step(dt)) \/ EndStep
    PROVE  Cascading'
<1>1. Jointed'
  BY SimulationKeepsExact, BuildingKeepsExact DEF Cascading, Simulate
<1>2. \/ check.at = "idle" /\ check' = check
      \/ check' = [Idle EXCEPT !.at = "substep"] /\ clock'.done = 0
      \/ check' = Idle
  <2>1. CASE Build
    <3>1. AtRest
      BY <2>1 DEF Build, CreateBody, DestroyBody, CreateHeightfield, CreateConstraint,
                  DestroyConstraint, CreateCharacter, ResizeCharacter, ApplyParams
    <3> QED BY <3>1 DEF AtRest
  <2>2. ASSUME NEW dt \in FrameTime, Step(dt)
        PROVE  check' = [Idle EXCEPT !.at = "substep"] /\ clock'.done = 0
    BY <2>2 DEF Step
  <2>3. CASE EndStep
    BY <2>3 DEF EndStep
  <2> QED BY <2>1, <2>2, <2>3
<1>3. IsCheck' /\ (check'.at = "idle" \/ (check'.at = "substep" /\ clock'.done = 0))
  BY <1>2 DEF Idle, IsCheck, Cascading, Described
<1>4. \A i \in Ids' : joints'[i].desc \in Desc
  <2>1. CASE UNCHANGED joints
    BY <2>1 DEF Ids, Cascading, Described
  <2>2. ASSUME NEW d \in Desc, CreateConstraint(d) PROVE \A i \in Ids' : joints'[i].desc \in Desc
    BY <2>2 DEF CreateConstraint, Ids, Cascading, Described
  <2>3. ASSUME NEW id \in Ids, DestroyConstraint(id) PROVE \A i \in Ids' : joints'[i].desc \in Desc
    BY <2>3 DEF DestroyConstraint, Ids, Cascading, Described
  <2> QED BY <2>1, <2>2, <2>3 DEF Build, Step, EndStep, CreateBody, DestroyBody, CreateHeightfield,
                                  CreateCharacter, ResizeCharacter, ApplyParams
<1> QED BY <1>1, <1>3, <1>4 DEF Cascading, Described, BreaksAreExact

\* Whatever the order in which the map is visited, a substep breaks what impulses and
\* waves reach, each once, unless the cap is used up: for all constraints, impulses,
\* depths and caps (checkBreakableConstraints 940-1013).
THEOREM WavesBreakExactly == PhysicsSpec => []BreaksAreExact
<1>1. PhysicsInit => Cascading
  <2> SUFFICES ASSUME PhysicsInit PROVE Cascading
    OBVIOUS
  <2>1. DOMAIN joints = {} /\ check = Idle
    BY DEF PhysicsInit, NoLoad
  <2>2. Jointed
    BY <2>1 DEF PhysicsInit, Jointed, PhysicsWorld, NoLoad, Ids, IsJoint, AdjacencyIsExact
  <2> QED BY <2>1, <2>2 DEF Cascading, Described, IsCheck, Idle, BreaksAreExact, Ids
<1>2. Cascading /\ [PhysicsNext]_physicsVars => Cascading'
  <2> SUFFICES ASSUME Cascading, [PhysicsNext]_physicsVars PROVE Cascading'
    OBVIOUS
  <2>1. CASE UNCHANGED physicsVars
    <3>1. UNCHANGED <<world, joints, adjacent, characters, clock, check>>
      BY <2>1 DEF physicsVars
    <3>2. Ids' = Ids /\ Stood' = Stood /\ Struck' = Struck /\ Near' = Near /\ WaveLimit' = WaveLimit
          /\ Sweep' = Sweep /\ Reached' = Reached
      BY <3>1, SweepStays DEF Cascading, Ids
    <3> QED BY <3>1, <3>2 DEF Cascading, Jointed, AdjacencyIsExact, Ids, IsJoint, Described, IsCheck,
                              Counted, Striking, Spreading, Open, BreaksAreExact
  <2>2. CASE Simulate
    BY <2>2, SubstepStrikes, PassOverStrikes, ExamineStrikes, WaveStarts, SpreadSpreads, SubstepEnds,
       RestKeeps DEF Simulate
  <2> QED BY <2>1, <2>2, RestKeeps DEF PhysicsNext
<1>3. Cascading => BreaksAreExact
  BY DEF Cascading
<1> QED BY <1>1, <1>2, <1>3, PTL DEF PhysicsSpec

-----------------------------------------------------------------------------
(* Scenes *)

LoaderSpec == LoaderInit /\ [][LoaderNext]_loaderVars

\* The meshes that documents name.
Paths == UNION {{d[i].mesh : i \in DOMAIN d} : d \in Document}

\* Every mesh is found under its own path, and every path leads to its mesh.
Shares(shared) ==
    /\ shared.meshes \in Seq(Paths)
    /\ \A p \in DOMAIN shared.index :
          shared.index[p] \in DOMAIN shared.meshes /\ shared.meshes[shared.index[p]] = p
    /\ \A n \in DOMAIN shared.meshes :
          shared.meshes[n] \in DOMAIN shared.index /\ shared.index[shared.meshes[n]] = n

\* What was found before is found still.
Grown(s, t) == \A p \in DOMAIN s.index : p \in DOMAIN t.index /\ t.index[p] = s.index[p]

\* A mesh more is found like the others.
LEMMA SharingShares ==
    ASSUME NEW s, Shares(s), NEW path \in Paths, NEW fails
    PROVE  \E t : t = LoadOrShare(s, path, fails) /\ Shares(t) /\ Grown(s, t)
<1> PICK t : t = LoadOrShare(s, path, fails)
  OBVIOUS
<1>1. CASE path = None \/ path \in DOMAIN s.index \/ fails
  BY <1>1 DEF LoadOrShare, Grown
<1>2. CASE ~(path = None \/ path \in DOMAIN s.index \/ fails)
  <2>1. /\ t.meshes = Append(s.meshes, path)
        /\ DOMAIN t.index = DOMAIN s.index \cup {path}
        /\ t.index[path] = Len(s.meshes) + 1
        /\ \A p \in DOMAIN s.index : t.index[p] = s.index[p]
    BY <1>2 DEF LoadOrShare
  <2>2. /\ s.meshes \in Seq(Paths) /\ t.meshes \in Seq(Paths)
        /\ Len(s.meshes) \in Nat /\ DOMAIN s.meshes = 1 .. Len(s.meshes)
        /\ Len(t.meshes) = Len(s.meshes) + 1 /\ DOMAIN t.meshes = 1 .. Len(s.meshes) + 1
        /\ t.meshes[Len(s.meshes) + 1] = path
        /\ \A n \in 1 .. Len(s.meshes) : t.meshes[n] = s.meshes[n]
    BY <2>1 DEF Shares
  <2>3. ASSUME NEW p \in DOMAIN t.index
        PROVE  t.index[p] \in DOMAIN t.meshes /\ t.meshes[t.index[p]] = p
    <3>1. CASE p = path
      BY <2>1, <2>2, <3>1
    <3>2. CASE p \in DOMAIN s.index
      <4>1. s.index[p] \in 1 .. Len(s.meshes) /\ s.meshes[s.index[p]] = p
        BY <2>2, <3>2 DEF Shares
      <4> QED BY <1>2, <2>1, <2>2, <3>2, <4>1
    <3> QED BY <2>1, <3>1, <3>2
  <2>4. ASSUME NEW n \in DOMAIN t.meshes
        PROVE  t.meshes[n] \in DOMAIN t.index /\ t.index[t.meshes[n]] = n
    <3>1. CASE n = Len(s.meshes) + 1
      BY <2>1, <2>2, <3>1
    <3>2. CASE n \in 1 .. Len(s.meshes)
      <4>1. s.meshes[n] \in DOMAIN s.index /\ s.index[s.meshes[n]] = n
        BY <2>2, <3>2 DEF Shares
      <4> QED BY <1>2, <2>1, <2>2, <3>2, <4>1
    <3> QED BY <2>2, <3>1, <3>2
  <2>5. Grown(s, t)
    BY <2>1 DEF Grown
  <2> QED BY <2>2, <2>3, <2>4, <2>5 DEF Shares
<1> QED BY <1>1, <1>2

\* The meshes after each object of a document.
LEMMA MeshesAre ==
    ASSUME NEW d, Len(d) \in Nat, NEW bad, NEW had, NEW known
    PROVE  \E s : /\ s = MeshesAfter(d, bad, had, known)
                  /\ s[0] = [meshes |-> had, index |-> known]
                  /\ \A n \in 1 .. Len(d) : s[n] = LoadOrShare(s[n - 1], d[n].mesh, n \in bad)
<1> DEFINE start == [meshes |-> had, index |-> known]
           Is(f, m) == f = [n \in 0 .. m |-> IF n = 0 THEN start
                                             ELSE LoadOrShare(f[n - 1], d[n].mesh, n \in bad)]
           missing == {m \in Nat : ~\E f : Is(f, m)}
<1>1. missing = {}
  <2> SUFFICES ASSUME missing # {} PROVE FALSE
    OBVIOUS
  <2>1. PICK m \in missing : \A k \in missing : m <= k
    BY LeastOf
  <2>2. m \in Nat /\ ~\E f : Is(f, m)
    BY <2>1
  <2>3. m # 0
    <3> SUFFICES ASSUME m = 0 PROVE FALSE
      OBVIOUS
    <3> DEFINE f == [n \in 0 .. 0 |-> start]
    <3>1. Is(f, 0)
      OBVIOUS
    <3> HIDE DEF f, Is
    <3> QED BY <2>2, <3>1
  <2>4. m - 1 \in Nat /\ m - 1 \notin missing
    <3> HIDE DEF missing
    <3> QED BY <2>1, <2>2, <2>3
  <2>5. PICK g : Is(g, m - 1)
    BY <2>4
  <2> HIDE DEF start
  <2>6. \A n \in 0 .. m - 1 :
           g[n] = IF n = 0 THEN start ELSE LoadOrShare(g[n - 1], d[n].mesh, n \in bad)
    BY <2>5
  <2> DEFINE f == [n \in 0 .. m |-> IF n = m THEN LoadOrShare(g[m - 1], d[m].mesh, m \in bad) ELSE g[n]]
  <2>7. /\ \A n \in 0 .. m - 1 : f[n] = g[n]
        /\ f[m] = LoadOrShare(g[m - 1], d[m].mesh, m \in bad)
        /\ f = [n \in 0 .. m |-> f[n]]
    BY <2>2
  <2> HIDE DEF f
  <2>8. ASSUME NEW n \in 0 .. m
        PROVE  f[n] = IF n = 0 THEN start ELSE LoadOrShare(f[n - 1], d[n].mesh, n \in bad)
    <3>1. CASE n = m
      <4>1. m - 1 \in 0 .. m - 1 /\ n # 0
        BY <2>2, <2>3, <3>1
      <4> QED BY <2>7, <3>1, <4>1
    <3>2. CASE n # m
      <4>1. n \in 0 .. m - 1 /\ (n # 0 => n - 1 \in 0 .. m - 1)
        BY <2>2, <3>2
      <4>2. CASE n = 0
        BY <2>6, <2>7, <4>1, <4>2
      <4>3. CASE n # 0
        BY <2>6, <2>7, <4>1, <4>3
      <4> QED BY <4>2, <4>3
    <3> QED BY <3>1, <3>2
  <2>9. Is(f, m)
    BY <2>7, <2>8
  <2> QED BY <2>2, <2>9
<1>2. PICK f : Is(f, Len(d))
  BY <1>1
<1>3. MeshesAfter(d, bad, had, known) = CHOOSE g : Is(g, Len(d))
  BY DEF MeshesAfter
<1>4. PICK s : s = MeshesAfter(d, bad, had, known)
  OBVIOUS
<1>5. Is(s, Len(d))
  BY <1>2, <1>3, <1>4
<1> QED BY <1>4, <1>5

\* So they are after all objects, and none is lost on the way.
LEMMA MeshesShare ==
    ASSUME NEW d \in Document, NEW bad, NEW had, NEW known,
           Shares([meshes |-> had, index |-> known])
    PROVE  \E s : /\ s = MeshesAfter(d, bad, had, known)
                  /\ Shares(s[Len(d)])
                  /\ \A i \in DOMAIN d : Grown(s[i], s[Len(d)])
<1>1. Len(d) \in Nat /\ DOMAIN d = 1 .. Len(d)
  BY SceneLoaderAssumption
<1>2. PICK s : /\ s = MeshesAfter(d, bad, had, known)
               /\ s[0] = [meshes |-> had, index |-> known]
               /\ \A n \in 1 .. Len(d) : s[n] = LoadOrShare(s[n - 1], d[n].mesh, n \in bad)
  BY <1>1, MeshesAre
<1> DEFINE Right(n) == Shares(s[n]) /\ \A i \in 0 .. n : Grown(s[i], s[n])
           wrong == {n \in 0 .. Len(d) : ~Right(n)}
<1>3. wrong = {}
  <2> SUFFICES ASSUME wrong # {} PROVE FALSE
    OBVIOUS
  <2> wrong \in SUBSET Nat
    OBVIOUS
  <2>1. PICK m \in wrong : \A k \in wrong : m <= k
    <3> HIDE DEF wrong
    <3> QED BY LeastOf
  <2>2. Right(0)
    BY <1>2 DEF Grown
  <2>3. m # 0 /\ m \in 1 .. Len(d) /\ m - 1 \in 0 .. Len(d) /\ m - 1 \notin wrong
    <3> HIDE DEF Right
    <3> QED BY <1>1, <2>1, <2>2
  <2>4. Right(m - 1) /\ d[m].mesh \in Paths
    BY <1>1, <2>3 DEF Paths
  <2>5. Shares(s[m]) /\ Grown(s[m - 1], s[m])
    BY <1>2, <2>3, <2>4, SharingShares
  <2>6. ASSUME NEW i \in 0 .. m PROVE Grown(s[i], s[m])
    <3>1. CASE i = m
      BY <3>1 DEF Grown
    <3>2. CASE i # m
      <4>1. i \in 0 .. m - 1
        BY <2>3, <3>2
      <4>2. Grown(s[i], s[m - 1])
        BY <2>4, <4>1
      <4> QED BY <2>5, <4>2 DEF Grown
    <3> QED BY <3>1, <3>2
  <2> QED BY <2>1, <2>5, <2>6
<1>4. Right(Len(d))
  <2> HIDE DEF Right
  <2> QED BY <1>1, <1>3
<1> QED BY <1>1, <1>2, <1>4

\* The parent that is found is an object of the document.
LEMMA ParentsAreThere ==
    ASSUME NEW d \in Document, NEW i \in DOMAIN d
    PROVE  ParentOf(d, i) \in {0} \cup DOMAIN d
<1> DEFINE named == {j \in DOMAIN d : d[j].name = d[i].parent}
           below == {Len(d) - j : j \in named}
<1>1. Len(d) \in Nat /\ DOMAIN d = 1 .. Len(d)
  BY SceneLoaderAssumption
<1>2. CASE named = {}
  BY <1>2 DEF ParentOf, NameToIndex
<1>3. CASE named # {}
  <2>1. below \in SUBSET Nat /\ below # {}
    BY <1>1, <1>3
  <2>2. PICK k \in below : \A j \in below : k <= j
    <3> HIDE DEF below
    <3> QED BY <2>1, LeastOf
  <2>3. \E j \in named : \A n \in named : n <= j
    <3>1. PICK j \in named : k = Len(d) - j
      BY <2>2
    <3>2. ASSUME NEW n \in named PROVE n <= j
      <4>1. k <= Len(d) - n
        BY <2>2
      <4>2. n \in Nat /\ j \in Nat
        BY <1>1
      <4> QED BY <1>1, <3>1, <4>1, <4>2
    <3> QED BY <3>2
  <2>4. NameToIndex(d, d[i].parent) \in named
    BY <1>3, <2>3 DEF NameToIndex
  <2> QED BY <2>4 DEF ParentOf
<1> QED BY <1>2, <1>3

\* Parents form no circle, so that the chains to the roots exist.
LEMMA WorldIs ==
    ASSUME NEW d \in Document
    PROVE  \E w : /\ w = World(d)
                  /\ \A i \in DOMAIN d :
                        w[i] = IF ParentOf(d, i) = 0 THEN <<i>> ELSE Append(w[ParentOf(d, i)], i)
<1> DEFINE up(i) == ParentOf(d, i)
<1>1. PICK depth \in [DOMAIN d -> DOMAIN d] :
         \A i \in DOMAIN d : up(i) # 0 => depth[up(i)] < depth[i]
  BY NoCircleAssumption
<1>2. Len(d) \in Nat /\ DOMAIN d = 1 .. Len(d)
  BY SceneLoaderAssumption
<1>3. \A i \in DOMAIN d : up(i) \in {0} \cup DOMAIN d
  BY ParentsAreThere
<1> HIDE DEF up
<1> DEFINE Upper(m) == {i \in DOMAIN d : depth[i] <= m}
           Chain(f, i) == IF up(i) = 0 THEN <<i>> ELSE Append(f[up(i)], i)
           Is(f, S) == f = [i \in S |-> Chain(f, i)]
           missing == {m \in Nat : ~\E f : Is(f, Upper(m))}
<1>4. missing = {}
  <2> SUFFICES ASSUME missing # {} PROVE FALSE
    OBVIOUS
  <2>1. PICK m \in missing : \A k \in missing : m <= k
    BY LeastOf
  <2>2. m \in Nat /\ ~\E f : Is(f, Upper(m))
    BY <2>1
  <2>3. m # 0
    <3> SUFFICES ASSUME m = 0 PROVE FALSE
      OBVIOUS
    <3>1. Upper(0) = {}
      BY <1>1, <1>2
    <3> DEFINE f == [i \in {} |-> 0]
    <3>2. Is(f, {})
      OBVIOUS
    <3> HIDE DEF f, Is, Upper
    <3> QED BY <2>2, <3>1, <3>2
  <2>4. m - 1 \in Nat /\ m - 1 \notin missing
    <3> HIDE DEF missing
    <3> QED BY <2>1, <2>2, <2>3
  <2>5. PICK g : Is(g, Upper(m - 1))
    BY <2>4
  <2> DEFINE f == [i \in Upper(m) |-> IF depth[i] = m THEN Chain(g, i) ELSE g[i]]
  <2>6. \A i \in Upper(m - 1) : g[i] = Chain(g, i)
    <3> HIDE DEF Upper, Chain
    <3> QED BY <2>5
  <2>7. \A i \in Upper(m) : i \in DOMAIN d /\ (depth[i] = m \/ i \in Upper(m - 1))
    BY <1>1, <1>2, <2>2
  <2>8. \A i \in Upper(m) : up(i) # 0 => up(i) \in Upper(m - 1) /\ f[up(i)] = g[up(i)]
    BY <1>1, <1>2, <1>3, <2>2, <2>7
  <2>9. f = [i \in Upper(m) |-> f[i]]
    OBVIOUS
  <2>10. ASSUME NEW i \in Upper(m) PROVE f[i] = Chain(g, i)
    <3>1. f[i] = IF depth[i] = m THEN Chain(g, i) ELSE g[i]
      <4> HIDE DEF Upper, Chain
      <4> QED OBVIOUS
    <3> HIDE DEF Upper, Chain, f
    <3> QED BY <2>6, <2>7, <3>1
  <2> HIDE DEF f, Upper
  <2>11. ASSUME NEW i \in Upper(m) PROVE f[i] = Chain(f, i)
    BY <2>8, <2>10
  <2>12. Is(f, Upper(m))
    <3> HIDE DEF Chain
    <3> QED BY <2>9, <2>11
  <2> QED BY <2>2, <2>12
<1>5. Upper(Len(d)) = DOMAIN d
  BY <1>1, <1>2
<1>6. PICK f : Is(f, Upper(Len(d)))
  BY <1>2, <1>4
<1>7. World(d) = CHOOSE g : Is(g, DOMAIN d)
  BY DEF World, up
<1>8. PICK w : w = World(d)
  OBVIOUS
<1>9. Is(w, DOMAIN d)
  <2> HIDE DEF Is, Upper
  <2> QED BY <1>5, <1>6, <1>7, <1>8
<1> HIDE DEF Chain
<1>10. \A i \in DOMAIN d : w[i] = Chain(w, i)
  BY <1>9
<1> QED BY <1>8, <1>10 DEF Chain, up

\* Nodes on their parents, meshes by path, materials of the nodes' meshes.
NodesStand ==
    \A i \in DOMAIN nodes :
       /\ nodes[i].parent = 0 \/ nodes[i].world = Append(nodes[nodes[i].parent].world, i)
       /\ nodes[i].mesh # 0 => nodes[i].mesh \in DOMAIN meshes /\ meshes[nodes[i].mesh] = nodes[i].path

\* The inductive invariant of a scene and its materials.
LoaderInv ==
    /\ onDisk \in Document \cup {Unreadable}
    /\ Shares([meshes |-> meshes, index |-> pathIndex])
    /\ nodes = [i \in DOMAIN nodes |-> nodes[i]] /\ NodesStand
    /\ materials # <<>> =>
          /\ DOMAIN materials = DOMAIN nodes /\ nodes # <<>>
          /\ \A i \in DOMAIN nodes : materials[i] \in {0, nodes[i].mesh}

\* What was loaded stands.
LEMMA LoadedStand ==
    ASSUME NEW d \in Document, NEW bad, NEW had, NEW known,
           Shares([meshes |-> had, index |-> known]), LoadObjects(d, bad, had, known)
    PROVE  /\ Shares([meshes |-> meshes, index |-> pathIndex])' /\ NodesStand'
           /\ nodes' = [i \in DOMAIN nodes' |-> nodes'[i]]
<1>0. PICK after : /\ after = MeshesAfter(d, bad, had, known)
                   /\ Shares(after[Len(d)])
                   /\ \A i \in DOMAIN d : Grown(after[i], after[Len(d)])
  BY MeshesShare
<1> DEFINE shared == after[Len(d)]
<1>1. PICK w : /\ w = World(d)
               /\ \A i \in DOMAIN d :
                     w[i] = IF ParentOf(d, i) = 0 THEN <<i>> ELSE Append(w[ParentOf(d, i)], i)
  BY WorldIs
<1>2. Shares(shared) /\ \A i \in DOMAIN d : Grown(after[i], shared)
  BY <1>0
<1> HIDE DEF shared
<1>3. /\ meshes' = shared.meshes /\ pathIndex' = shared.index
      /\ nodes' = [i \in DOMAIN d |->
            [name |-> d[i].name, path |-> d[i].mesh, parent |-> ParentOf(d, i), world |-> w[i],
             mesh |-> IF d[i].mesh \in DOMAIN after[i].index THEN after[i].index[d[i].mesh] ELSE 0]]
  BY <1>0, <1>1 DEF LoadObjects, shared
<1>4. Shares([meshes |-> meshes, index |-> pathIndex])'
  BY <1>2, <1>3 DEF Shares
<1>5. DOMAIN nodes' = DOMAIN d /\ nodes' = [i \in DOMAIN nodes' |-> nodes'[i]]
  BY <1>3
<1>6. ASSUME NEW i \in DOMAIN d
      PROVE  /\ nodes'[i].parent = 0 \/ nodes'[i].world = Append(nodes'[nodes'[i].parent].world, i)
             /\ nodes'[i].mesh # 0 =>
                   nodes'[i].mesh \in DOMAIN meshes' /\ meshes'[nodes'[i].mesh] = nodes'[i].path
  <2>1. /\ nodes'[i].path = d[i].mesh /\ nodes'[i].parent = ParentOf(d, i) /\ nodes'[i].world = w[i]
        /\ nodes'[i].mesh = IF d[i].mesh \in DOMAIN after[i].index THEN after[i].index[d[i].mesh] ELSE 0
    BY <1>3
  <2>2. ParentOf(d, i) # 0 => nodes'[ParentOf(d, i)].world = w[ParentOf(d, i)]
    BY <1>3, ParentsAreThere
  <2>3. nodes'[i].mesh # 0 => /\ d[i].mesh \in DOMAIN shared.index
                              /\ nodes'[i].mesh = shared.index[d[i].mesh]
    BY <1>2, <2>1 DEF Grown
  <2>4. nodes'[i].parent = 0 \/ nodes'[i].world = Append(nodes'[nodes'[i].parent].world, i)
    BY <1>1, <2>1, <2>2
  <2>5. nodes'[i].mesh # 0 =>
           nodes'[i].mesh \in DOMAIN meshes' /\ meshes'[nodes'[i].mesh] = nodes'[i].path
    BY <1>2, <1>3, <2>1, <2>3 DEF Shares
  <2> QED BY <2>4, <2>5
<1> QED BY <1>4, <1>5, <1>6 DEF NodesStand

\* Through edits, failed loads, reloads and rebuilds every node stands on its parent and
\* shows the mesh of its own path, loaded once, for all documents in which parents form no
\* circle, all meshes that fail and all sizes of the pool.
THEOREM ScenesStand == LoaderSpec => []SceneStands
<1> DEFINE nothing == [meshes |-> <<>>, index |-> <<>>]
<1>1. Shares(nothing)
  BY DEF Shares
<1>2. LoaderInit => LoaderInv
  BY <1>1 DEF LoaderInit, LoaderInv, NodesStand
<1>3. LoaderInv /\ [LoaderNext]_loaderVars => LoaderInv'
  <2> SUFFICES ASSUME LoaderInv, [LoaderNext]_loaderVars PROVE LoaderInv'
    OBVIOUS
  <2>1. CASE UNCHANGED loaderVars
    BY <2>1 DEF loaderVars, LoaderInv, NodesStand, Shares
  <2>2. ASSUME NEW d \in Document \cup {Unreadable}, EditScene(d) PROVE LoaderInv'
    BY <2>2 DEF EditScene, LoaderInv, NodesStand, Shares
  <2>3. CASE LoadFromFile
    <3>1. UNCHANGED <<onDisk, materials, sets>> /\ nodes = <<>> /\ materials = <<>>
      BY <2>3 DEF LoadFromFile, LoaderInv
    <3>2. CASE onDisk = Unreadable
      BY <2>3, <3>1, <3>2 DEF LoadFromFile, LoaderInv, NodesStand, Shares
    <3>3. CASE onDisk # Unreadable
      <4>1. PICK bad : LoadObjects(onDisk, bad, meshes, pathIndex)
        BY <2>3, <3>3 DEF LoadFromFile
      <4>2. onDisk \in Document /\ Shares([meshes |-> meshes, index |-> pathIndex])
        BY <3>3 DEF LoaderInv
      <4> QED BY <3>1, <4>1, <4>2, LoadedStand DEF LoaderInv
    <3> QED BY <3>2, <3>3
  <2>4. CASE Reload
    <3>1. UNCHANGED <<onDisk, sets>> /\ materials' = <<>>
      BY <2>4 DEF Reload
    <3>2. CASE onDisk = Unreadable
      <4>1. nodes' = <<>> /\ meshes' = <<>> /\ pathIndex' = <<>>
        BY <2>4, <3>2 DEF Reload, PathsCleared
      <4> QED BY <1>1, <3>1, <4>1 DEF LoaderInv, NodesStand, Shares
    <3>3. CASE onDisk # Unreadable
      <4>1. PICK bad : LoadObjects(onDisk, bad, <<>>, <<>>)
        BY <2>4, <3>3 DEF Reload, PathsCleared
      <4>2. onDisk \in Document
        BY <3>3 DEF LoaderInv
      <4> QED BY <1>1, <3>1, <4>1, <4>2, LoadedStand DEF LoaderInv
    <3> QED BY <3>2, <3>3
  <2>5. CASE BuildMaterials
    <3>1. UNCHANGED <<onDisk, nodes, meshes, pathIndex>>
      BY <2>5 DEF BuildMaterials
    <3>2. /\ DOMAIN materials' = DOMAIN nodes
          /\ \A i \in DOMAIN nodes : materials'[i] \in {0, nodes[i].mesh}
          /\ materials' = [i \in DOMAIN nodes |-> materials'[i]]
      BY <2>5 DEF BuildMaterials
    <3>3. nodes = <<>> => materials' = <<>>
      BY <3>2
    <3> QED BY <3>1, <3>2, <3>3 DEF LoaderInv, NodesStand, Shares
  <2>6. CASE Destroy
    <3>1. /\ UNCHANGED <<onDisk, sets>> /\ nodes' = <<>> /\ meshes' = <<>> /\ materials' = <<>>
          /\ pathIndex' = <<>>
      BY <2>6 DEF Destroy, PathsCleared
    <3> QED BY <1>1, <3>1 DEF LoaderInv, NodesStand, Shares
  <2> QED BY <2>1, <2>2, <2>3, <2>4, <2>5, <2>6 DEF LoaderNext
<1>4. LoaderInv => SceneStands
  BY DEF LoaderInv, Shares, NodesStand, SceneStands, IsInjective
<1> QED BY <1>2, <1>3, <1>4, PTL DEF LoaderSpec

-----------------------------------------------------------------------------
(* The render graph: comp is what was compiled, rec what is recorded. *)

GraphSpec == GraphInit /\ [][GraphNext]_graphVars

\* Passes of different names.
PassRecord == [name: DOMAIN Known, enabled: BOOLEAN, slot: Nat]
Named(seq) ==
    seq \in Seq(PassRecord) /\ \A i, j \in DOMAIN seq : seq[i].name = seq[j].name => i = j

\* Passes in order pass by pass are in order altogether.
LEMMA OrderHolds ==
    ASSUME NEW seq \in Seq(PassRecord), InOrder(seq), NEW i \in DOMAIN seq
    PROVE  \A j \in i .. Len(seq) : Order(seq[i]) <= Order(seq[j])
<1> DEFINE wrong == {j \in i .. Len(seq) : ~(Order(seq[i]) <= Order(seq[j]))}
<1>1. \A j \in DOMAIN seq : Order(seq[j]) \in Nat
  <2>1. \A n \in DOMAIN Known : Known[n].order \in Nat
    BY GraphAssumption
  <2>2. \A j \in DOMAIN seq : seq[j] \in PassRecord
    OBVIOUS
  <2>3. \A x \in PassRecord : x.name \in DOMAIN Known
    BY DEF PassRecord
  <2> QED BY <2>1, <2>2, <2>3 DEF Order
<1>2. Len(seq) \in Nat /\ DOMAIN seq = 1 .. Len(seq)
  OBVIOUS
<1>3. wrong = {}
  <2> SUFFICES ASSUME wrong # {} PROVE FALSE
    OBVIOUS
  <2>1. wrong \in SUBSET Nat
    BY <1>2
  <2>2. PICK m \in wrong : \A j \in wrong : m <= j
    <3> HIDE DEF wrong
    <3> QED BY <2>1, LeastOf
  <2>3. m # i /\ m - 1 \in i .. Len(seq) /\ m - 1 \notin wrong /\ m - 1 \in 1 .. Len(seq) - 1
    BY <1>1, <1>2, <2>2
  <2>4. Order(seq[m - 1]) <= Order(seq[(m - 1) + 1]) /\ (m - 1) + 1 = m
    BY <1>2, <2>3 DEF InOrder
  <2>5. m \in DOMAIN seq /\ m - 1 \in DOMAIN seq
    BY <1>2, <2>2, <2>3
  <2> HIDE DEF Order
  <2> QED BY <1>1, <2>2, <2>3, <2>4, <2>5
<1> QED BY <1>3

\* Compiling reorders passes, gives each its slot and loses none.
Permutes(comp, seq) ==
    /\ \A i \in DOMAIN comp : \E j \in DOMAIN seq :
          comp[i].name = seq[j].name /\ comp[i].enabled = seq[j].enabled
    /\ \A j \in DOMAIN seq : \E i \in DOMAIN comp :
          comp[i].name = seq[j].name /\ comp[i].enabled = seq[j].enabled

LEMMA CompiledIs ==
    ASSUME NEW seq, Named(seq), NEW comp \in Compiled(seq)
    PROVE  /\ Named(comp) /\ InOrder(comp) /\ Permutes(comp, seq)
           /\ \A i \in DOMAIN comp : comp[i].slot = i
<1> DEFINE S == ToSet(seq)
<1>1. /\ S \subseteq PassRecord /\ \A x \in S : \E j \in DOMAIN seq : x = seq[j]
      /\ \A j \in DOMAIN seq : seq[j] \in S
      /\ \A x, y \in S : x.name = y.name => x = y
  BY DEF ToSet, Named
<1>2. IsFiniteSet(S)
  <2>1. seq \in Surjection(1 .. Len(seq), S)
    BY DEF ToSet, Named, Surjection
  <2>2. IsFiniteSet(1 .. Len(seq))
    BY FS_Interval DEF Named
  <2> QED BY <2>1, <2>2, FS_Surjection
<1> DEFINE D == 1 .. Cardinality(S)
<1>3. PICK s \in [D -> S] :
        /\ \A i, j \in D : i # j => s[i] # s[j]
        /\ InOrder(s) /\ comp = [i \in DOMAIN s |-> [s[i] EXCEPT !.slot = i]]
  BY DEF Compiled, SetToSeqs
<1> HIDE DEF S
<1>4. Cardinality(S) \in Nat
  BY <1>2, FS_CardinalityType
<1>5. \A x \in S : \E i \in D : s[i] = x
  <2>1. s \in Injection(D, S)
    BY <1>3 DEF Injection, IsInjective
  <2>2. Cardinality(D) = Cardinality(S)
    BY <1>4, FS_Interval
  <2>3. s \in Surjection(D, S)
    BY <1>2, <2>1, <2>2, FS_Injection
  <2> QED BY <2>3 DEF Surjection
<1>6. DOMAIN comp = D /\ comp = [i \in D |-> comp[i]] /\ Len(s) = Cardinality(S)
  <2>1. DOMAIN s = D
    BY <1>3
  <2>2. comp = [i \in D |-> [s[i] EXCEPT !.slot = i]]
    BY <1>3, <2>1
  <2>3. DOMAIN comp = D
    BY <2>2
  <2>4. comp = [i \in D |-> comp[i]]
    BY <2>2, <2>3
  <2>5. Len(s) = Cardinality(S)
    BY <1>4, <2>1
  <2> QED BY <2>3, <2>4, <2>5
<1>7. \A i \in D : /\ comp[i].name = s[i].name /\ comp[i].enabled = s[i].enabled /\ comp[i].slot = i
                   /\ comp[i] \in PassRecord /\ s[i] \in S
  <2> SUFFICES ASSUME NEW i \in D
               PROVE  /\ comp[i].name = s[i].name /\ comp[i].enabled = s[i].enabled
                      /\ comp[i].slot = i /\ comp[i] \in PassRecord /\ s[i] \in S
    OBVIOUS
  <2>1. s[i] \in S /\ s[i] \in PassRecord
    BY <1>1, <1>3
  <2>2. comp[i] = [s[i] EXCEPT !.slot = i]
    BY <1>3
  <2>3. i \in Nat
    BY <1>4
  <2> QED BY <2>1, <2>2, <2>3 DEF PassRecord
<1>8. comp \in Seq(PassRecord) /\ Len(comp) = Cardinality(S)
  BY <1>4, <1>6, <1>7
<1>9. Named(comp)
  <2>1. ASSUME NEW i \in D, NEW j \in D, comp[i].name = comp[j].name PROVE i = j
    <3>1. s[i] = s[j]
      BY <1>1, <1>7, <2>1
    <3> QED BY <1>3, <3>1
  <2> QED BY <1>6, <1>8, <2>1 DEF Named
<1>10. InOrder(comp)
  <2>1. \A i \in D : Order(comp[i]) = Order(s[i])
    BY <1>7 DEF Order
  <2>2. \A i \in 1 .. Len(comp) - 1 : i \in D /\ i + 1 \in D
    BY <1>4, <1>8
  <2> HIDE DEF Order
  <2> QED BY <1>3, <1>6, <1>8, <2>1, <2>2 DEF InOrder
<1>11. Permutes(comp, seq)
  <2>1. ASSUME NEW i \in DOMAIN comp
        PROVE  \E j \in DOMAIN seq : comp[i].name = seq[j].name /\ comp[i].enabled = seq[j].enabled
    BY <1>1, <1>6, <1>7
  <2>2. ASSUME NEW j \in DOMAIN seq
        PROVE  \E i \in DOMAIN comp : comp[i].name = seq[j].name /\ comp[i].enabled = seq[j].enabled
    <3>1. PICK i \in D : s[i] = seq[j]
      BY <1>1, <1>5
    <3> QED BY <1>6, <1>7, <3>1
  <2> QED BY <2>1, <2>2 DEF Permutes
<1> QED BY <1>6, <1>7, <1>9, <1>10, <1>11

\* What a game builds in.
LEMMA BuiltInNamed ==
    LET S == {[name |-> n, enabled |-> TRUE, slot |-> 0] : n \in DOMAIN BuiltIn}
    IN  Named(SetToSeq(S))
<1> DEFINE S == {[name |-> n, enabled |-> TRUE, slot |-> 0] : n \in DOMAIN BuiltIn}
<1>1. S \subseteq PassRecord /\ \A x, y \in S : x.name = y.name => x = y
  <2>1. DOMAIN BuiltIn \subseteq DOMAIN Known
    BY DEF Known
  <2>2. \A n \in DOMAIN BuiltIn : [name |-> n, enabled |-> TRUE, slot |-> 0] \in PassRecord
    BY <2>1 DEF PassRecord
  <2>3. ASSUME NEW x \in S PROVE x \in PassRecord
    BY <2>2
  <2>4. ASSUME NEW x \in S, NEW y \in S, x.name = y.name PROVE x = y
    <3>1. PICK n \in DOMAIN BuiltIn : x = [name |-> n, enabled |-> TRUE, slot |-> 0]
      OBVIOUS
    <3>2. PICK m \in DOMAIN BuiltIn : y = [name |-> m, enabled |-> TRUE, slot |-> 0]
      OBVIOUS
    <3> QED BY <2>4, <3>1, <3>2
  <2> HIDE DEF S
  <2> QED BY <2>3, <2>4
<1>2. IsFiniteSet(S)
  <2> DEFINE f == [n \in DOMAIN BuiltIn |-> [name |-> n, enabled |-> TRUE, slot |-> 0]]
  <2>1. f \in Surjection(DOMAIN BuiltIn, S)
    BY DEF Surjection
  <2> HIDE DEF f, S
  <2> QED BY <2>1, FS_Surjection, GraphAssumption
<1> HIDE DEF S
<1>3. Cardinality(S) \in Nat /\ ExistsBijection(1 .. Cardinality(S), S)
  BY <1>2, FS_CardinalityType
<1>4. \E f \in [1 .. Cardinality(S) -> S] : IsInjective(f)
  BY <1>3 DEF ExistsBijection, Bijection, Injection
<1>5. SetToSeq(S) \in [1 .. Cardinality(S) -> S] /\ IsInjective(SetToSeq(S))
  BY <1>4 DEF SetToSeq
<1>6. SetToSeq(S) \in Seq(PassRecord)
  BY <1>1, <1>3, <1>5
<1>7. Named(SetToSeq(S))
  BY <1>1, <1>5, <1>6 DEF Named, IsInjective
<1> QED BY <1>7 DEF S

\* The frames after each pass.
LEMMA FramesAre ==
    ASSUME NEW comp, Len(comp) \in Nat
    PROVE  \E a : /\ a = FrameAfter(comp)
                  /\ a[0] = [tracked |-> Initial, real |-> layout, log |-> <<>>]
                  /\ \A n \in 1 .. Len(comp) : a[n] = Recording(a[n - 1], comp[n])
<1> DEFINE start == [tracked |-> Initial, real |-> layout, log |-> <<>>]
           Is(f, m) == f = [n \in 0 .. m |-> IF n = 0 THEN start ELSE Recording(f[n - 1], comp[n])]
           missing == {m \in Nat : ~\E f : Is(f, m)}
<1>1. missing = {}
  <2> SUFFICES ASSUME missing # {} PROVE FALSE
    OBVIOUS
  <2>1. PICK m \in missing : \A k \in missing : m <= k
    BY LeastOf
  <2>2. m \in Nat /\ ~\E f : Is(f, m)
    BY <2>1
  <2>3. m # 0
    <3> SUFFICES ASSUME m = 0 PROVE FALSE
      OBVIOUS
    <3> DEFINE f == [n \in 0 .. 0 |-> start]
    <3>1. Is(f, 0)
      OBVIOUS
    <3> HIDE DEF f, Is
    <3> QED BY <2>2, <3>1
  <2>4. m - 1 \in Nat /\ m - 1 \notin missing
    <3> HIDE DEF missing
    <3> QED BY <2>1, <2>2, <2>3
  <2>5. PICK g : Is(g, m - 1)
    BY <2>4
  <2> HIDE DEF start
  <2>6. \A n \in 0 .. m - 1 : g[n] = IF n = 0 THEN start ELSE Recording(g[n - 1], comp[n])
    BY <2>5
  <2> DEFINE f == [n \in 0 .. m |-> IF n = m THEN Recording(g[m - 1], comp[m]) ELSE g[n]]
  <2>7. /\ \A n \in 0 .. m - 1 : f[n] = g[n]
        /\ f[m] = Recording(g[m - 1], comp[m])
        /\ f = [n \in 0 .. m |-> f[n]]
    BY <2>2
  <2> HIDE DEF f
  <2>8. ASSUME NEW n \in 0 .. m
        PROVE  f[n] = IF n = 0 THEN start ELSE Recording(f[n - 1], comp[n])
    <3>1. CASE n = m
      <4>1. m - 1 \in 0 .. m - 1 /\ n # 0
        BY <2>2, <2>3, <3>1
      <4> QED BY <2>7, <3>1, <4>1
    <3>2. CASE n # m
      <4>1. n \in 0 .. m - 1 /\ (n # 0 => n - 1 \in 0 .. m - 1)
        BY <2>2, <3>2
      <4>2. CASE n = 0
        BY <2>6, <2>7, <4>1, <4>2
      <4>3. CASE n # 0
        BY <2>6, <2>7, <4>1, <4>3
      <4> QED BY <4>2, <4>3
    <3> QED BY <3>1, <3>2
  <2>9. Is(f, m)
    BY <2>7, <2>8
  <2> QED BY <2>2, <2>9
<1>2. PICK f : Is(f, Len(comp))
  BY <1>1
<1>3. FrameAfter(comp) = CHOOSE g : Is(g, Len(comp))
  BY DEF FrameAfter
<1>4. PICK a : a = FrameAfter(comp)
  OBVIOUS
<1>5. Is(a, Len(comp))
  BY <1>2, <1>3, <1>4
<1> QED BY <1>4, <1>5

\* Images that an earlier frame left elsewhere.
Strayed == {i \in DOMAIN Initial : Initial[i] \notin {layout[i], Undefined}}

\* What is recorded after n passes: those that are enabled, in their order, with what
\* they want of images, whose tracked layouts are the real ones or unknown.
Composed(rec, comp, n) ==
    /\ \E S : rec.log \in Seq(S)
    /\ \A j \in DOMAIN rec.log : \E k \in 1 .. n :
          comp[k].enabled /\ rec.log[j].name = comp[k].name
    /\ \A k \in 1 .. n : comp[k].enabled =>
          \E j \in DOMAIN rec.log : rec.log[j].name = comp[k].name
    /\ InOrder(rec.log)
    /\ \A i, j \in DOMAIN rec.log : rec.log[i].name = rec.log[j].name => i = j
    /\ \A j \in DOMAIN rec.log : \A i \in DOMAIN rec.log[j].found \ Strayed :
          rec.log[j].found[i] = Uses(rec.log[j])[i]
    /\ \A i \in DOMAIN Initial \ Strayed : rec.tracked[i] \in {rec.real[i], Undefined}

\* One pass more.
LEMMA RecordingComposes ==
    ASSUME NEW comp, Named(comp), InOrder(comp), NEW n \in 1 .. Len(comp),
           NEW rec, Composed(rec, comp, n - 1)
    PROVE  \E t : t = Recording(rec, comp[n]) /\ Composed(t, comp, n)
<1>1. /\ Len(comp) \in Nat /\ DOMAIN comp = 1 .. Len(comp) /\ n \in Nat /\ n - 1 \in Nat
      /\ comp[n] \in PassRecord /\ comp[n].enabled \in BOOLEAN /\ comp[n].name \in DOMAIN Known
  <2>1. \A x \in PassRecord : x.enabled \in BOOLEAN /\ x.name \in DOMAIN Known
    BY DEF PassRecord
  <2> QED BY <2>1 DEF Named
<1>2. \A k \in 1 .. n : k \in 1 .. n - 1 \/ k = n
  BY <1>1
<1>3. \A k \in 1 .. n - 1 : k \in 1 .. n
  BY <1>1
<1> PICK t : t = Recording(rec, comp[n])
  OBVIOUS
<1>4. CASE ~comp[n].enabled
  <2>1. t = rec
    BY <1>4 DEF Recording
  <2> QED BY <1>2, <1>3, <1>4, <2>1 DEF Composed
<1>5. CASE comp[n].enabled
  <2> DEFINE uses == Uses(comp[n])
             turned == {i \in DOMAIN uses : rec.tracked[i] # uses[i]}
             entry == [name |-> comp[n].name, found |-> [i \in DOMAIN uses |-> t.real[i]]]
  <2>1. /\ t.tracked = [i \in DOMAIN Initial |-> IF i \in turned THEN uses[i] ELSE rec.tracked[i]]
        /\ t.real = [i \in DOMAIN Initial |-> IF i \in turned THEN uses[i] ELSE rec.real[i]]
        /\ t.log = Append(rec.log, entry)
    BY <1>5 DEF Recording
  <2>2. DOMAIN uses \subseteq DOMAIN Initial /\ \A i \in DOMAIN uses : uses[i] # Undefined
    BY <1>1, GraphAssumption DEF Uses
  <2>3. entry.name = comp[n].name /\ DOMAIN entry.found = DOMAIN uses
        /\ \A i \in DOMAIN uses : entry.found[i] = t.real[i]
    OBVIOUS
  <2>4. Uses(entry) = uses /\ Order(entry) = Order(comp[n])
    BY <2>3 DEF Uses, Order
  <2> HIDE DEF uses, entry
  <2>5. PICK S : rec.log \in Seq(S)
    BY DEF Composed
  <2>6. /\ rec.log \in Seq(S \cup {entry}) /\ t.log \in Seq(S \cup {entry})
        /\ Len(rec.log) \in Nat /\ DOMAIN rec.log = 1 .. Len(rec.log)
        /\ Len(t.log) = Len(rec.log) + 1 /\ DOMAIN t.log = 1 .. Len(rec.log) + 1
        /\ t.log[Len(rec.log) + 1] = entry
        /\ \A j \in 1 .. Len(rec.log) : t.log[j] = rec.log[j]
    BY <2>1, <2>5
  <2> DEFINE last == Len(rec.log) + 1
  <2>7. DOMAIN t.log = DOMAIN rec.log \cup {last} /\ last \notin DOMAIN rec.log
    BY <2>6
  <2>8. ASSUME NEW i \in DOMAIN Initial \ Strayed
        PROVE  /\ t.tracked[i] \in {t.real[i], Undefined}
               /\ i \in DOMAIN uses => t.real[i] = uses[i]
    <3>1. rec.tracked[i] \in {rec.real[i], Undefined}
      BY DEF Composed
    <3>2. CASE i \in turned
      BY <2>1, <3>2
    <3>3. CASE i \notin turned
      BY <2>1, <2>2, <3>1, <3>3
    <3> QED BY <3>2, <3>3
  <2>9. ASSUME NEW j \in DOMAIN rec.log PROVE rec.log[j].name # comp[n].name
    <3>1. PICK k \in 1 .. n - 1 : rec.log[j].name = comp[k].name
      BY DEF Composed
    <3>2. k \in DOMAIN comp /\ n \in DOMAIN comp /\ k # n
      BY <1>1
    <3> QED BY <3>1, <3>2 DEF Named
  <2>10. ASSUME NEW j \in DOMAIN rec.log PROVE Order(rec.log[j]) <= Order(comp[n])
    <3>1. PICK k \in 1 .. n - 1 : rec.log[j].name = comp[k].name
      BY DEF Composed
    <3>2. k \in DOMAIN comp /\ n \in k .. Len(comp)
      BY <1>1
    <3>3. Order(comp[k]) <= Order(comp[n])
      BY <3>2, OrderHolds DEF Named
    <3> QED BY <3>1, <3>3 DEF Order
  <2>11. \A j \in DOMAIN t.log : \E k \in 1 .. n :
            comp[k].enabled /\ t.log[j].name = comp[k].name
    BY <1>1, <1>3, <1>5, <2>3, <2>6, <2>7 DEF Composed
  <2>12. \A k \in 1 .. n : comp[k].enabled => \E j \in DOMAIN t.log : t.log[j].name = comp[k].name
    <3> SUFFICES ASSUME NEW k \in 1 .. n, comp[k].enabled
                 PROVE  \E j \in DOMAIN t.log : t.log[j].name = comp[k].name
      OBVIOUS
    <3>1. CASE k = n
      BY <2>3, <2>6, <2>7, <3>1
    <3>2. CASE k \in 1 .. n - 1
      <4>1. PICK j \in DOMAIN rec.log : rec.log[j].name = comp[k].name
        BY <3>2 DEF Composed
      <4> QED BY <2>6, <2>7, <4>1
    <3> QED BY <1>2, <3>1, <3>2
  <2>13. InOrder(t.log)
    <3> SUFFICES ASSUME NEW i \in 1 .. Len(t.log) - 1
                 PROVE  Order(t.log[i]) <= Order(t.log[i + 1])
      BY DEF InOrder
    <3> HIDE DEF Order
    <3>1. CASE i + 1 = last
      BY <2>4, <2>6, <2>10, <3>1
    <3>2. CASE i + 1 # last
      <4>1. i \in 1 .. Len(rec.log) - 1 /\ i \in DOMAIN rec.log /\ i + 1 \in DOMAIN rec.log
        BY <2>6, <3>2
      <4> QED BY <2>6, <4>1 DEF Composed, InOrder
    <3> QED BY <3>1, <3>2
  <2>14. \A i, j \in DOMAIN t.log : t.log[i].name = t.log[j].name => i = j
    <3> SUFFICES ASSUME NEW i \in DOMAIN t.log, NEW j \in DOMAIN t.log, t.log[i].name = t.log[j].name
                 PROVE  i = j
      OBVIOUS
    <3>1. CASE i \in DOMAIN rec.log /\ j \in DOMAIN rec.log
      BY <2>6, <3>1 DEF Composed
    <3>2. t.log[last].name = comp[n].name
      BY <2>3, <2>6
    <3>3. \A m \in DOMAIN rec.log : t.log[m].name # comp[n].name
      BY <2>6, <2>9
    <3> HIDE DEF last
    <3> QED BY <2>7, <3>1, <3>2, <3>3
  <2>15. ASSUME NEW j \in DOMAIN t.log, NEW i \in DOMAIN t.log[j].found \ Strayed
         PROVE  t.log[j].found[i] = Uses(t.log[j])[i]
    <3>1. CASE j = last
      BY <2>2, <2>3, <2>4, <2>6, <2>8, <3>1
    <3>2. CASE j \in DOMAIN rec.log
      BY <2>6, <3>2 DEF Composed
    <3> QED BY <2>7, <3>1, <3>2
  <2>16. Composed(t, comp, n)
    <3> HIDE DEF turned, last
    <3> QED BY <2>6, <2>8, <2>11, <2>12, <2>13, <2>14, <2>15 DEF Composed
  <2> QED BY <2>16
<1> QED BY <1>1, <1>4, <1>5

\* All passes.
LEMMA FramesCompose ==
    ASSUME NEW comp, Named(comp), InOrder(comp)
    PROVE  Composed(FrameAfter(comp)[Len(comp)], comp, Len(comp))
<1>1. Len(comp) \in Nat
  BY DEF Named
<1>2. PICK a : /\ a = FrameAfter(comp)
               /\ a[0] = [tracked |-> Initial, real |-> layout, log |-> <<>>]
               /\ \A n \in 1 .. Len(comp) : a[n] = Recording(a[n - 1], comp[n])
  BY <1>1, FramesAre
<1>3. Composed(a[0], comp, 0)
  BY <1>2 DEF Composed, InOrder, Strayed
<1> DEFINE wrong == {n \in 0 .. Len(comp) : ~Composed(a[n], comp, n)}
<1>4. wrong = {}
  <2> SUFFICES ASSUME wrong # {} PROVE FALSE
    OBVIOUS
  <2> wrong \in SUBSET Nat
    OBVIOUS
  <2>1. PICK m \in wrong : \A k \in wrong : m <= k
    <3> HIDE DEF wrong
    <3> QED BY LeastOf
  <2>2. m # 0 /\ m \in 1 .. Len(comp) /\ m - 1 \in 0 .. Len(comp) /\ m - 1 \notin wrong
    BY <1>1, <1>3, <2>1
  <2>3. Composed(a[m - 1], comp, m - 1)
    BY <2>2
  <2> QED BY <1>2, <2>1, <2>2, <2>3, RecordingComposes
<1> QED BY <1>1, <1>2, <1>4

\* The slots of the profiler, their times and the passes they are of.
Timed ==
    /\ profiler = [enabled |-> profiler.enabled, slots |-> profiler.slots]
    /\ \A s \in DOMAIN profiler.slots :
          /\ profiler.slots[s] = [name |-> profiler.slots[s].name, of |-> profiler.slots[s].of]
          /\ profiler.slots[s].of \in {NoPass, profiler.slots[s].name}
    /\ DOMAIN pool = InFlight
    /\ \A f \in InFlight :
          /\ DOMAIN pool[f] = DOMAIN profiler.slots
          /\ \A s \in DOMAIN profiler.slots : pool[f][s] \in {NoPass, profiler.slots[s].name}
    /\ ~resort =>
          /\ DOMAIN profiler.slots = DOMAIN passes
          /\ \A i \in DOMAIN passes : passes[i].slot = i /\ profiler.slots[i].name = passes[i].name

\* The inductive invariant of the graph between frames.
GraphInv ==
    /\ Named(passes) /\ (~resort => InOrder(passes))
    /\ resort \in BOOLEAN /\ Timed

\* What a frame records is composed of the passes there are.
LEMMA ExecuteComposes ==
    ASSUME GraphInv, NEW f \in InFlight, Execute(f)
    PROVE  /\ GraphInv'
           /\ LET on == {i \in DOMAIN passes : passes[i].enabled}
              IN  /\ InOrder(recorded') /\ IsInjective(recorded')
                  /\ {recorded'[i].name : i \in DOMAIN recorded'} = {passes[i].name : i \in on}
                  /\ \A i \in DOMAIN recorded' : \A image \in DOMAIN recorded'[i].found \ Strayed :
                        recorded'[i].found[image] = Uses(recorded'[i])[image]
<1> DEFINE on == {i \in DOMAIN passes : passes[i].enabled}
           Pool(comp) == IF resort THEN NewPool(Len(comp)) ELSE pool
           NamedBy(comp, s) == IF \E i \in DOMAIN comp : comp[i].slot = s
                               THEN comp[CHOOSE i \in DOMAIN comp : comp[i].slot = s].name
                               ELSE NoPass
<1>1. PICK comp \in Current :
        /\ passes' = comp /\ resort' = FALSE
        /\ recorded' = FrameAfter(comp)[Len(comp)].log
        /\ profiler' = IF resort
              THEN [profiler EXCEPT !.slots =
                       [i \in DOMAIN comp |-> [name |-> comp[i].name, of |-> NoPass]]]
              ELSE profiler
        /\ pool' = IF profiler.enabled
              THEN [Pool(comp) EXCEPT ![f] = [s \in DOMAIN @ |-> NamedBy(comp, s)]]
              ELSE Pool(comp)
  BY DEF Execute
<1>2. /\ Named(comp) /\ InOrder(comp) /\ Permutes(comp, passes)
      /\ \A i \in DOMAIN comp : comp[i].slot = i
  <2>1. CASE resort
    BY <1>1, <2>1, CompiledIs DEF Current, GraphInv
  <2>2. CASE ~resort
    BY <1>1, <2>2 DEF Current, GraphInv, Timed, Permutes
  <2> QED BY <2>1, <2>2
<1>3. Len(comp) \in Nat /\ DOMAIN comp = 1 .. Len(comp)
  BY <1>2 DEF Named
<1>4. PICK rec : rec = FrameAfter(comp)[Len(comp)] /\ recorded' = rec.log /\ Composed(rec, comp, Len(comp))
  BY <1>1, <1>2, FramesCompose
<1>5. {recorded'[i].name : i \in DOMAIN recorded'} = {passes[i].name : i \in on}
  <2>1. ASSUME NEW j \in DOMAIN recorded' PROVE \E i \in on : recorded'[j].name = passes[i].name
    <3>1. PICK k \in DOMAIN comp : comp[k].enabled /\ recorded'[j].name = comp[k].name
      BY <1>3, <1>4 DEF Composed
    <3> QED BY <1>2, <3>1 DEF Permutes
  <2>2. ASSUME NEW i \in on PROVE \E j \in DOMAIN recorded' : recorded'[j].name = passes[i].name
    <3>1. PICK k \in DOMAIN comp : comp[k].enabled /\ comp[k].name = passes[i].name
      BY <1>2 DEF Permutes
    <3> QED BY <1>3, <1>4, <3>1 DEF Composed
  <2> HIDE DEF on
  <2> QED BY <2>1, <2>2
<1>6. IsInjective(recorded')
  BY <1>4 DEF Composed, IsInjective
<1>7. Timed'
  <2>1. /\ profiler'.enabled = profiler.enabled
        /\ profiler' = [enabled |-> profiler'.enabled, slots |-> profiler'.slots]
        /\ DOMAIN profiler'.slots = DOMAIN comp
        /\ \A s \in DOMAIN comp :
              /\ profiler'.slots[s] = [name |-> comp[s].name, of |-> profiler'.slots[s].of]
              /\ profiler'.slots[s].of \in {NoPass, comp[s].name}
    <3>1. CASE resort
      BY <1>1, <3>1 DEF GraphInv, Timed
    <3>2. CASE ~resort
      <4>1. comp = passes /\ profiler' = profiler
        BY <1>1, <3>2 DEF Current
      <4> QED BY <3>2, <4>1 DEF GraphInv, Timed
    <3> QED BY <3>1, <3>2
  <2>2. /\ DOMAIN Pool(comp) = InFlight
        /\ \A g \in InFlight :
              /\ DOMAIN Pool(comp)[g] = DOMAIN comp
              /\ \A s \in DOMAIN comp : Pool(comp)[g][s] \in {NoPass, comp[s].name}
    <3>1. CASE resort
      BY <1>3, <3>1 DEF NewPool, Unwritten
    <3>2. CASE ~resort
      <4>1. comp = passes
        BY <1>1, <3>2 DEF Current
      <4> QED BY <3>2, <4>1 DEF GraphInv, Timed
    <3> QED BY <3>1, <3>2
  <2>3. \A s \in DOMAIN comp : NamedBy(comp, s) = comp[s].name
    BY <1>2
  <2> HIDE DEF NamedBy, Pool
  <2>4. /\ DOMAIN pool' = InFlight
        /\ \A g \in InFlight :
              /\ DOMAIN pool'[g] = DOMAIN comp
              /\ \A s \in DOMAIN comp : pool'[g][s] \in {NoPass, comp[s].name}
    <3>1. CASE profiler.enabled
      <4>1. pool' = [Pool(comp) EXCEPT ![f] = [s \in DOMAIN Pool(comp)[f] |-> NamedBy(comp, s)]]
        BY <1>1, <3>1
      <4>2. ASSUME NEW g \in InFlight
            PROVE  /\ DOMAIN pool'[g] = DOMAIN comp
                   /\ \A s \in DOMAIN comp : pool'[g][s] \in {NoPass, comp[s].name}
        <5>1. CASE g = f
          BY <2>2, <2>3, <4>1, <5>1
        <5>2. CASE g # f
          <6>1. pool'[g] = Pool(comp)[g]
            BY <2>2, <4>1, <5>2
          <6> QED BY <2>2, <6>1
        <5> QED BY <5>1, <5>2
      <4> QED BY <2>2, <4>1, <4>2
    <3>2. CASE ~profiler.enabled
      BY <1>1, <2>2, <3>2
    <3> QED BY <3>1, <3>2
  <2>5. InFlight' = InFlight
    BY DEF InFlight
  <2>6. ASSUME NEW s \in DOMAIN profiler'.slots
        PROVE  /\ profiler'.slots[s] = [name |-> profiler'.slots[s].name, of |-> profiler'.slots[s].of]
               /\ profiler'.slots[s].name = comp[s].name
               /\ profiler'.slots[s].of \in {NoPass, profiler'.slots[s].name}
    <3>1. s \in DOMAIN comp /\ profiler'.slots[s] = [name |-> comp[s].name, of |-> profiler'.slots[s].of]
      BY <2>1
    <3>2. profiler'.slots[s].name = comp[s].name
      BY <3>1
    <3> QED BY <2>1, <3>1, <3>2
  <2>7. \A g \in InFlight :
           /\ DOMAIN pool'[g] = DOMAIN profiler'.slots
           /\ \A s \in DOMAIN profiler'.slots : pool'[g][s] \in {NoPass, profiler'.slots[s].name}
    BY <2>1, <2>4, <2>6
  <2>8. /\ DOMAIN profiler'.slots = DOMAIN passes'
        /\ \A i \in DOMAIN passes' : passes'[i].slot = i /\ profiler'.slots[i].name = passes'[i].name
    BY <1>1, <1>2, <2>1, <2>6
  <2> QED BY <2>1, <2>4, <2>5, <2>6, <2>7, <2>8 DEF Timed
<1>8. GraphInv'
  BY <1>1, <1>2, <1>7 DEF GraphInv
<1>9. /\ InOrder(recorded')
      /\ \A i \in DOMAIN recorded' : \A image \in DOMAIN recorded'[i].found \ Strayed :
            recorded'[i].found[image] = Uses(recorded'[i])[image]
  BY <1>4 DEF Composed
<1> QED BY <1>5, <1>6, <1>8, <1>9

\* Between frames, passes keep their names apart and the profiler its slots.
LEMMA BetweenFrames ==
    ASSUME GraphInv,
           \/ \E n \in DOMAIN Known, on \in BOOLEAN : SetPassEnabled(n, on)
           \/ \E n \in DOMAIN Plugin : RegisterDllPass(n) \/ UnregisterDllPass(n)
           \/ \E on \in BOOLEAN : EnableProfiler(on)
           \/ \E f \in InFlight : Readback(f)
    PROVE  GraphInv'
<1>1. ASSUME NEW n \in DOMAIN Known, NEW on \in BOOLEAN, SetPassEnabled(n, on) PROVE GraphInv'
  <2>1. /\ UNCHANGED <<resort, layout, pool, profiler, recorded>>
        /\ DOMAIN passes' = DOMAIN passes /\ Len(passes') = Len(passes) /\ passes' \in Seq(PassRecord)
        /\ \A i \in DOMAIN passes : passes'[i].name = passes[i].name /\ passes'[i].slot = passes[i].slot
    <3>1. /\ passes \in Seq(PassRecord) /\ Len(passes) \in Nat /\ DOMAIN passes = 1 .. Len(passes)
      BY DEF GraphInv, Named
    <3>2. \A i \in DOMAIN passes : [passes[i] EXCEPT !.enabled = on] \in PassRecord
      <4>1. \A x \in PassRecord : [x EXCEPT !.enabled = on] \in PassRecord
        BY DEF PassRecord
      <4> QED BY <3>1, <4>1
    <3>3. \A i \in DOMAIN passes : /\ [passes[i] EXCEPT !.enabled = on].name = passes[i].name
                                   /\ [passes[i] EXCEPT !.enabled = on].slot = passes[i].slot
      <4>1. \A x \in PassRecord : /\ [x EXCEPT !.enabled = on].name = x.name
                                  /\ [x EXCEPT !.enabled = on].slot = x.slot
        BY DEF PassRecord
      <4> QED BY <3>1, <4>1
    <3>4. passes' = [i \in 1 .. Len(passes) |->
             IF passes[i].name = n THEN [passes[i] EXCEPT !.enabled = on] ELSE passes[i]]
      BY <1>1, <3>1 DEF SetPassEnabled
    <3> QED BY <1>1, <3>1, <3>2, <3>3, <3>4 DEF SetPassEnabled
  <2>2. Named(passes)'
    BY <2>1 DEF GraphInv, Named
  <2>3. InOrder(passes) => InOrder(passes)'
    <3>1. \A i \in DOMAIN passes : Order(passes[i])' = Order(passes[i])
      BY <2>1 DEF Order
    <3>2. Len(passes) \in Nat /\ DOMAIN passes = 1 .. Len(passes)
      BY DEF GraphInv, Named
    <3> HIDE DEF Order
    <3> QED BY <2>1, <3>1, <3>2 DEF InOrder, Order
  <2>4. Timed'
    BY <2>1 DEF GraphInv, Timed, InFlight
  <2> QED BY <2>1, <2>2, <2>3, <2>4 DEF GraphInv
<1>2. ASSUME NEW n \in DOMAIN Plugin, RegisterDllPass(n) PROVE GraphInv'
  <2> DEFINE entry == [name |-> n, enabled |-> TRUE, slot |-> 0]
  <2>1. /\ passes' = Append(passes, entry) /\ resort' = TRUE
        /\ UNCHANGED <<layout, pool, profiler, recorded>> /\ \A i \in DOMAIN passes : passes[i].name # n
    BY <1>2 DEF RegisterDllPass
  <2>2. entry \in PassRecord /\ entry.name = n
    BY DEF PassRecord, Known
  <2> HIDE DEF entry
  <2>3. passes \in Seq(PassRecord) /\ passes' \in Seq(PassRecord) /\ Len(passes) \in Nat
    BY <2>1, <2>2 DEF GraphInv, Named
  <2>4. /\ DOMAIN passes' = DOMAIN passes \cup {Len(passes) + 1} /\ Len(passes) + 1 \notin DOMAIN passes
        /\ passes'[Len(passes) + 1] = entry /\ \A i \in DOMAIN passes : passes'[i] = passes[i]
    BY <2>1, <2>2, <2>3
  <2>5. Named(passes)'
    BY <2>1, <2>2, <2>3, <2>4 DEF GraphInv, Named
  <2> QED BY <2>1, <2>5 DEF GraphInv, Timed, InFlight
<1>3. ASSUME NEW n \in DOMAIN Plugin, UnregisterDllPass(n) PROVE GraphInv'
  <2>1. PICK k \in DOMAIN passes : passes' = RemoveAt(passes, k)
    BY <1>3 DEF UnregisterDllPass
  <2>2. resort' = TRUE /\ UNCHANGED <<layout, pool, profiler, recorded>>
    BY <1>3 DEF UnregisterDllPass
  <2> DEFINE l == Len(passes)
             left == SubSeq(passes, 1, k - 1)
             right == SubSeq(passes, k + 1, l)
  <2>3. passes \in Seq(PassRecord) /\ l \in Nat /\ DOMAIN passes = 1 .. l /\ k \in 1 .. l
    BY DEF GraphInv, Named
  <2>4. /\ left \in Seq(PassRecord) /\ right \in Seq(PassRecord)
        /\ Len(left) = k - 1 /\ Len(right) = l - k
        /\ \A i \in 1 .. k - 1 : left[i] = passes[i]
        /\ \A i \in 1 .. l - k : right[i] = passes[i + k]
    BY <2>3
  <2>5. passes' = left \o right
    BY <2>1 DEF RemoveAt
  <2> HIDE DEF left, right, l
  <2>6. passes' \in Seq(PassRecord) /\ Len(passes') = l - 1 /\ DOMAIN passes' = 1 .. l - 1
    BY <2>3, <2>4, <2>5
  <2>7. \A i \in 1 .. l - 1 : passes'[i] = IF i < k THEN passes[i] ELSE passes[i + 1]
    <3> SUFFICES ASSUME NEW i \in 1 .. l - 1
                 PROVE  passes'[i] = IF i < k THEN passes[i] ELSE passes[i + 1]
      OBVIOUS
    <3>1. passes'[i] = IF i <= k - 1 THEN left[i] ELSE right[i - (k - 1)]
      <4>1. i \in 1 .. Len(left) + Len(right)
        BY <2>3, <2>4
      <4> QED BY <2>4, <2>5, <4>1, ConcatProperties
    <3>2. CASE i < k
      BY <2>3, <2>4, <3>1, <3>2
    <3>3. CASE ~(i < k)
      <4>1. i - (k - 1) \in 1 .. l - k /\ (i - (k - 1)) + k = i + 1 /\ ~(i <= k - 1)
        BY <2>3, <3>3
      <4> QED BY <2>4, <3>1, <3>3, <4>1
    <3> QED BY <3>2, <3>3
  <2>8. ASSUME NEW i \in 1 .. l - 1, NEW j \in 1 .. l - 1, passes'[i].name = passes'[j].name
        PROVE  i = j
    <3> DEFINE Old(m) == IF m < k THEN m ELSE m + 1
    <3>1. Old(i) \in DOMAIN passes /\ Old(j) \in DOMAIN passes
      BY <2>3
    <3>2. passes'[i] = passes[Old(i)] /\ passes'[j] = passes[Old(j)]
      BY <2>7
    <3>3. Old(i) = Old(j)
      <4> HIDE DEF Old
      <4> QED BY <2>8, <3>1, <3>2 DEF GraphInv, Named
    <3> QED BY <2>3, <3>3
  <2>9. Named(passes)'
    BY <2>6, <2>8 DEF Named
  <2> QED BY <2>2, <2>9 DEF GraphInv, Timed, InFlight
<1>4. ASSUME NEW on \in BOOLEAN, EnableProfiler(on) PROVE GraphInv'
  BY <1>4 DEF EnableProfiler, GraphInv, Timed, InFlight, Named, InOrder, Order
<1>5. ASSUME NEW f \in InFlight, Readback(f) PROVE GraphInv'
  <2>1. /\ UNCHANGED <<passes, resort, layout, pool, recorded>>
        /\ profiler' = [profiler EXCEPT !.slots =
                           [s \in DOMAIN @ |-> [@[s] EXCEPT !.of = pool[f][s]]]]
    BY <1>5 DEF Readback
  <2>2. /\ profiler' = [enabled |-> profiler'.enabled, slots |-> profiler'.slots]
        /\ DOMAIN profiler'.slots = DOMAIN profiler.slots
        /\ \A s \in DOMAIN profiler.slots :
              profiler'.slots[s] = [name |-> profiler.slots[s].name, of |-> pool[f][s]]
    BY <2>1 DEF GraphInv, Timed
  <2>3. Timed'
    BY <2>1, <2>2 DEF GraphInv, Timed, InFlight
  <2> QED BY <2>1, <2>3 DEF GraphInv, Named, InOrder, Order
<1> QED BY <1>1, <1>2, <1>3, <1>4, <1>5

\* A frame records the enabled passes once each and in their order, every image in the
\* layout its pass declares unless it strayed, and a time that is shown is of the pass it
\* is shown for: for all passes, orders, plugins, images, layouts and frames in flight.
THEOREM PassesStayComposed == GraphSpec => PassesAreComposed
<1>1. GraphInit => GraphInv
  <2> SUFFICES ASSUME GraphInit PROVE GraphInv
    OBVIOUS
  <2>1. PICK seq : Named(seq) /\ passes \in Compiled(seq)
    BY BuiltInNamed DEF GraphInit
  <2>2. Named(passes) /\ InOrder(passes) /\ \A i \in DOMAIN passes : passes[i].slot = i
    BY <2>1, CompiledIs
  <2>3. Len(passes) \in Nat /\ DOMAIN passes = 1 .. Len(passes)
    BY <2>2 DEF Named
  <2>4. Timed
    BY <2>2, <2>3 DEF GraphInit, Timed, Unwritten
  <2> QED BY <2>2, <2>4 DEF GraphInit, GraphInv
<1>2. GraphInv /\ [GraphNext]_graphVars => GraphInv'
  <2> SUFFICES ASSUME GraphInv, [GraphNext]_graphVars PROVE GraphInv'
    OBVIOUS
  <2>1. CASE UNCHANGED graphVars
    BY <2>1 DEF graphVars, GraphInv, Timed, InFlight, Named, InOrder, Order
  <2>2. CASE GraphNext
    BY <2>2, BetweenFrames, ExecuteComposes DEF GraphNext
  <2> QED BY <2>1, <2>2
<1> DEFINE FrameStep == graphVars' # graphVars => \A f \in InFlight : Execute(f) =>
            LET strayed == {i \in DOMAIN Initial : Initial[i] \notin {layout[i], Undefined}}
                on == {i \in DOMAIN passes : passes[i].enabled}
            IN  /\ InOrder(recorded') /\ IsInjective(recorded')
                /\ {recorded'[i].name : i \in DOMAIN recorded'} = {passes[i].name : i \in on}
                /\ \A i \in DOMAIN recorded' : \A image \in DOMAIN recorded'[i].found \ strayed :
                      recorded'[i].found[image] = Uses(recorded'[i])[image]
           Times == \A s \in DOMAIN profiler.slots :
                       profiler.slots[s].of \in {NoPass, profiler.slots[s].name}
<1>3. GraphInv => FrameStep
  BY ExecuteComposes DEF Strayed
<1>4. GraphInv => Times
  BY DEF GraphInv, Timed
<1>5. GraphSpec => [][FrameStep]_graphVars /\ []Times
  <2> HIDE DEF FrameStep, Times
  <2> QED BY <1>1, <1>2, <1>3, <1>4, PTL DEF GraphSpec
<1> QED BY <1>5 DEF PassesAreComposed

-----------------------------------------------------------------------------
(* Scene files: a document is brought up to the game's release and back. *)

SceneSpec == SceneInit /\ [][SceneNext]_sceneVars

\* The documents after each migration.
LEMMA PassesAre ==
    ASSUME NEW doc, NEW ms, Len(ms) \in Nat
    PROVE  \E a : /\ a = PassAfter(doc, ms) /\ a[0] = [doc |-> doc, saved |-> {}]
                  /\ \A n \in 1 .. Len(ms) : a[n] = MigrateFrom(a[n - 1], ms[n])
<1> DEFINE start == [doc |-> doc, saved |-> {}]
           Is(f, m) == f = [n \in 0 .. m |-> IF n = 0 THEN start ELSE MigrateFrom(f[n - 1], ms[n])]
           missing == {m \in Nat : ~\E f : Is(f, m)}
<1>1. missing = {}
  <2> SUFFICES ASSUME missing # {} PROVE FALSE
    OBVIOUS
  <2>1. PICK m \in missing : \A k \in missing : m <= k
    BY LeastOf
  <2>2. m \in Nat /\ ~\E f : Is(f, m)
    BY <2>1
  <2>3. m # 0
    <3> SUFFICES ASSUME m = 0 PROVE FALSE
      OBVIOUS
    <3> DEFINE f == [n \in 0 .. 0 |-> start]
    <3>1. Is(f, 0)
      OBVIOUS
    <3> HIDE DEF f, Is
    <3> QED BY <2>2, <3>1
  <2>4. m - 1 \in Nat /\ m - 1 \notin missing
    <3> HIDE DEF missing
    <3> QED BY <2>1, <2>2, <2>3
  <2>5. PICK g : Is(g, m - 1)
    BY <2>4
  <2> HIDE DEF start
  <2>6. \A n \in 0 .. m - 1 : g[n] = IF n = 0 THEN start ELSE MigrateFrom(g[n - 1], ms[n])
    BY <2>5
  <2> DEFINE f == [n \in 0 .. m |-> IF n = m THEN MigrateFrom(g[m - 1], ms[m]) ELSE g[n]]
  <2>7. /\ \A n \in 0 .. m - 1 : f[n] = g[n]
        /\ f[m] = MigrateFrom(g[m - 1], ms[m])
        /\ f = [n \in 0 .. m |-> f[n]]
    BY <2>2
  <2> HIDE DEF f
  <2>8. ASSUME NEW n \in 0 .. m
        PROVE  f[n] = IF n = 0 THEN start ELSE MigrateFrom(f[n - 1], ms[n])
    <3>1. CASE n = m
      <4>1. m - 1 \in 0 .. m - 1 /\ n # 0
        BY <2>2, <2>3, <3>1
      <4> QED BY <2>7, <3>1, <4>1
    <3>2. CASE n # m
      <4>1. n \in 0 .. m - 1 /\ (n # 0 => n - 1 \in 0 .. m - 1)
        BY <2>2, <3>2
      <4>2. CASE n = 0
        BY <2>6, <2>7, <4>1, <4>2
      <4>3. CASE n # 0
        BY <2>6, <2>7, <4>1, <4>3
      <4> QED BY <4>2, <4>3
    <3> QED BY <3>1, <3>2
  <2>9. Is(f, m)
    BY <2>7, <2>8
  <2> QED BY <2>2, <2>9
<1>2. PICK f : Is(f, Len(ms))
  BY <1>1
<1>3. PassAfter(doc, ms) = CHOOSE g : Is(g, Len(ms))
  BY DEF PassAfter
<1>4. PICK a : a = PassAfter(doc, ms)
  OBVIOUS
<1>5. Is(a, Len(ms))
  BY <1>2, <1>3, <1>4
<1>6. a[0] = start /\ \A n \in 1 .. Len(ms) : a[n] = MigrateFrom(a[n - 1], ms[n])
  <2>1. \A n \in 0 .. Len(ms) : a[n] = IF n = 0 THEN start ELSE MigrateFrom(a[n - 1], ms[n])
    <3> HIDE DEF start
    <3> QED BY <1>5
  <2> HIDE DEF start
  <2> QED BY <2>1
<1> QED BY <1>4, <1>6

\* Migrations are kept in order, each once.
Ascending(ms) ==
    /\ ms \in Seq(Nat) /\ \A i, j \in DOMAIN ms : ms[i] = ms[j] => i = j
    /\ \A i \in 1 .. Len(ms) - 1 : ms[i] <= ms[i + 1]

\* As many different ones as there are numbers: then each is in its place.
LEMMA AllInPlace ==
    ASSUME NEW ms, Ascending(ms), \A i \in DOMAIN ms : ms[i] \in 1 .. Len(ms)
    PROVE  \A i \in 1 .. Len(ms) : ms[i] = i
<1> DEFINE k == Len(ms)
           low == {i \in 1 .. k : ~(i <= ms[i])}
           high == {j \in 0 .. k - 1 : ~(ms[k - j] <= k - j)}
<1>1. k \in Nat /\ DOMAIN ms = 1 .. k /\ \A i \in 1 .. k : ms[i] \in Nat /\ ms[i] \in 1 .. k
  BY DEF Ascending
<1>2. ASSUME NEW i \in 1 .. k - 1 PROVE ms[i] < ms[i + 1] /\ i \in 1 .. k /\ i + 1 \in 1 .. k
  <2>1. i \in DOMAIN ms /\ i + 1 \in DOMAIN ms /\ i # i + 1
    BY <1>1
  <2>2. ms[i] # ms[i + 1] /\ ms[i] <= ms[i + 1]
    BY <2>1 DEF Ascending
  <2> QED BY <1>1, <2>1, <2>2
<1> HIDE DEF k
<1>3. low = {}
  <2> SUFFICES ASSUME low # {} PROVE FALSE
    OBVIOUS
  <2>1. low \in SUBSET Nat
    BY <1>1
  <2>2. PICK m \in low : \A j \in low : m <= j
    <3> HIDE DEF low
    <3> QED BY <2>1, LeastOf
  <2>3. m \in 1 .. k /\ ~(m <= ms[m]) /\ ms[m] \in Nat /\ m # 1
    BY <1>1, <2>2
  <2>4. m - 1 \in 1 .. k - 1 /\ (m - 1) + 1 = m /\ m - 1 \notin low
    BY <1>1, <2>2, <2>3
  <2>5. ms[m - 1] < ms[m] /\ m - 1 \in 1 .. k
    BY <1>2, <2>4
  <2>6. m - 1 <= ms[m - 1] /\ ms[m - 1] \in Nat
    BY <1>1, <2>4, <2>5
  <2> QED BY <1>1, <2>3, <2>5, <2>6
<1>4. high = {}
  <2> SUFFICES ASSUME high # {} PROVE FALSE
    OBVIOUS
  <2>1. high \in SUBSET Nat
    BY <1>1
  <2>2. PICK m \in high : \A j \in high : m <= j
    <3> HIDE DEF high
    <3> QED BY <2>1, LeastOf
  <2>3. m \in 0 .. k - 1 /\ k - m \in 1 .. k /\ ~(ms[k - m] <= k - m)
    BY <1>1, <2>2
  <2>4. m # 0
    BY <1>1, <2>3
  <2>5. m - 1 \in 0 .. k - 1 /\ m - 1 \notin high
    <3>1. m - 1 \in 0 .. k - 1 /\ m \in Nat /\ ~(m <= m - 1)
      BY <1>1, <2>3, <2>4
    <3> HIDE DEF high
    <3> QED BY <2>2, <3>1
  <2>6. ms[k - (m - 1)] <= k - (m - 1) /\ k - (m - 1) = (k - m) + 1 /\ k - m \in 1 .. k - 1
    BY <1>1, <2>3, <2>4, <2>5
  <2>7. ms[k - m] < ms[(k - m) + 1] /\ (k - m) + 1 \in 1 .. k
    BY <1>2, <2>6
  <2> QED BY <1>1, <2>3, <2>6, <2>7
<1>5. ASSUME NEW i \in 1 .. k PROVE ms[i] = i
  <2>1. i <= ms[i]
    BY <1>3
  <2>2. k - i \in 0 .. k - 1 /\ k - (k - i) = i
    BY <1>1
  <2>3. ms[i] <= i
    BY <1>4, <2>2
  <2> QED BY <1>1, <2>1, <2>3
<1> QED BY <1>5 DEF k

\* Saved whole, by a game or before: its content has the format it says.
Whole(doc) ==
    /\ doc = [version |-> doc.version, format |-> doc.format, root |-> doc.root]
    /\ doc.version \in Nat \ {0} /\ doc.format = doc.version

\* The pass brings a document of any version to the game's and saves what it replaces.
LEMMA PassMigrates ==
    ASSUME NEW doc, Whole(doc), NEW ms, Len(ms) \in Nat, \A i \in 1 .. Len(ms) : ms[i] = i
    PROVE  /\ Migrate(doc, ms).doc.root = doc.root
           /\ Migrate(doc, ms).doc.format >= Len(ms) + 1
           /\ \A b \in Migrate(doc, ms).saved : b.format = b.version
<1>1. PICK a : /\ a = PassAfter(doc, ms) /\ a[0] = [doc |-> doc, saved |-> {}]
               /\ \A n \in 1 .. Len(ms) : a[n] = MigrateFrom(a[n - 1], ms[n])
  BY PassesAre
<1> DEFINE At(n) == /\ Whole(a[n].doc) /\ a[n].doc.root = doc.root /\ a[n].doc.version >= n + 1
                    /\ \A b \in a[n].saved : b.format = b.version
           wrong == {n \in 0 .. Len(ms) : ~At(n)}
<1>2. At(0)
  BY <1>1 DEF Whole
<1>3. ASSUME NEW n \in 1 .. Len(ms), At(n - 1) PROVE At(n)
  <2>1. a[n] = MigrateFrom(a[n - 1], n) /\ n \in Nat
    BY <1>1
  <2>2. CASE a[n - 1].doc.version # n
    <3>1. a[n] = a[n - 1] /\ a[n - 1].doc.version \in Nat
      BY <1>3, <2>1, <2>2 DEF MigrateFrom, Whole
    <3>2. a[n - 1].doc.version >= n + 1
      BY <1>3, <2>1, <2>2, <3>1
    <3> QED BY <1>3, <3>1, <3>2
  <2>3. CASE a[n - 1].doc.version = n
    <3>1. /\ a[n].doc = Migrated(a[n - 1].doc, n)
          /\ a[n].saved = a[n - 1].saved \cup {[version |-> n, format |-> a[n - 1].doc.format]}
      BY <2>1, <2>3 DEF MigrateFrom
    <3>2. /\ a[n].doc = [version |-> n + 1, format |-> n + 1, root |-> doc.root]
      BY <1>3, <2>3, <3>1 DEF Migrated, Whole
    <3>3. \A b \in a[n].saved : b.format = b.version
      BY <1>3, <2>3, <3>1 DEF Whole
    <3> QED BY <2>1, <3>2, <3>3 DEF Whole
  <2> QED BY <2>2, <2>3
<1> HIDE DEF At
<1>4. wrong = {}
  <2> SUFFICES ASSUME wrong # {} PROVE FALSE
    OBVIOUS
  <2> wrong \in SUBSET Nat
    OBVIOUS
  <2>1. PICK m \in wrong : \A j \in wrong : m <= j
    <3> HIDE DEF wrong
    <3> QED BY LeastOf
  <2>2. m # 0 /\ m \in 1 .. Len(ms) /\ m - 1 \in 0 .. Len(ms) /\ m - 1 \notin wrong
    BY <1>2, <2>1
  <2> QED BY <1>3, <2>1, <2>2
<1>5. At(Len(ms))
  BY <1>4
<1> QED BY <1>1, <1>5 DEF Migrate, At, Whole

\* What was read and brought within its ranges is what was saved, brought within them.
LEMMA RangesHold ==
    ASSUME NEW root
    PROVE  LET kept == DeserializeAll(root, DefaultScene)
           IN  DeserializeAll(ValidateRanges(root), DefaultScene) =
                  [kept EXCEPT !.postprocess =
                      [f \in DOMAIN Ranged |-> Clamp(f, kept.postprocess[f])]]
<1> DEFINE kept == DeserializeAll(root, DefaultScene)
           read == DeserializeAll(ValidateRanges(root), DefaultScene)
           clamped == [f \in DOMAIN Ranged |-> Clamp(f, kept.postprocess[f])]
<1>1. \A f \in DOMAIN Ranged : Clamp(f, Ranged[f].default) = Ranged[f].default
  BY SceneAssumption DEF Clamp
<1>2. DefaultScene.postprocess = [f \in DOMAIN Ranged |-> Ranged[f].default]
  BY DEF DefaultScene
<1>3. /\ read.anchor = kept.anchor /\ read.weather = kept.weather /\ read.biome = kept.biome
      /\ read.postprocess = clamped
  <2>1. CASE "postprocess" \notin DOMAIN root
    <3>1. read = kept /\ kept.postprocess = [f \in DOMAIN Ranged |-> Ranged[f].default]
      BY <1>2, <2>1 DEF ValidateRanges, DeserializeAll
    <3>2. clamped = kept.postprocess
      BY <1>1, <3>1
    <3> QED BY <3>1, <3>2
  <2>2. CASE "postprocess" \in DOMAIN root
    <3> DEFINE had == root.postprocess
               valid == [f \in DOMAIN Ranged |->
                            IF f \in DOMAIN had THEN Clamp(f, had[f]) ELSE Ranged[f].default]
    <3>1. ValidateRanges(root) = [root EXCEPT !.postprocess = valid]
      BY <2>2 DEF ValidateRanges
    <3>2. kept.postprocess = [f \in DOMAIN Ranged |->
                                  IF f \in DOMAIN had THEN had[f] ELSE Ranged[f].default]
      BY <1>2, <2>2 DEF DeserializeAll, ReadOr
    <3>3. clamped = valid
      BY <1>1, <3>2
    <3> DEFINE now2 == ValidateRanges(root)
    <3>4. /\ DOMAIN now2 = DOMAIN root /\ now2.postprocess = valid
          /\ "anchor" \in DOMAIN root => now2.anchor = root.anchor
          /\ "weather" \in DOMAIN root => now2.weather = root.weather
          /\ "biome" \in DOMAIN root => now2.biome = root.biome
      BY <2>2, <3>1
    <3>5. read.postprocess = valid
      <4>1. read.postprocess = ReadOr(now2.postprocess, DefaultScene.postprocess)
        BY <2>2, <3>4 DEF DeserializeAll
      <4> HIDE DEF now2
      <4> QED BY <1>2, <3>4, <4>1 DEF ReadOr
    <3>6. read.anchor = kept.anchor /\ read.weather = kept.weather /\ read.biome = kept.biome
      <4> HIDE DEF now2
      <4>1. read = DeserializeAll(now2, DefaultScene)
        BY DEF now2
      <4> HIDE DEF read
      <4> QED BY <3>4, <4>1 DEF DeserializeAll
    <3> QED BY <3>3, <3>5, <3>6
  <2> QED BY <2>1, <2>2
<1>4. /\ read = [postprocess |-> read.postprocess, anchor |-> read.anchor,
                 weather |-> read.weather, biome |-> read.biome]
      /\ kept = [postprocess |-> kept.postprocess, anchor |-> kept.anchor,
                  weather |-> kept.weather, biome |-> kept.biome]
  BY DEF DeserializeAll
<1> HIDE DEF read, kept, clamped
<1>5. read = [kept EXCEPT !.postprocess = clamped]
  BY <1>3, <1>4
<1> QED BY <1>5 DEF read, kept, clamped

\* Every value within its range.
WithinRanges(s) == \A f \in DOMAIN Ranged : s.postprocess[f] \in Ranged[f].min .. Ranged[f].max

\* What was clamped is within its range.
LEMMA ClampBounds ==
    ASSUME NEW f \in DOMAIN Ranged, NEW x \in Int
    PROVE  Clamp(f, x) \in Ranged[f].min .. Ranged[f].max
<1>1. /\ Ranged[f].min \in Int /\ Ranged[f].max \in Int
      /\ Ranged[f].default \in Ranged[f].min .. Ranged[f].max
  BY SceneAssumption
<1> QED BY <1>1 DEF Clamp

\* What is found where it was put, and the default where nothing was.
LEMMA GroupsComeBack ==
    ASSUME NEW values, NEW default, DOMAIN values \subseteq DOMAIN default,
           \A p \in DOMAIN default : p = << p[1], p[2] >>
    PROVE  ReadGroups(Grouped(values), default) =
              [p \in DOMAIN default |-> IF p \in DOMAIN values THEN values[p] ELSE default[p]]
<1> DEFINE G == Grouped(values)
<1>1. /\ DOMAIN G = {q[1] : q \in DOMAIN values}
      /\ \A g \in DOMAIN G :
            /\ DOMAIN G[g] = {q[2] : q \in {r \in DOMAIN values : r[1] = g}}
            /\ \A k \in DOMAIN G[g] : G[g][k] = values[<< g, k >>]
  BY DEF Grouped
<1> HIDE DEF G
<1>2. ASSUME NEW p \in DOMAIN default, p \in DOMAIN values
      PROVE  p[1] \in DOMAIN G /\ p[2] \in DOMAIN G[p[1]] /\ G[p[1]][p[2]] = values[p]
  <2>1. p[1] \in DOMAIN G
    BY <1>1, <1>2
  <2>2. p[2] \in DOMAIN G[p[1]]
    BY <1>1, <1>2, <2>1
  <2> QED BY <1>1, <2>1, <2>2
<1>3. ASSUME NEW p \in DOMAIN default, p \notin DOMAIN values
      PROVE  ~(p[1] \in DOMAIN G /\ p[2] \in DOMAIN G[p[1]])
  <2> SUFFICES ASSUME p[1] \in DOMAIN G, p[2] \in DOMAIN G[p[1]] PROVE FALSE
    OBVIOUS
  <2>1. PICK q \in DOMAIN values : q[1] = p[1] /\ q[2] = p[2]
    BY <1>1
  <2>2. q = << p[1], p[2] >> /\ p = << p[1], p[2] >>
    BY <2>1
  <2> QED BY <1>3, <2>1, <2>2
<1> QED BY <1>2, <1>3 DEF ReadGroups, G

\* Overrides and scenes with all their fields.
IsOverride(w, properties) ==
    /\ w = [time |-> w.time, value |-> w.value]
    /\ w.value = [p \in properties |-> w.value[p]]
IsScene(s) ==
    /\ s = [postprocess |-> s.postprocess, anchor |-> s.anchor,
            weather |-> s.weather, biome |-> s.biome]
    /\ s.postprocess \in [DOMAIN Ranged -> Int]
    /\ s.anchor = [p \in DOMAIN Anchor |-> s.anchor[p]]
    /\ IsOverride(s.weather, Weather) /\ IsOverride(s.biome, Biome)

\* An override that was written is read back, with nothing more and nothing less.
LEMMA OverrideComesBack ==
    ASSUME NEW w, NEW properties, IsOverride(w, properties),
           \A p \in properties : p = << p[1], p[2] >>
    PROVE  DeserializeOverride(SerializeOverride(w), properties) = w
<1> DEFINE on == Put(w.value)
           none == [p \in properties |-> Off]
<1>1. DOMAIN w.value = properties
  BY DEF IsOverride
<1>2. /\ DOMAIN on = {p \in properties : w.value[p] # Off}
      /\ \A p \in DOMAIN on : on[p] = w.value[p]
  BY <1>1 DEF Put
<1>3. DOMAIN none = properties /\ \A p \in properties : none[p] = Off
  OBVIOUS
<1> HIDE DEF on, none
<1>4. ReadGroups(Grouped(on), none) =
         [p \in DOMAIN none |-> IF p \in DOMAIN on THEN on[p] ELSE none[p]]
  BY <1>2, <1>3, GroupsComeBack
<1>5. ReadGroups(Grouped(on), none) = [p \in properties |-> w.value[p]]
  BY <1>2, <1>3, <1>4
<1>6. Get(Grouped(on), properties) = w.value
  BY <1>5 DEF Get, none, IsOverride
<1>7. SerializeOverride(w) = [transitionTime |-> w.time, groups |-> Grouped(on)]
  BY DEF SerializeOverride, on
<1>8. DeserializeOverride(SerializeOverride(w), properties) = [time |-> w.time, value |-> w.value]
  BY <1>6, <1>7 DEF DeserializeOverride
<1> QED BY <1>8 DEF IsOverride

\* A scene that was written is read back.
LEMMA SceneComesBack ==
    ASSUME NEW s, IsScene(s), NEW v
    PROVE  DeserializeAll(SerializeAll(s, v).root, DefaultScene) = s
<1> DEFINE root == SerializeAll(s, v).root
           read == DeserializeAll(root, DefaultScene)
<1>1. /\ \A p \in DOMAIN Anchor : p = << p[1], p[2] >>
      /\ \A p \in Weather : p = << p[1], p[2] >>
      /\ \A p \in Biome : p = << p[1], p[2] >>
  BY SceneAssumption
<1>2. root = [postprocess |-> s.postprocess, anchor |-> SerializeAnchor(s.anchor),
              weather |-> SerializeWeather(s.weather), biome |-> SerializeBiome(s.biome)]
  BY DEF SerializeAll
<1>3. read = [postprocess |-> ReadOr(s.postprocess, DefaultScene.postprocess),
              anchor |-> DeserializeAnchor(SerializeAnchor(s.anchor)),
              weather |-> DeserializeWeather(SerializeWeather(s.weather)),
              biome |-> DeserializeBiome(SerializeBiome(s.biome))]
  <2> HIDE DEF root
  <2> QED BY <1>2 DEF DeserializeAll
<1>4. ReadOr(s.postprocess, DefaultScene.postprocess) = s.postprocess
  <2>1. DefaultScene.postprocess = [f \in DOMAIN Ranged |-> Ranged[f].default]
    BY DEF DefaultScene
  <2>2. s.postprocess \in [DOMAIN Ranged -> Int]
    BY DEF IsScene
  <2> QED BY <2>1, <2>2 DEF ReadOr
<1>5. DeserializeAnchor(SerializeAnchor(s.anchor)) = s.anchor
  <2>1. s.anchor = [p \in DOMAIN Anchor |-> s.anchor[p]] /\ DOMAIN s.anchor = DOMAIN Anchor
    BY DEF IsScene
  <2>2. ReadGroups(Grouped(s.anchor), Anchor) =
           [p \in DOMAIN Anchor |-> IF p \in DOMAIN s.anchor THEN s.anchor[p] ELSE Anchor[p]]
    BY <1>1, <2>1, GroupsComeBack
  <2>3. ReadGroups(Grouped(s.anchor), Anchor) = [p \in DOMAIN Anchor |-> s.anchor[p]]
    BY <2>1, <2>2
  <2> QED BY <2>1, <2>3 DEF DeserializeAnchor, SerializeAnchor
<1>6. DeserializeWeather(SerializeWeather(s.weather)) = s.weather
  BY <1>1, OverrideComesBack DEF IsScene, DeserializeWeather, SerializeWeather
<1>7. DeserializeBiome(SerializeBiome(s.biome)) = s.biome
  BY <1>1, OverrideComesBack DEF IsScene, DeserializeBiome, SerializeBiome
<1> HIDE DEF read
<1>8. read = [postprocess |-> s.postprocess, anchor |-> s.anchor,
              weather |-> s.weather, biome |-> s.biome]
  BY <1>3, <1>4, <1>5, <1>6, <1>7
<1> QED BY <1>8 DEF read, IsScene

LEMMA DefaultIsScene == IsScene(DefaultScene) /\ WithinRanges(DefaultScene)
<1>1. \A f \in DOMAIN Ranged : /\ Ranged[f].default \in Int
                             /\ Ranged[f].default \in Ranged[f].min .. Ranged[f].max
  BY SceneAssumption
<1>2. Anchor = [p \in DOMAIN Anchor |-> Anchor[p]]
  BY SceneAssumption
<1> QED BY <1>1, <1>2 DEF DefaultScene, NoOverride, IsScene, IsOverride, WithinRanges

\* Values a document has for the fields are numbers.
Numbers(root) ==
    "postprocess" \in DOMAIN root => \A f \in DOMAIN root.postprocess : root.postprocess[f] \in Int

\* What is read of any document is a scene.
LEMMA ReadIsScene ==
    ASSUME NEW root, Numbers(root)
    PROVE  IsScene(DeserializeAll(root, DefaultScene))
<1> DEFINE read == DeserializeAll(root, DefaultScene)
<1>1. IsScene(DefaultScene)
  BY DefaultIsScene
<1>2. read = [postprocess |-> read.postprocess, anchor |-> read.anchor,
              weather |-> read.weather, biome |-> read.biome]
  BY DEF DeserializeAll
<1>3. read.postprocess \in [DOMAIN Ranged -> Int]
  <2>1. DefaultScene.postprocess \in [DOMAIN Ranged -> Int]
    BY <1>1 DEF IsScene
  <2>2. CASE "postprocess" \notin DOMAIN root
    BY <2>1, <2>2 DEF DeserializeAll
  <2>3. CASE "postprocess" \in DOMAIN root
    <3>1. read.postprocess = ReadOr(root.postprocess, DefaultScene.postprocess)
      BY <2>3 DEF DeserializeAll
    <3> QED BY <2>1, <2>3, <3>1 DEF ReadOr, Numbers
  <2> QED BY <2>2, <2>3
<1>4. read.anchor = [p \in DOMAIN Anchor |-> read.anchor[p]]
  <2>1. read.anchor = DefaultScene.anchor \/ read.anchor = ReadGroups(root.anchor, Anchor)
    BY DEF DeserializeAll, DeserializeAnchor
  <2> HIDE DEF read
  <2> QED BY <1>1, <2>1 DEF IsScene, ReadGroups
<1>5. ASSUME NEW w, NEW properties, NEW section, w = DeserializeOverride(section, properties)
      PROVE  IsOverride(w, properties)
  BY <1>5 DEF DeserializeOverride, IsOverride, Get, ReadGroups
<1>6. IsOverride(read.weather, Weather)
  <2>1. read.weather = DefaultScene.weather \/ read.weather = DeserializeOverride(root.weather, Weather)
    BY DEF DeserializeAll, DeserializeWeather
  <2> HIDE DEF read
  <2> QED BY <1>1, <1>5, <2>1 DEF IsScene
<1>7. IsOverride(read.biome, Biome)
  <2>1. read.biome = DefaultScene.biome \/ read.biome = DeserializeOverride(root.biome, Biome)
    BY DEF DeserializeAll, DeserializeBiome
  <2> HIDE DEF read
  <2> QED BY <1>1, <1>5, <2>1 DEF IsScene
<1> HIDE DEF read
<1>8. IsScene(read)
  BY <1>2, <1>3, <1>4, <1>6, <1>7 DEF IsScene
<1> QED BY <1>8 DEF read

\* Brought within their ranges it is still one, and now they hold.
LEMMA LoadedIsScene ==
    ASSUME NEW root, Numbers(root)
    PROVE  LET read == DeserializeAll(ValidateRanges(root), DefaultScene)
           IN  IsScene(read) /\ WithinRanges(read)
<1> DEFINE kept == DeserializeAll(root, DefaultScene)
           clamped == [f \in DOMAIN Ranged |-> Clamp(f, kept.postprocess[f])]
           read == DeserializeAll(ValidateRanges(root), DefaultScene)
<1>1. read = [kept EXCEPT !.postprocess = clamped]
  BY RangesHold
<1>2. IsScene(kept)
  BY ReadIsScene
<1> HIDE DEF kept, read
<1>3. \A f \in DOMAIN Ranged : /\ clamped[f] \in Ranged[f].min .. Ranged[f].max
                             /\ clamped[f] \in Int
  <2> SUFFICES ASSUME NEW f \in DOMAIN Ranged
               PROVE  clamped[f] \in Ranged[f].min .. Ranged[f].max /\ clamped[f] \in Int
    OBVIOUS
  <2>1. kept.postprocess[f] \in Int
    BY <1>2 DEF IsScene
  <2>2. clamped[f] \in Ranged[f].min .. Ranged[f].max
    BY <2>1, ClampBounds
  <2>3. Ranged[f].min \in Int /\ Ranged[f].max \in Int
    BY SceneAssumption
  <2> QED BY <2>2, <2>3
<1>4. clamped = [f \in DOMAIN Ranged |-> clamped[f]]
  OBVIOUS
<1> HIDE DEF clamped
<1>5. read = [postprocess |-> clamped, anchor |-> kept.anchor,
              weather |-> kept.weather, biome |-> kept.biome]
  BY <1>1, <1>2 DEF IsScene
<1>6. IsScene(read) /\ WithinRanges(read)
  BY <1>2, <1>3, <1>4, <1>5 DEF IsScene, WithinRanges
<1> QED BY <1>6 DEF read

\* Registering keeps them in order and within what the release may have.
LEMMA SortedAscends ==
    ASSUME NEW ms \in Seq(Nat), NEW r \in Nat, \A i \in DOMAIN ms : ms[i] \in 1 .. r - 1,
           NEW n \in 1 .. r - 1, NEW s \in Sorted(Append(ms, n))
    PROVE  Ascending(s) /\ \A i \in DOMAIN s : s[i] \in 1 .. r - 1
<1> DEFINE more == Append(ms, n)
           S == ToSet(more)
           D == 1 .. Cardinality(S)
<1>1. \A i \in DOMAIN more : more[i] \in 1 .. r - 1
  OBVIOUS
<1>2. S \in SUBSET (1 .. r - 1)
  <2> HIDE DEF more
  <2> QED BY <1>1 DEF ToSet
<1>3. Cardinality(S) \in Nat
  <2> HIDE DEF S
  <2>1. IsFiniteSet(1 .. r - 1)
    BY FS_Interval
  <2>2. IsFiniteSet(S)
    BY <1>2, <2>1, FS_Subset
  <2> QED BY <2>2, FS_CardinalityType
<1>4. /\ s \in [D -> S] /\ \A i, j \in D : i # j => s[i] # s[j]
      /\ \A i \in 1 .. Len(s) - 1 : s[i] <= s[i + 1]
  BY DEF Sorted, SetToSeqs
<1>5. PICK m \in Nat : m = Cardinality(S)
  BY <1>3
<1>6. s \in [1 .. m -> 1 .. r - 1] /\ \A i, j \in 1 .. m : i # j => s[i] # s[j]
  <2> HIDE DEF S
  <2> QED BY <1>2, <1>4, <1>5
<1>7. s \in Seq(Nat) /\ DOMAIN s = 1 .. m
  BY <1>6
<1> QED BY <1>4, <1>6, <1>7 DEF Ascending

\* The file is of the scene last saved whole, unless a save was cut short since.
FileIsOf(s) == IsScene(s) /\ (file = Torn \/ file = SerializeAll(s, file.version))

\* A game keeps its migrations in order and has them all when it loads, and until
\* then it has its defaults; the file is whole unless it is missing or was cut
\* short, and what it was written of is remembered.
SceneInv ==
    /\ game = [release |-> game.release, at |-> game.at, migrations |-> game.migrations]
    /\ game.release \in Nat /\ (game.at # "stopped" => game.release >= 1)
    /\ Ascending(game.migrations)
    /\ \A i \in DOMAIN game.migrations : game.migrations[i] \in 1 .. game.release - 1
    /\ file \in {Missing, Torn} \/ (Whole(file) /\ Numbers(file.root))
    /\ IsScene(scene)
    /\ game.at \in {"stopped", "registering"} => scene = DefaultScene
    /\ file = Missing => written = {}
    /\ \A s \in written : FileIsOf(s)
    /\ ScenesReturn

LEMMA SceneInvInit == SceneInit => SceneInv
<1> SUFFICES ASSUME SceneInit PROVE SceneInv
  OBVIOUS
<1>1. game = Stopped /\ game.at = "stopped" /\ game.release = 0 /\ game.migrations = <<>>
  BY DEF SceneInit, Stopped
<1>2. Ascending(<<>>)
  BY DEF Ascending
<1>3. file \in {Missing, Torn} \/ (Whole(file) /\ Numbers(file.root))
  BY SceneAssumption DEF SceneInit, Whole, Numbers
<1>4. ScenesReturn
  BY <1>1 DEF SceneInit, ScenesReturn
<1>5. game = [release |-> game.release, at |-> game.at, migrations |-> game.migrations]
  BY <1>1 DEF Stopped
<1>6. scene = DefaultScene /\ IsScene(scene) /\ written = {}
  BY DefaultIsScene DEF SceneInit
<1> QED BY <1>1, <1>2, <1>3, <1>4, <1>5, <1>6 DEF SceneInv

LEMMA SceneInvNext == SceneInv /\ [SceneNext]_sceneVars => SceneInv'
<1> SUFFICES ASSUME SceneInv, [SceneNext]_sceneVars PROVE SceneInv'
  OBVIOUS
<1> USE DEF SceneInv
<1>1. ASSUME NEW r \in Release, Launch(r) PROVE SceneInv'
  <2>1. r \in Nat /\ r >= 1
    BY SceneAssumption
  <2>2. /\ game' = [release |-> r, at |-> "registering", migrations |-> <<>>]
        /\ game.at = "stopped" /\ UNCHANGED <<scene, file, backups, written>>
    BY <1>1 DEF Launch
  <2>3. Ascending(<<>>)
    BY DEF Ascending
  <2>4. ScenesReturn'
    BY <2>2 DEF ScenesReturn
  <2> QED BY <2>1, <2>2, <2>3, <2>4 DEF Whole, FileIsOf
<1>2. ASSUME NEW r \in Release, RegisterMigration(r) PROVE SceneInv'
  <2>1. PICK s \in Sorted(Append(game.migrations, r)) : game' = [game EXCEPT !.migrations = s]
    BY <1>2 DEF RegisterMigration
  <2>2. /\ game.at = "registering" /\ r \in 1 .. game.release - 1
        /\ UNCHANGED <<scene, file, backups, written>>
    BY <1>2 DEF RegisterMigration
  <2>3. Ascending(s) /\ \A i \in DOMAIN s : s[i] \in 1 .. game.release - 1
    BY <2>1, <2>2, SortedAscends DEF Ascending
  <2>4. game' = [release |-> game.release, at |-> "registering", migrations |-> s]
    BY <2>1, <2>2
  <2>5. ScenesReturn'
    BY <2>2, <2>4 DEF ScenesReturn
  <2> QED BY <2>2, <2>3, <2>4, <2>5 DEF Whole, FileIsOf
<1>3. ASSUME LoadScene PROVE SceneInv'
  <2>1. /\ game.at = "registering" /\ Len(game.migrations) = game.release - 1
        /\ game' = [game EXCEPT !.at = "loaded"] /\ file' = file /\ written' = written
    BY <1>3 DEF LoadScene
  <2>2. /\ game' = [release |-> game.release, at |-> "loaded", migrations |-> game.migrations]
        /\ game'.release = game.release /\ game'.at = "loaded"
    BY <2>1
  <2>3. ScenesReturn' /\ IsScene(scene')
    <3>1. CASE file \in {Missing, Torn}
      <4>1. scene' = DefaultScene /\ backups' = backups /\ WithinRanges(scene')
        BY <1>3, <2>1, <3>1, DefaultIsScene DEF LoadScene
      <4>2. file # Torn => written = {}
        BY <3>1
      <4>3. \A b \in backups' : b.format = b.version
        BY <4>1 DEF ScenesReturn
      <4> QED BY <2>1, <2>2, <3>1, <4>1, <4>2, <4>3 DEF ScenesReturn, WithinRanges
    <3>2. CASE file \notin {Missing, Torn}
      <4> DEFINE pass == Migrate(file, game.migrations)
                 kept == DeserializeAll(file.root, DefaultScene)
      <4>1. Whole(file) /\ Numbers(file.root) /\ Len(game.migrations) \in Nat
        BY <3>2 DEF Ascending
      <4>2. \A i \in 1 .. Len(game.migrations) : game.migrations[i] = i
        BY <2>1, AllInPlace
      <4>3. /\ pass.doc.root = file.root /\ pass.doc.format >= game.release
            /\ \A b \in pass.saved : b.format = b.version
        <5>1. /\ pass.doc.root = file.root /\ pass.doc.format >= Len(game.migrations) + 1
              /\ \A b \in pass.saved : b.format = b.version
          BY <4>1, <4>2, PassMigrates
        <5> HIDE DEF pass
        <5> QED BY <2>1, <5>1
      <4>4. /\ scene' = DeserializeAll(ValidateRanges(pass.doc.root), DefaultScene)
            /\ backups' = {b \in backups : b.version \notin {d.version : d \in pass.saved}}
                             \cup pass.saved
        BY <1>3, <3>2 DEF LoadScene
      <4>5. Migrate(file, game.migrations)' = pass
        BY <2>1, <2>2
      <4> HIDE DEF pass
      <4>6. /\ scene' = [kept EXCEPT !.postprocess =
                            [f \in DOMAIN Ranged |-> Clamp(f, kept.postprocess[f])]]
            /\ IsScene(scene') /\ WithinRanges(scene')
        BY <4>1, <4>3, <4>4, RangesHold, LoadedIsScene
      <4>7. \A b \in backups' : b.format = b.version
        BY <4>3, <4>4 DEF ScenesReturn
      <4>8. ASSUME NEW s \in written PROVE kept = s
        <5>1. IsScene(s) /\ file = SerializeAll(s, file.version)
          BY <3>2 DEF FileIsOf
        <5> QED BY <5>1, SceneComesBack
      <4> HIDE DEF kept
      <4> QED BY <2>1, <2>2, <4>3, <4>5, <4>6, <4>7, <4>8 DEF ScenesReturn, WithinRanges
    <3> QED BY <3>1, <3>2
  <2> QED BY <2>1, <2>2, <2>3 DEF Whole, FileIsOf
<1>4. ASSUME Change PROVE SceneInv'
  <2>1. /\ game.at \in {"loaded", "playing"} /\ game' = [game EXCEPT !.at = "playing"]
        /\ file' = file /\ backups' = backups /\ written' = written
    BY <1>4 DEF Change
  <2>2. game' = [release |-> game.release, at |-> "playing", migrations |-> game.migrations]
    BY <2>1
  <2>3. ScenesReturn'
    BY <2>1, <2>2 DEF ScenesReturn
  <2>4. IsScene(scene')
    <3>1. Value \subseteq Int
      BY SceneAssumption
    <3>2. CASE \E f \in DOMAIN Ranged, x \in Value : scene' = [scene EXCEPT !.postprocess[f] = x]
      BY <3>1, <3>2 DEF IsScene
    <3>3. CASE \E f \in DOMAIN Anchor, x \in Value : scene' = [scene EXCEPT !.anchor[f] = x]
      BY <3>3 DEF IsScene
    <3>4. CASE \E p \in Weather, x \in Value \cup {Off} : scene' = [scene EXCEPT !.weather.value[p] = x]
      <4>1. PICK p \in Weather, x \in Value \cup {Off} : scene' = [scene EXCEPT !.weather.value[p] = x]
        BY <3>4
      <4> DEFINE value == [q \in Weather |-> IF q = p THEN x ELSE scene.weather.value[q]]
      <4>2. [scene.weather.value EXCEPT ![p] = x] = value
        BY <4>1 DEF IsScene, IsOverride
      <4>3. /\ scene' = [scene EXCEPT !.weather = scene'.weather]
            /\ scene'.weather = [time |-> scene.weather.time, value |-> value]
        BY <4>1, <4>2 DEF IsScene, IsOverride
      <4>4. IsOverride(scene'.weather, Weather)
        BY <4>3 DEF IsOverride
      <4> HIDE DEF value
      <4> QED BY <4>3, <4>4 DEF IsScene
    <3>5. CASE \E p \in Biome, x \in Value \cup {Off} : scene' = [scene EXCEPT !.biome.value[p] = x]
      <4>1. PICK p \in Biome, x \in Value \cup {Off} : scene' = [scene EXCEPT !.biome.value[p] = x]
        BY <3>5
      <4> DEFINE value == [q \in Biome |-> IF q = p THEN x ELSE scene.biome.value[q]]
      <4>2. [scene.biome.value EXCEPT ![p] = x] = value
        BY <4>1 DEF IsScene, IsOverride
      <4>3. /\ scene' = [scene EXCEPT !.biome = scene'.biome]
            /\ scene'.biome = [time |-> scene.biome.time, value |-> value]
        BY <4>1, <4>2 DEF IsScene, IsOverride
      <4>4. IsOverride(scene'.biome, Biome)
        BY <4>3 DEF IsOverride
      <4> HIDE DEF value
      <4> QED BY <4>3, <4>4 DEF IsScene
    <3>6. CASE \E x \in Value : \/ scene' = [scene EXCEPT !.weather.time = x]
                                \/ scene' = [scene EXCEPT !.biome.time = x]
      BY <3>6 DEF IsScene, IsOverride
    <3> QED BY <1>4, <3>2, <3>3, <3>4, <3>5, <3>6 DEF Change
  <2> QED BY <2>1, <2>2, <2>3, <2>4 DEF Whole, FileIsOf
<1>5. ASSUME OpenForSave PROVE SceneInv'
  <2>1. /\ game.at # "stopped" /\ game' = [game EXCEPT !.at = "saving"]
        /\ file' = Torn /\ UNCHANGED <<scene, backups, written>>
    BY <1>5 DEF OpenForSave
  <2>2. game' = [release |-> game.release, at |-> "saving", migrations |-> game.migrations]
    BY <2>1
  <2>3. ScenesReturn'
    BY <2>1, <2>2 DEF ScenesReturn
  <2>4. Torn # Missing
    BY DEF Torn, Missing
  <2> QED BY <2>1, <2>2, <2>3, <2>4 DEF FileIsOf
<1>6. ASSUME WriteScene PROVE SceneInv'
  <2>1. /\ game.at = "saving" /\ game' = [game EXCEPT !.at = "playing"]
        /\ file' = SerializeAll(scene, game.release) /\ written' = {scene}
        /\ UNCHANGED <<scene, backups>>
    BY <1>6 DEF WriteScene
  <2>2. game' = [release |-> game.release, at |-> "playing", migrations |-> game.migrations]
    BY <2>1
  <2>3. ScenesReturn'
    BY <2>1, <2>2 DEF ScenesReturn
  <2>4. game.release \in Nat \ {0}
    BY <2>1
  <2>5. /\ file' = [version |-> game.release, format |-> game.release, root |-> file'.root]
        /\ DOMAIN file'.root = {"postprocess", "anchor", "weather", "biome"}
        /\ file'.root.postprocess = scene.postprocess
    BY <2>1 DEF SerializeAll
  <2>6. (Whole(file))' /\ (Numbers(file.root))'
    <3>1. \A f \in DOMAIN scene.postprocess : scene.postprocess[f] \in Int
      BY DEF IsScene
    <3> QED BY <2>4, <2>5, <3>1 DEF Whole, Numbers
  <2>7. file' # Missing
    BY <2>4, <2>5 DEF Missing
  <2>8. FileIsOf(scene)'
    BY <2>1, <2>5 DEF FileIsOf
  <2> QED BY <2>1, <2>2, <2>3, <2>6, <2>7, <2>8
<1>7. ASSUME WriteFails PROVE SceneInv'
  <2>1. /\ game.at = "saving" /\ game' = [game EXCEPT !.at = "playing"]
        /\ UNCHANGED <<scene, file, backups, written>>
    BY <1>7 DEF WriteFails
  <2>2. game' = [release |-> game.release, at |-> "playing", migrations |-> game.migrations]
    BY <2>1
  <2>3. ScenesReturn'
    BY <2>1, <2>2 DEF ScenesReturn
  <2> QED BY <2>1, <2>2, <2>3 DEF Whole, FileIsOf
<1>8. ASSUME Stop PROVE SceneInv'
  <2>1. game' = Stopped /\ scene' = DefaultScene /\ UNCHANGED <<file, backups, written>>
    BY <1>8 DEF Stop
  <2>2. Ascending(<<>>)
    BY DEF Ascending
  <2>3. ScenesReturn'
    BY <2>1 DEF ScenesReturn, Stopped
  <2> QED BY <2>1, <2>2, <2>3, DefaultIsScene DEF Stopped, Whole, FileIsOf
<1>9. CASE UNCHANGED sceneVars
  BY <1>9 DEF sceneVars, ScenesReturn, Whole, FileIsOf
<1> QED BY <1>1, <1>2, <1>3, <1>4, <1>5, <1>6, <1>7, <1>8, <1>9 DEF SceneNext

\* A game starts with the scene that was last saved whole, its post-process values
\* brought within the ranges; any file leaves them within the ranges and is migrated in
\* order to the game's release, and every backup holds what its name says, for any
\* number of releases, groups and fields (serializeAll, saveToFile, loadFromFile,
\* deserializeAll, migrateAndValidate).
THEOREM ScenesComeBack == SceneSpec => []ScenesReturn
<1>1. SceneInv => ScenesReturn
  BY DEF SceneInv
<1> QED BY SceneInvInit, SceneInvNext, <1>1, PTL DEF SceneSpec

-----------------------------------------------------------------------------
(* Lists of commands *)

\* A run of a list passes through a state after each command.
RunsThrough(a, s, work) ==
    /\ a[0] = s
    /\ \A n \in 1 .. Len(work) : a[n] = RunOne(a[n - 1], work[n])

\* There is such a run.
LEMMA RunsAre ==
    ASSUME NEW s, NEW work, Len(work) \in Nat
    PROVE  \E a : RunsThrough(a, s, work) /\ After(s, work) = a[Len(work)]
<1> DEFINE Is(f, m) == f = [n \in 0 .. m |-> IF n = 0 THEN s ELSE RunOne(f[n - 1], work[n])]
           missing == {m \in Nat : ~\E f : Is(f, m)}
<1>1. missing = {}
  <2> SUFFICES ASSUME missing # {} PROVE FALSE
    OBVIOUS
  <2>1. PICK m \in missing : \A k \in missing : m <= k
    BY LeastOf
  <2>2. m \in Nat /\ ~\E f : Is(f, m)
    BY <2>1
  <2>3. m # 0
    <3> SUFFICES ASSUME m = 0 PROVE FALSE
      OBVIOUS
    <3> DEFINE f == [n \in 0 .. 0 |-> s]
    <3>1. Is(f, 0)
      OBVIOUS
    <3> HIDE DEF f, Is
    <3> QED BY <2>2, <3>1
  <2>4. m - 1 \in Nat /\ m - 1 \notin missing
    <3> HIDE DEF missing
    <3> QED BY <2>1, <2>2, <2>3
  <2>5. PICK g : Is(g, m - 1)
    BY <2>4
  <2>6. \A n \in 0 .. m - 1 : g[n] = IF n = 0 THEN s ELSE RunOne(g[n - 1], work[n])
    BY <2>5
  <2> DEFINE f == [n \in 0 .. m |-> IF n = m THEN RunOne(g[m - 1], work[m]) ELSE g[n]]
  <2>7. /\ \A n \in 0 .. m - 1 : f[n] = g[n]
        /\ f[m] = RunOne(g[m - 1], work[m])
        /\ f = [n \in 0 .. m |-> f[n]]
    BY <2>2
  <2> HIDE DEF f
  <2>8. ASSUME NEW n \in 0 .. m
        PROVE  f[n] = IF n = 0 THEN s ELSE RunOne(f[n - 1], work[n])
    <3>1. CASE n = m
      <4>1. m - 1 \in 0 .. m - 1 /\ n # 0
        BY <2>2, <2>3, <3>1
      <4> QED BY <2>7, <3>1, <4>1
    <3>2. CASE n # m
      <4>1. n \in 0 .. m - 1 /\ (n # 0 => n - 1 \in 0 .. m - 1)
        BY <2>2, <3>2
      <4>2. CASE n = 0
        BY <2>6, <2>7, <4>1, <4>2
      <4>3. CASE n # 0
        BY <2>6, <2>7, <4>1, <4>3
      <4> QED BY <4>2, <4>3
    <3> QED BY <3>1, <3>2
  <2>9. Is(f, m)
    BY <2>7, <2>8
  <2> QED BY <2>2, <2>9
<1>2. PICK f : Is(f, Len(work))
  BY <1>1
<1>3. PICK a : a = CHOOSE g : Is(g, Len(work))
  OBVIOUS
<1>4. After(s, work) = a[Len(work)]
  BY <1>3 DEF After
<1>5. Is(a, Len(work))
  BY <1>2, <1>3
<1>6. RunsThrough(a, s, work)
  BY <1>5 DEF RunsThrough
<1> QED BY <1>4, <1>6

\* And no other.
LEMMA RunIsOne ==
    ASSUME NEW s, NEW work, Len(work) \in Nat, NEW a, RunsThrough(a, s, work)
    PROVE  After(s, work) = a[Len(work)]
<1>1. PICK b : RunsThrough(b, s, work) /\ After(s, work) = b[Len(work)]
  BY RunsAre
<1> DEFINE differ == {n \in 0 .. Len(work) : a[n] # b[n]}
<1>2. differ = {}
  <2> SUFFICES ASSUME differ # {} PROVE FALSE
    OBVIOUS
  <2> differ \in SUBSET Nat
    OBVIOUS
  <2>1. PICK m \in differ : \A k \in differ : m <= k
    <3> HIDE DEF differ
    <3> QED BY LeastOf
  <2>2. m # 0 /\ m \in 1 .. Len(work)
    BY <1>1, <2>1 DEF RunsThrough
  <2>3. m - 1 \in 0 .. Len(work) /\ m - 1 \notin differ
    <3>1. m - 1 \in 0 .. Len(work) /\ ~(m <= m - 1)
      BY <2>2
    <3> HIDE DEF differ
    <3> QED BY <2>1, <3>1
  <2>4. a[m - 1] = b[m - 1]
    BY <2>3
  <2> QED BY <1>1, <2>1, <2>2, <2>4 DEF RunsThrough
<1> QED BY <1>1, <1>2

\* A list of commands.
List(work) == \E S : work \in Seq(S)

\* Short lists, command by command.
LEMMA AfterNone ==
    ASSUME NEW s
    PROVE  After(s, <<>>) = s /\ List(<<>>)
<1>1. PICK a : RunsThrough(a, s, <<>>) /\ After(s, <<>>) = a[0]
  BY RunsAre
<1>2. <<>> \in Seq({})
  OBVIOUS
<1> QED BY <1>1, <1>2 DEF RunsThrough, List

LEMMA AfterOne ==
    ASSUME NEW s, NEW c
    PROVE  After(s, <<c>>) = RunOne(s, c) /\ List(<<c>>)
<1>1. PICK work : work = <<c>>
  OBVIOUS
<1>2. Len(work) = 1 /\ 1 \in Nat /\ work[1] = c
  BY <1>1
<1>3. PICK a : RunsThrough(a, s, work) /\ After(s, work) = a[1]
  BY <1>2, RunsAre
<1>4. a[0] = s /\ a[1] = RunOne(a[0], c)
  BY <1>2, <1>3 DEF RunsThrough
<1>5. <<c>> \in Seq({c})
  OBVIOUS
<1>6. After(s, work) = RunOne(s, c) /\ List(work)
  BY <1>1, <1>3, <1>4, <1>5 DEF List
<1> QED BY <1>1, <1>6

LEMMA AfterTwo ==
    ASSUME NEW s, NEW c, NEW d
    PROVE  After(s, <<c, d>>) = RunOne(RunOne(s, c), d) /\ List(<<c, d>>)
<1>1. PICK work : work = <<c, d>>
  OBVIOUS
<1>2. Len(work) = 2 /\ 2 \in Nat /\ work[1] = c /\ work[2] = d
  BY <1>1
<1>3. PICK a : RunsThrough(a, s, work) /\ After(s, work) = a[2]
  BY <1>2, RunsAre
<1>4. a[0] = s /\ a[1] = RunOne(a[0], c) /\ a[2] = RunOne(a[1], d)
  BY <1>2, <1>3 DEF RunsThrough
<1>5. <<c, d>> \in Seq({c, d})
  OBVIOUS
<1>6. After(s, work) = RunOne(RunOne(s, c), d) /\ List(work)
  BY <1>1, <1>3, <1>4, <1>5 DEF List
<1> QED BY <1>1, <1>6

LEMMA AfterThree ==
    ASSUME NEW s, NEW c, NEW d, NEW e
    PROVE  After(s, <<c, d, e>>) = RunOne(RunOne(RunOne(s, c), d), e) /\ List(<<c, d, e>>)
<1>1. PICK work : work = <<c, d, e>>
  OBVIOUS
<1>2. Len(work) = 3 /\ 3 \in Nat /\ work[1] = c /\ work[2] = d /\ work[3] = e
  BY <1>1
<1>3. PICK a : RunsThrough(a, s, work) /\ After(s, work) = a[3]
  BY <1>2, RunsAre
<1>4. a[0] = s /\ a[1] = RunOne(a[0], c) /\ a[2] = RunOne(a[1], d) /\ a[3] = RunOne(a[2], e)
  BY <1>2, <1>3 DEF RunsThrough
<1>5. <<c, d, e>> \in Seq({c, d, e})
  OBVIOUS
<1>6. After(s, work) = RunOne(RunOne(RunOne(s, c), d), e) /\ List(work)
  BY <1>1, <1>3, <1>4, <1>5 DEF List
<1> QED BY <1>1, <1>6

\* One list after another.
LEMMA AfterBoth ==
    ASSUME NEW s, NEW u, NEW v, List(u), List(v)
    PROVE  After(s, u \o v) = After(After(s, u), v) /\ List(u \o v)
<1>1. PICK S : u \in Seq(S)
  BY DEF List
<1>2. PICK T : v \in Seq(T)
  BY DEF List
<1>3. u \in Seq(S \cup T) /\ v \in Seq(S \cup T)
  BY <1>1, <1>2
<1>4. /\ u \o v \in Seq(S \cup T) /\ Len(u \o v) = Len(u) + Len(v)
      /\ \A i \in 1 .. Len(u) + Len(v) :
            (u \o v)[i] = IF i <= Len(u) THEN u[i] ELSE v[i - Len(u)]
  BY <1>3, ConcatProperties
<1>5. Len(u) \in Nat /\ Len(v) \in Nat
  BY <1>3
<1>6. PICK a : RunsThrough(a, s, u) /\ After(s, u) = a[Len(u)]
  BY <1>5, RunsAre
<1>7. PICK b : RunsThrough(b, a[Len(u)], v) /\ After(a[Len(u)], v) = b[Len(v)]
  BY <1>5, RunsAre
<1> DEFINE f == [n \in 0 .. Len(u) + Len(v) |-> IF n <= Len(u) THEN a[n] ELSE b[n - Len(u)]]
<1>8. f[0] = s
  BY <1>5, <1>6 DEF RunsThrough
<1>9. ASSUME NEW n \in 1 .. Len(u) + Len(v) PROVE f[n] = RunOne(f[n - 1], (u \o v)[n])
  <2>1. CASE n <= Len(u)
    <3>1. n \in 1 .. Len(u) /\ n - 1 <= Len(u) /\ n - 1 \in 0 .. Len(u) + Len(v)
      BY <1>5, <2>1
    <3>2. f[n] = a[n] /\ f[n - 1] = a[n - 1] /\ (u \o v)[n] = u[n]
      BY <1>4, <1>5, <2>1, <3>1
    <3> QED BY <1>6, <3>1, <3>2 DEF RunsThrough
  <2>2. CASE n > Len(u)
    <3>1. /\ n - Len(u) \in 1 .. Len(v) /\ n - 1 \in 0 .. Len(u) + Len(v)
          /\ (n - 1) - Len(u) = (n - Len(u)) - 1 /\ ~(n <= Len(u))
      BY <1>5, <2>2
    <3>2. f[n] = b[n - Len(u)] /\ (u \o v)[n] = v[n - Len(u)]
      BY <1>4, <3>1
    <3>3. f[n - 1] = b[(n - Len(u)) - 1]
      <4>1. CASE n - 1 <= Len(u)
        <5>1. n - 1 = Len(u) /\ (n - Len(u)) - 1 = 0
          BY <1>5, <2>2, <4>1
        <5>2. f[n - 1] = a[Len(u)]
          BY <3>1, <5>1
        <5> QED BY <1>7, <5>1, <5>2 DEF RunsThrough
      <4>2. CASE ~(n - 1 <= Len(u))
        BY <3>1, <4>2
      <4> QED BY <4>1, <4>2
    <3> HIDE DEF f
    <3> QED BY <1>7, <3>1, <3>2, <3>3 DEF RunsThrough
  <2> QED BY <1>5, <2>1, <2>2
<1>10. f[Len(u) + Len(v)] = b[Len(v)]
  <2>1. CASE Len(v) = 0
    BY <1>5, <1>7, <2>1 DEF RunsThrough
  <2>2. CASE Len(v) # 0
    BY <1>5, <2>2
  <2> QED BY <2>1, <2>2
<1> HIDE DEF f
<1>11. RunsThrough(f, s, u \o v)
  BY <1>4, <1>8, <1>9 DEF RunsThrough
<1>12. After(s, u \o v) = f[Len(u) + Len(v)]
  <2>1. PICK w : w = u \o v
    OBVIOUS
  <2>2. Len(w) \in Nat /\ Len(w) = Len(u) + Len(v) /\ RunsThrough(f, s, w)
    BY <1>4, <1>5, <1>11, <2>1
  <2>3. After(s, w) = f[Len(w)]
    BY <2>2, RunIsOne
  <2> QED BY <2>1, <2>2, <2>3
<1>13. List(u \o v)
  BY <1>4 DEF List
<1> QED BY <1>6, <1>7, <1>10, <1>12, <1>13

\* Nothing but the images of S changed, and no rule was broken.
OnlyOn(s, t, S) ==
    /\ DOMAIN t.images = DOMAIN s.images /\ t.broken = s.broken
    /\ \A i \in DOMAIN s.images \ S : t.images[i] = s.images[i]

IsImage(x) == x = [layout |-> x.layout, shows |-> x.shows, copyable |-> x.copyable]

\* A barrier from the layout an image is in.
LEMMA BarrierRuns ==
    ASSUME NEW s, NEW i \in DOMAIN s.images, IsImage(s.images[i]),
           NEW from, NEW to, from \in {s.images[i].layout, "undefined"},
           NEW t, t = RunOne(s, Barrier(i, from, to))
    PROVE  /\ OnlyOn(s, t, {i}) /\ t.staged = s.staged
           /\ t.images[i] = [layout |-> to, copyable |-> s.images[i].copyable,
                             shows |-> IF from = "undefined" THEN Garbage ELSE s.images[i].shows]
<1> DEFINE c == Barrier(i, from, to)
<1>1. /\ c.op = "barrier" /\ c.on = {i} /\ c.reads = {} /\ c.from = from /\ c.to = to
  BY DEF Barrier
<1> HIDE DEF c
<1>2. Broken(s.images, c) = {}
  BY <1>1 DEF Broken, Into
<1>3. Painted(s.images, c, i) =
        [layout |-> to, copyable |-> s.images[i].copyable,
         shows |-> IF from = "undefined" THEN Garbage ELSE s.images[i].shows]
  <2>1. PICK x : x = s.images[i]
    OBVIOUS
  <2>2. x = [layout |-> x.layout, shows |-> x.shows, copyable |-> x.copyable]
    BY <2>1 DEF IsImage
  <2>3. Painted(s.images, c, i) =
           [x EXCEPT !.layout = to, !.shows = IF from = "undefined" THEN Garbage ELSE x.shows]
    BY <1>1, <2>1 DEF Painted
  <2> QED BY <2>1, <2>2, <2>3
<1>4. t = RunOne(s, c)
  BY DEF c
<1>5. t.broken = s.broken /\ t.staged = s.staged
  BY <1>1, <1>2, <1>4 DEF RunOne
<1>6. /\ DOMAIN t.images = DOMAIN s.images /\ t.images[i] = Painted(s.images, c, i)
      /\ \A j \in DOMAIN s.images \ {i} : t.images[j] = s.images[j]
  BY <1>1, <1>4 DEF RunOne
<1> QED BY <1>3, <1>5, <1>6 DEF OnlyOn

\* A pass may be run: its attachments and what it reads are in their layouts.
MayPass(s, S, R) ==
    /\ S \subseteq DOMAIN s.images /\ R \subseteq DOMAIN s.images
    /\ \A i \in S : IsImage(s.images[i]) /\ s.images[i].layout \in {"color", "depth"}
    /\ \A i \in R : s.images[i].layout = "sampled"

\* What an attachment is after it.
Attached(s, i, load, R, paints) ==
    [layout |-> s.images[i].layout, copyable |-> s.images[i].copyable,
     shows |-> paints \cup Seen(s.images, R) \cup
               (IF load = "load" THEN s.images[i].shows ELSE {})]

LEMMA PassRuns ==
    ASSUME NEW s, NEW S, NEW load, NEW R, NEW paints, MayPass(s, S, R),
           NEW t, t = RunOne(s, Pass(S, load, R, paints))
    PROVE  /\ OnlyOn(s, t, S) /\ t.staged = s.staged
           /\ \A i \in S : t.images[i] = Attached(s, i, load, R, paints)
<1> DEFINE c == Pass(S, load, R, paints)
<1>1. /\ c.op = "pass" /\ c.on = S /\ c.reads = R /\ c.load = load /\ c.paints = paints
  BY DEF Pass
<1> HIDE DEF c
<1>2. Broken(s.images, c) = {}
  BY <1>1 DEF Broken, Into, ReadLayout, MayPass
<1>3. ASSUME NEW i \in S PROVE Painted(s.images, c, i) = Attached(s, i, load, R, paints)
  <2>1. PICK x : x = s.images[i]
    OBVIOUS
  <2>2. x = [layout |-> x.layout, shows |-> x.shows, copyable |-> x.copyable]
    BY <1>3, <2>1 DEF IsImage, MayPass
  <2>3. Painted(s.images, c, i) =
           [x EXCEPT !.shows = c.paints \cup Seen(s.images, c.reads) \cup
                               (IF c.load = "load" THEN @ ELSE {})]
    BY <1>1, <2>1 DEF Painted
  <2> QED BY <1>1, <2>1, <2>2, <2>3 DEF Attached
<1>4. t = RunOne(s, c)
  BY DEF c
<1>5. t.broken = s.broken /\ t.staged = s.staged
  BY <1>1, <1>2, <1>4 DEF RunOne
<1>6. /\ DOMAIN t.images = DOMAIN s.images /\ \A i \in S : t.images[i] = Painted(s.images, c, i)
      /\ \A j \in DOMAIN s.images \ S : t.images[j] = s.images[j]
  BY <1>1, <1>4 DEF RunOne, MayPass
<1> QED BY <1>3, <1>5, <1>6 DEF OnlyOn

\* Lists one after the other.
LEMMA FlattenIs ==
    ASSUME NEW seqs, Len(seqs) \in Nat \ {0}
    PROVE  \E fl : /\ FlattenSeq(seqs) = fl[Len(seqs)] /\ fl[1] = seqs[1]
                   /\ \A n \in 2 .. Len(seqs) : fl[n] = fl[n - 1] \o seqs[n]
<1> DEFINE Is(f, m) == f = [n \in 1 .. m |-> IF n = 1 THEN seqs[n] ELSE f[n - 1] \o seqs[n]]
           missing == {m \in Nat : ~\E f : Is(f, m + 1)}
<1>1. missing = {}
  <2> SUFFICES ASSUME missing # {} PROVE FALSE
    OBVIOUS
  <2>1. PICK m \in missing : \A k \in missing : m <= k
    BY LeastOf
  <2>2. m \in Nat /\ ~\E f : Is(f, m + 1)
    BY <2>1
  <2>3. m # 0
    <3> SUFFICES ASSUME m = 0 PROVE FALSE
      OBVIOUS
    <3> DEFINE f == [n \in 1 .. 1 |-> seqs[1]]
    <3>1. Is(f, 1)
      OBVIOUS
    <3>2. m + 1 = 1
      OBVIOUS
    <3> HIDE DEF f, Is
    <3> QED BY <2>2, <3>1, <3>2
  <2>4. m - 1 \in Nat /\ m - 1 \notin missing /\ (m - 1) + 1 = m
    <3> HIDE DEF missing
    <3> QED BY <2>1, <2>2, <2>3
  <2>5. PICK g : Is(g, m)
    BY <2>4
  <2>6. \A n \in 1 .. m : g[n] = IF n = 1 THEN seqs[n] ELSE g[n - 1] \o seqs[n]
    BY <2>5
  <2> DEFINE f == [n \in 1 .. m + 1 |-> IF n = m + 1 THEN g[m] \o seqs[m + 1] ELSE g[n]]
  <2>7. /\ \A n \in 1 .. m : f[n] = g[n]
        /\ f[m + 1] = g[m] \o seqs[m + 1]
        /\ f = [n \in 1 .. m + 1 |-> f[n]]
    <3> DEFINE last == g[m] \o seqs[m + 1]
    <3> HIDE DEF last
    <3>1. f = [n \in 1 .. m + 1 |-> IF n = m + 1 THEN last ELSE g[n]]
      BY DEF last
    <3> HIDE DEF f
    <3>2. \A n \in 1 .. m : f[n] = g[n]
      BY <2>2, <3>1
    <3>3. f[m + 1] = last
      BY <2>2, <3>1
    <3>4. f = [n \in 1 .. m + 1 |-> f[n]]
      BY <3>1
    <3> QED BY <3>2, <3>3, <3>4 DEF last
  <2> HIDE DEF f
  <2>8. ASSUME NEW n \in 1 .. m + 1
        PROVE  f[n] = IF n = 1 THEN seqs[n] ELSE f[n - 1] \o seqs[n]
    <3>1. CASE n = m + 1
      <4>1. m \in 1 .. m /\ n # 1 /\ n - 1 = m
        BY <2>2, <2>3, <3>1
      <4> QED BY <2>7, <3>1, <4>1
    <3>2. CASE n # m + 1
      <4>1. n \in 1 .. m /\ (n # 1 => n - 1 \in 1 .. m)
        BY <2>2, <3>2
      <4>2. CASE n = 1
        BY <2>6, <2>7, <4>1, <4>2
      <4>3. CASE n # 1
        BY <2>6, <2>7, <4>1, <4>3
      <4> QED BY <4>2, <4>3
    <3> QED BY <3>1, <3>2
  <2>9. Is(f, m + 1)
    BY <2>7, <2>8
  <2> QED BY <2>2, <2>9
<1>2. PICK f : Is(f, Len(seqs))
  <2>1. Len(seqs) - 1 \in Nat /\ (Len(seqs) - 1) + 1 = Len(seqs)
    OBVIOUS
  <2>2. \E f : Is(f, (Len(seqs) - 1) + 1)
    BY <1>1, <2>1
  <2> HIDE DEF Is
  <2> QED BY <2>1, <2>2
<1>3. PICK fl : fl = CHOOSE g : Is(g, Len(seqs))
  OBVIOUS
<1>4. FlattenSeq(seqs) = fl[Len(seqs)]
  BY <1>3 DEF FlattenSeq
<1>5. Is(fl, Len(seqs))
  BY <1>2, <1>3
<1>6. \A n \in 1 .. Len(seqs) : fl[n] = IF n = 1 THEN seqs[n] ELSE fl[n - 1] \o seqs[n]
  BY <1>5
<1>7. fl[1] = seqs[1]
  <2>1. 1 \in 1 .. Len(seqs)
    OBVIOUS
  <2>2. fl[1] = IF 1 = 1 THEN seqs[1] ELSE fl[1 - 1] \o seqs[1]
    BY <1>6, <2>1
  <2> QED BY <2>2
<1>8. ASSUME NEW n \in 2 .. Len(seqs) PROVE fl[n] = fl[n - 1] \o seqs[n]
  <2>1. n \in 1 .. Len(seqs) /\ n # 1
    OBVIOUS
  <2> QED BY <1>6, <2>1
<1> QED BY <1>4, <1>7, <1>8

\* They run list by list.
LEMMA FlattenRuns ==
    ASSUME NEW T, NEW seqs \in Seq(T), \A n \in 1 .. Len(seqs) : List(seqs[n]), NEW s
    PROVE  /\ List(FlattenSeq(seqs))
           /\ \E b : /\ b[0] = s /\ After(s, FlattenSeq(seqs)) = b[Len(seqs)]
                     /\ \A n \in 1 .. Len(seqs) : b[n] = After(b[n - 1], seqs[n])
<1>0. Len(seqs) \in Nat
  OBVIOUS
<1>1. CASE Len(seqs) = 0
  <2>1. seqs = <<>>
    BY <1>1
  <2>2. FlattenSeq(seqs) = <<>>
    BY <1>1, <2>1 DEF FlattenSeq
  <2>3. After(s, <<>>) = s /\ List(<<>>)
    BY AfterNone
  <2> DEFINE b == [n \in {0} |-> s]
  <2>4. b[0] = s /\ \A n \in 1 .. Len(seqs) : FALSE
    BY <1>1
  <2> HIDE DEF b
  <2> QED BY <1>1, <2>2, <2>3, <2>4
<1>2. CASE Len(seqs) # 0
  <2>1. PICK fl : /\ FlattenSeq(seqs) = fl[Len(seqs)] /\ fl[1] = seqs[1]
                  /\ \A n \in 2 .. Len(seqs) : fl[n] = fl[n - 1] \o seqs[n]
    BY <1>0, <1>2, FlattenIs
  <2> DEFINE bad == {n \in 1 .. Len(seqs) : ~List(fl[n])}
  <2>2. bad = {}
    <3> SUFFICES ASSUME bad # {} PROVE FALSE
      OBVIOUS
    <3> bad \in SUBSET Nat
      OBVIOUS
    <3>1. PICK m \in bad : \A k \in bad : m <= k
      <4> HIDE DEF bad
      <4> QED BY LeastOf
    <3>2. m \in 2 .. Len(seqs)
      BY <1>0, <2>1, <3>1
    <3>3. m - 1 \in 1 .. Len(seqs) /\ m - 1 \notin bad
      <4>1. m - 1 \in 1 .. Len(seqs) /\ ~(m <= m - 1)
        BY <1>0, <3>2
      <4> HIDE DEF bad
      <4> QED BY <3>1, <4>1
    <3>4. List(fl[m - 1]) /\ List(seqs[m]) /\ fl[m] = fl[m - 1] \o seqs[m]
      BY <2>1, <3>1, <3>2, <3>3
    <3> QED BY <3>1, <3>4, AfterBoth
  <2> DEFINE b == [n \in 0 .. Len(seqs) |-> IF n = 0 THEN s ELSE After(s, fl[n])]
  <2>3. b[0] = s /\ \A n \in 1 .. Len(seqs) : b[n] = After(s, fl[n])
    BY <1>0
  <2> HIDE DEF b
  <2>4. ASSUME NEW n \in 1 .. Len(seqs) PROVE b[n] = After(b[n - 1], seqs[n])
    <3>1. CASE n = 1
      BY <2>1, <2>3, <3>1
    <3>2. CASE n # 1
      <4>1. n \in 2 .. Len(seqs) /\ n - 1 \in 1 .. Len(seqs)
        BY <1>0, <3>2
      <4>2. fl[n] = fl[n - 1] \o seqs[n] /\ List(fl[n - 1]) /\ List(seqs[n])
        BY <2>1, <2>2, <4>1
      <4>3. After(s, fl[n]) = After(After(s, fl[n - 1]), seqs[n])
        BY <4>2, AfterBoth
      <4> QED BY <2>3, <4>1, <4>3
    <3> QED BY <3>1, <3>2
  <2>5. Len(seqs) \in 1 .. Len(seqs)
    BY <1>0, <1>2
  <2>6. List(FlattenSeq(seqs)) /\ After(s, FlattenSeq(seqs)) = b[Len(seqs)]
    BY <2>1, <2>2, <2>3, <2>5
  <2> QED BY <2>3, <2>4, <2>6
<1> QED BY <1>1, <1>2

-----------------------------------------------------------------------------
(* Post-processing *)

PostSpec == PostInit /\ [][PostNext]_postVars

PostNames(n) == {Hdr(n), Bright(n), Blur(0, n), Blur(1, n), Upscaled, Display}
Sources(n) == {Hdr(n), Bright(n), Blur(0, n), Blur(1, n), Upscaled}

LEMMA NamesDiffer ==
    ASSUME NEW n
    PROVE  /\ Display \notin Sources(n) /\ PostNames(n) = Sources(n) \cup {Display}
           /\ Bright(n) \notin {Hdr(n), Blur(0, n), Blur(1, n), Upscaled}
           /\ Blur(0, n) \notin {Hdr(n), Blur(1, n), Upscaled}
           /\ Blur(1, n) \notin {Hdr(n), Upscaled} /\ Hdr(n) # Upscaled
<1>1. /\ Hdr(n)[1] = "hdr" /\ Bright(n)[1] = "bright" /\ Upscaled[1] = "upscaled"
      /\ Display[1] = "display" /\ \A k : Blur(k, n)[1] = "blur" /\ Blur(k, n)[2] = k
  BY DEF Hdr, Bright, Upscaled, Display, Blur
<1>2. /\ Display \notin {Hdr(n), Bright(n), Blur(0, n), Blur(1, n), Upscaled}
      /\ Bright(n) \notin {Hdr(n), Blur(0, n), Blur(1, n), Upscaled}
  BY <1>1
<1>3. /\ Blur(0, n) \notin {Hdr(n), Blur(1, n), Upscaled}
      /\ Blur(1, n) \notin {Hdr(n), Upscaled} /\ Hdr(n) # Upscaled
  BY <1>1
<1> QED BY <1>2, <1>3 DEF Sources, PostNames

\* Every image is there, and those that are read can be.
Readable(s, n) ==
    /\ DOMAIN s.images = PostNames(n) /\ \A i \in PostNames(n) : IsImage(s.images[i])
    /\ \A i \in Sources(n) : s.images[i].layout = "sampled"

\* An image is drawn anew out of others and can be read again.
Drawable(s, n, to, R) ==
    /\ Readable(s, n) /\ to \in Sources(n) /\ R \subseteq Sources(n) \ {to}

Shown(s, i, W) == s.images[i].shows = W
Mixed(s, R, paints) == paints \cup Seen(s.images, R)
Drawing(to, load, R, paints) ==
    << Barrier(to, "sampled", "color"), Pass({to}, load, R, paints),
       Barrier(to, "color", "sampled") >>

LEMMA PassDraws ==
    ASSUME NEW s, NEW n, NEW to, NEW R, Drawable(s, n, to, R),
           NEW load \in {"clear", "cover"}, NEW paints,
           NEW t, t = After(s, Drawing(to, load, R, paints))
    PROVE  /\ Readable(t, n) /\ OnlyOn(s, t, {to})
           /\ Shown(t, to, Mixed(s, R, paints))
           /\ List(Drawing(to, load, R, paints))
<1>1. PICK x, y, z, S : /\ x = Barrier(to, "sampled", "color") /\ y = Pass(S, load, R, paints)
                        /\ z = Barrier(to, "color", "sampled") /\ S = {to}
  OBVIOUS
<1>2. PICK a, b : /\ a = RunOne(s, x) /\ b = RunOne(a, y) /\ t = RunOne(b, z)
                  /\ List(Drawing(to, load, R, paints))
  BY <1>1, AfterThree DEF Drawing
<1>3. /\ to \in DOMAIN s.images /\ IsImage(s.images[to]) /\ s.images[to].layout = "sampled"
      /\ Sources(n) \subseteq PostNames(n) /\ DOMAIN s.images = PostNames(n)
      /\ \A i \in R : i \in Sources(n) /\ i # to /\ i \in DOMAIN s.images
      /\ \A i \in R : s.images[i].layout = "sampled"
  BY NamesDiffer DEF Readable, Drawable
<1>4. /\ OnlyOn(s, a, {to})
      /\ a.images[to] = [layout |-> "color", copyable |-> s.images[to].copyable,
                         shows |-> s.images[to].shows]
  <2>1. a = RunOne(s, Barrier(to, "sampled", "color"))
    BY <1>1, <1>2
  <2> QED BY <1>3, <2>1, BarrierRuns
<1>5. /\ DOMAIN a.images = PostNames(n) /\ a.broken = s.broken
      /\ \A i \in PostNames(n) \ {to} : a.images[i] = s.images[i]
  BY <1>3, <1>4 DEF OnlyOn
<1>6. MayPass(a, S, R)
  BY <1>1, <1>3, <1>4, <1>5 DEF IsImage, MayPass
<1>7. OnlyOn(a, b, S) /\ \A i \in S : b.images[i] = Attached(a, i, load, R, paints)
  BY <1>1, <1>2, <1>6, PassRuns
<1>8. Seen(a.images, R) = Seen(s.images, R)
  <2>1. R \cap DOMAIN a.images = R /\ R \cap DOMAIN s.images = R
    BY <1>3, <1>5
  <2>2. {a.images[i].shows : i \in R} = {s.images[i].shows : i \in R}
    BY <1>3, <1>5
  <2> QED BY <2>1, <2>2 DEF Seen
<1>9. /\ DOMAIN b.images = PostNames(n) /\ b.broken = s.broken
      /\ \A i \in PostNames(n) \ {to} : b.images[i] = s.images[i]
      /\ IsImage(b.images[to]) /\ b.images[to].layout = "color"
      /\ b.images[to].shows = paints \cup Seen(s.images, R)
  <2>1. (IF load = "load" THEN a.images[to].shows ELSE {}) = {}
    OBVIOUS
  <2>2. b.images[to] = Attached(a, to, load, R, paints)
    BY <1>1, <1>7
  <2>3. b.images[to] = [layout |-> a.images[to].layout, copyable |-> a.images[to].copyable,
                        shows |-> paints \cup Seen(a.images, R) \cup {}]
    BY <2>1, <2>2, Zenon DEF Attached
  <2>4. b.images[to] = [layout |-> "color", copyable |-> s.images[to].copyable,
                        shows |-> paints \cup Seen(s.images, R)]
    BY <1>4, <1>8, <2>3
  <2> QED BY <1>1, <1>5, <1>7, <2>4 DEF OnlyOn, IsImage
<1>10. /\ OnlyOn(b, t, {to})
       /\ t.images[to] = [layout |-> "sampled", copyable |-> b.images[to].copyable,
                          shows |-> b.images[to].shows]
  <2>1. to \in DOMAIN b.images /\ IsImage(b.images[to]) /\ b.images[to].layout = "color"
    BY <1>3, <1>9
  <2>2. t = RunOne(b, Barrier(to, "color", "sampled"))
    BY <1>1, <1>2
  <2> QED BY <2>1, <2>2, BarrierRuns
<1>11. /\ DOMAIN t.images = PostNames(n) /\ t.broken = s.broken
       /\ \A i \in PostNames(n) \ {to} : t.images[i] = s.images[i]
       /\ IsImage(t.images[to]) /\ t.images[to].layout = "sampled"
       /\ t.images[to].shows = b.images[to].shows
  BY <1>9, <1>10 DEF OnlyOn, IsImage
<1>12. Readable(t, n)
  <2>1. \A i \in PostNames(n) : IsImage(t.images[i])
    BY <1>11 DEF Readable, Drawable
  <2>2. \A i \in Sources(n) : t.images[i].layout = "sampled"
    BY <1>3, <1>11 DEF Readable, Drawable
  <2> QED BY <1>11, <2>1, <2>2 DEF Readable
<1> QED BY <1>2, <1>3, <1>9, <1>11, <1>12 DEF OnlyOn, Mixed, Shown

\* A filter makes an image show what another one does.
Filterable(s, n, to, r) == Drawable(s, n, to, {r})
SameShown(s, r, t, to) == t.images[to].shows = s.images[r].shows

LEMMA Filtered ==
    ASSUME NEW s, NEW n, NEW to, NEW r, Filterable(s, n, to, r),
           NEW t, t = After(s, Filter(r, to))
    PROVE  /\ Readable(t, n) /\ OnlyOn(s, t, {to})
           /\ SameShown(s, r, t, to) /\ List(Filter(r, to))
<1>2. PICK R, load, paints : R = {r} /\ load = "cover" /\ paints = {}
  OBVIOUS
<1>3. /\ Drawable(s, n, to, R) /\ load \in {"clear", "cover"}
      /\ t = After(s, Drawing(to, load, R, paints)) /\ List(Filter(r, to))
  BY <1>2, AfterThree DEF Drawing, Filter, Filterable
<1>4. /\ Readable(t, n) /\ OnlyOn(s, t, {to})
      /\ Shown(t, to, Mixed(s, R, paints))
  BY <1>3, PassDraws
<1>5. Seen(s.images, R) = s.images[r].shows
  <2>1. R \cap DOMAIN s.images = {r}
    BY <1>2, NamesDiffer DEF Readable, Drawable, Filterable
  <2>2. UNION {s.images[i].shows : i \in {r}} = s.images[r].shows
    OBVIOUS
  <2> QED BY <2>1, <2>2 DEF Seen
<1>6. t.images[to].shows = s.images[r].shows
  BY <1>2, <1>4, <1>5 DEF Mixed, Shown
<1> QED BY <1>3, <1>4, <1>6 DEF SameShown

\* What the shaders read: the source last asked for, and the images of this size.
DescriptorsAre ==
    /\ asked \in {Hdr(size), Upscaled}
    /\ descriptors = [threshold |-> asked, scene |-> asked, bloom |-> Blur(1, size),
                      blur |-> <<Bright(size), Blur(0, size), Blur(1, size)>>]

\* Back and forth between the two blurred images, from the bright one at first.
LEMMA Blurred ==
    ASSUME DescriptorsAre, NEW p \in Nat \ {0}, NEW s, Readable(s, size),
           NEW W, Shown(s, Bright(size), W), p = 1 \/ Shown(s, Blur(1, size), W),
           NEW t, t = After(s, BlurPass(p))
    PROVE  /\ Readable(t, size) /\ OnlyOn(s, t, {Blur(0, size), Blur(1, size)})
           /\ Shown(t, Blur(1, size), W) /\ List(BlurPass(p))
<1>1. PICK i, j, k : i = Bright(size) /\ j = Blur(0, size) /\ k = Blur(1, size)
  OBVIOUS
<1>2. /\ i \in Sources(size) /\ j \in Sources(size) /\ k \in Sources(size)
      /\ i # j /\ i # k /\ j # k
  BY <1>1, NamesDiffer DEF Sources
<1>3. PICK r : r = IF p = 1 THEN i ELSE k
  OBVIOUS
<1>4. Horizontal(p) = r /\ descriptors.blur[2] = j /\ s.images[r].shows = W
  BY <1>1, <1>3 DEF Horizontal, DescriptorsAre, Shown
<1>5. BlurPass(p) = Filter(r, j) \o Filter(j, k)
  BY <1>1, <1>4 DEF BlurPass
<1>6. PICK a : a = After(s, Filter(r, j))
  OBVIOUS
<1>7. Filterable(s, size, j, r)
  BY <1>2, <1>3 DEF Drawable, Filterable
<1>8. Readable(a, size) /\ OnlyOn(s, a, {j}) /\ a.images[j].shows = W /\ List(Filter(r, j))
  <2>1. SameShown(s, r, a, j)
    BY <1>6, <1>7, Filtered
  <2> QED BY <1>4, <1>6, <1>7, <2>1, Filtered DEF SameShown
<1>9. PICK b : b = After(a, Filter(j, k))
  OBVIOUS
<1>10. Filterable(a, size, k, j)
  BY <1>2, <1>8 DEF Drawable, Filterable
<1>11. Readable(b, size) /\ OnlyOn(a, b, {k}) /\ b.images[k].shows = W /\ List(Filter(j, k))
  <2>1. SameShown(a, j, b, k)
    BY <1>9, <1>10, Filtered
  <2> QED BY <1>8, <1>9, <1>10, <2>1, Filtered DEF SameShown
<1>12. t = b /\ List(BlurPass(p))
  BY <1>5, <1>6, <1>8, <1>9, <1>11, AfterBoth
<1>13. OnlyOn(s, b, {j, k})
  BY <1>8, <1>11 DEF OnlyOn
<1> QED BY <1>1, <1>11, <1>12, <1>13 DEF Shown

\* However many passes there are.
LEMMA AllBlurred ==
    ASSUME DescriptorsAre, NEW s, Readable(s, size), NEW W, Shown(s, Bright(size), W),
           NEW t, t = After(s, FlattenSeq([p \in 1 .. BloomPasses |-> BlurPass(p)]))
    PROVE  /\ Readable(t, size) /\ OnlyOn(s, t, {Blur(0, size), Blur(1, size)})
           /\ Shown(t, Blur(1, size), W)
           /\ List(FlattenSeq([p \in 1 .. BloomPasses |-> BlurPass(p)]))
<1>1. PICK seqs : seqs = [p \in 1 .. BloomPasses |-> BlurPass(p)]
  OBVIOUS
<1>2. BloomPasses \in Nat \ {0}
  BY PostProcessAssumption
<1>3. /\ seqs \in Seq({BlurPass(p) : p \in 1 .. BloomPasses}) /\ Len(seqs) = BloomPasses
      /\ \A p \in 1 .. BloomPasses : seqs[p] = BlurPass(p)
  BY <1>1, <1>2
<1>4. PICK i, j, k : i = Bright(size) /\ j = Blur(0, size) /\ k = Blur(1, size)
  OBVIOUS
<1>5. ASSUME NEW p \in 1 .. BloomPasses PROVE List(BlurPass(p))
  <2>1. BlurPass(p) = Filter(Horizontal(p), j) \o Filter(descriptors.blur[2], k)
    BY <1>4 DEF BlurPass
  <2>2. \A x, y : List(Filter(x, y))
    BY AfterThree DEF Filter
  <2> QED BY <2>1, <2>2, AfterBoth
<1>6. PICK b : /\ b[0] = s /\ After(s, FlattenSeq(seqs)) = b[Len(seqs)]
               /\ \A n \in 1 .. Len(seqs) : b[n] = After(b[n - 1], seqs[n])
               /\ List(FlattenSeq(seqs))
  <2>1. \A p \in 1 .. Len(seqs) : List(seqs[p])
    BY <1>3, <1>5
  <2>2. PICK T : seqs \in Seq(T)
    BY <1>3
  <2> QED BY <2>1, <2>2, FlattenRuns
<1> DEFINE At(n) == /\ Readable(b[n], size) /\ OnlyOn(s, b[n], {j, k})
                    /\ n = 0 \/ Shown(b[n], k, W)
           wrong == {n \in 0 .. BloomPasses : ~At(n)}
<1>7. At(0)
  BY <1>6 DEF OnlyOn
<1>8. ASSUME NEW n \in 1 .. BloomPasses, At(n - 1) PROVE At(n)
  <2>1. PICK c : c = b[n - 1]
    OBVIOUS
  <2>2. Readable(c, size) /\ OnlyOn(s, c, {j, k}) /\ (n - 1 = 0 \/ Shown(c, k, W))
    BY <1>8, <2>1
  <2>3. n \in Nat \ {0} /\ (n - 1 = 0 => n = 1)
    OBVIOUS
  <2>4. PICK d : d = b[n] /\ d = After(c, BlurPass(n))
    BY <1>3, <1>6, <2>1
  <2>5. Shown(c, i, W)
    BY <1>4, <2>2, NamesDiffer DEF OnlyOn, Readable, PostNames, Shown
  <2>6. Readable(d, size) /\ OnlyOn(c, d, {j, k}) /\ Shown(d, k, W)
    BY <1>4, <2>2, <2>3, <2>4, <2>5, Blurred
  <2>7. OnlyOn(s, d, {j, k})
    BY <2>2, <2>6 DEF OnlyOn
  <2> QED BY <2>4, <2>6, <2>7
<1> HIDE DEF At
<1>9. wrong = {}
  <2> SUFFICES ASSUME wrong # {} PROVE FALSE
    OBVIOUS
  <2> wrong \in SUBSET Nat
    BY <1>2
  <2>1. PICK m \in wrong : \A x \in wrong : m <= x
    <3> HIDE DEF wrong
    <3> QED BY LeastOf
  <2>2. m \in 1 .. BloomPasses /\ ~At(m) /\ m - 1 \in 0 .. BloomPasses
    BY <1>2, <1>7, <2>1
  <2>3. m - 1 \notin wrong
    <3>1. ~(m <= m - 1)
      BY <2>2
    <3> HIDE DEF wrong
    <3> QED BY <2>1, <3>1
  <2> QED BY <1>8, <2>2, <2>3
<1>10. At(BloomPasses)
  <2>1. BloomPasses \in 0 .. BloomPasses
    BY <1>2
  <2> QED BY <1>9, <2>1
<1>11. t = b[BloomPasses]
  BY <1>1, <1>3, <1>6
<1> QED BY <1>1, <1>2, <1>4, <1>6, <1>10, <1>11 DEF At

\* The screen is drawn over whatever it held.
LEMMA Tonemapped ==
    ASSUME DescriptorsAre, NEW s, Readable(s, size),
           NEW W, Shown(s, asked, W), Shown(s, Blur(1, size), W), NEW t, t = After(s, Tonemap)
    PROVE  Readable(t, size) /\ t.broken = s.broken /\ Shown(t, Display, W) /\ List(Tonemap)
<1>1. PICK x, y, S, R, none :
          /\ x = Barrier(Display, "undefined", "color") /\ y = Pass(S, "cover", R, none)
          /\ S = {Display} /\ R = {asked, Blur(1, size)} /\ none = {}
  OBVIOUS
<1>2. Tonemap = <<x, y>>
  BY <1>1 DEF Tonemap, DescriptorsAre
<1>3. PICK a : a = RunOne(s, x) /\ t = RunOne(a, y) /\ List(Tonemap)
  BY <1>2, AfterTwo
<1>4. /\ Display \in DOMAIN s.images /\ IsImage(s.images[Display])
      /\ Sources(size) \subseteq PostNames(size) /\ Display \notin Sources(size)
      /\ PostNames(size) = Sources(size) \cup {Display} /\ DOMAIN s.images = PostNames(size)
      /\ R \subseteq Sources(size)
  BY <1>1, NamesDiffer DEF Readable, DescriptorsAre, Sources
<1>5. OnlyOn(s, a, {Display}) /\ IsImage(a.images[Display]) /\ a.images[Display].layout = "color"
  <2>1. a = RunOne(s, Barrier(Display, "undefined", "color"))
    BY <1>1, <1>3
  <2>2. PICK what : /\ OnlyOn(s, a, {Display})
                    /\ a.images[Display] = [layout |-> "color", shows |-> what,
                                            copyable |-> s.images[Display].copyable]
    <3>1. PICK from, to, i : from = "undefined" /\ to = "color" /\ i = Display
      OBVIOUS
    <3>2. /\ OnlyOn(s, a, {i})
          /\ a.images[i] =
                [layout |-> to, copyable |-> s.images[i].copyable,
                 shows |-> IF from = "undefined" THEN Garbage ELSE s.images[i].shows]
      BY <1>4, <2>1, <3>1, BarrierRuns
    <3> QED BY <3>1, <3>2
  <2> QED BY <2>2 DEF IsImage
<1>6. /\ DOMAIN a.images = PostNames(size) /\ a.broken = s.broken
      /\ \A i \in Sources(size) : a.images[i] = s.images[i]
  BY <1>4, <1>5 DEF OnlyOn
<1>7. MayPass(a, S, R)
  BY <1>1, <1>4, <1>5, <1>6 DEF MayPass, Readable
<1>8. OnlyOn(a, t, S) /\ \A i \in S : t.images[i] = Attached(a, i, "cover", R, none)
  BY <1>1, <1>3, <1>7, PassRuns
<1>9. Seen(a.images, R) = W
  <2>1. R \cap DOMAIN a.images = R
    BY <1>4, <1>6
  <2>2. \A i \in R : a.images[i].shows = W
    BY <1>1, <1>4, <1>6 DEF Shown
  <2>3. {a.images[i].shows : i \in R} = {W}
    BY <1>1, <2>2
  <2>4. UNION {W} = W
    OBVIOUS
  <2> QED BY <2>1, <2>3, <2>4 DEF Seen
<1>10. t.images[Display].shows = W /\ IsImage(t.images[Display])
  <2>1. t.images[Display] = Attached(a, Display, "cover", R, none)
    BY <1>1, <1>8
  <2> QED BY <1>1, <1>9, <2>1 DEF Attached, IsImage
<1>11. /\ DOMAIN t.images = PostNames(size) /\ t.broken = s.broken
       /\ \A i \in Sources(size) : t.images[i] = s.images[i]
  BY <1>1, <1>4, <1>6, <1>8 DEF OnlyOn
<1>12. Readable(t, size)
  BY <1>4, <1>10, <1>11 DEF Readable
<1> QED BY <1>3, <1>10, <1>11, <1>12 DEF Shown

\* A recorded frame takes the source to the screen.
LEMMA Recorded ==
    ASSUME DescriptorsAre, NEW s, Readable(s, size), NEW W, Shown(s, asked, W),
           NEW t, t = After(s, RecordCommands)
    PROVE  Readable(t, size) /\ t.broken = s.broken /\ Shown(t, Display, W) /\ List(RecordCommands)
<1>1. PICK i, j, k : i = Bright(size) /\ j = Blur(0, size) /\ k = Blur(1, size)
  OBVIOUS
<1>2. PICK blurs : blurs = FlattenSeq([p \in 1 .. BloomPasses |-> BlurPass(p)])
  OBVIOUS
<1>3. /\ i \in Sources(size) /\ j \in Sources(size) /\ k \in Sources(size)
      /\ asked \in Sources(size) /\ asked \notin {i, j, k}
      /\ Sources(size) \subseteq PostNames(size)
  BY <1>1, NamesDiffer DEF Sources, DescriptorsAre
<1>4. Threshold = Filter(asked, i)
  BY <1>1 DEF Threshold, DescriptorsAre
<1>5. PICK a : a = After(s, Threshold)
  OBVIOUS
<1>6. Readable(a, size) /\ OnlyOn(s, a, {i}) /\ SameShown(s, asked, a, i) /\ List(Threshold)
  <2>1. Filterable(s, size, i, asked)
    BY <1>3 DEF Drawable, Filterable
  <2> QED BY <1>4, <1>5, <2>1, Filtered
<1>7. Shown(a, i, W) /\ Shown(a, asked, W)
  BY <1>3, <1>6 DEF Shown, SameShown, OnlyOn, Readable
<1>8. PICK b : b = After(a, blurs)
  OBVIOUS
<1>9. Readable(b, size) /\ OnlyOn(a, b, {j, k}) /\ Shown(b, k, W) /\ List(blurs)
  BY <1>1, <1>2, <1>6, <1>7, <1>8, AllBlurred
<1>10. Shown(b, asked, W) /\ b.broken = s.broken
  BY <1>3, <1>6, <1>7, <1>9 DEF Shown, OnlyOn, Readable
<1>11. PICK c : c = After(b, Tonemap)
  OBVIOUS
<1>12. Readable(c, size) /\ c.broken = b.broken /\ Shown(c, Display, W) /\ List(Tonemap)
  BY <1>1, <1>9, <1>10, <1>11, Tonemapped
<1>13. RecordCommands = (Threshold \o blurs) \o Tonemap
  BY <1>2 DEF RecordCommands
<1>14. After(s, Threshold \o blurs) = b /\ List(Threshold \o blurs)
  BY <1>5, <1>6, <1>8, <1>9, AfterBoth
<1>15. t = c /\ List(RecordCommands)
  BY <1>11, <1>12, <1>13, <1>14, AfterBoth
<1> QED BY <1>10, <1>12, <1>15

\* The game draws its scene, and the upscaler out of it.
LEMMA SceneDrawn ==
    ASSUME NEW s, Readable(s, size), NEW f, NEW t, t = After(s, DrawScene(f))
    PROVE  /\ Readable(t, size) /\ t.broken = s.broken /\ List(DrawScene(f))
           /\ Shown(t, Hdr(size), {<<"hdr", f>>}) /\ Shown(t, Upscaled, {<<"upscaled", f>>})
<1>1. PICK h, u, R : h = Hdr(size) /\ u = Upscaled /\ R = {}
  OBVIOUS
<1>2. PICK first, second : first = {<<"hdr", f>>} /\ second = {<<"upscaled", f>>}
  OBVIOUS
<1>3. /\ h \in Sources(size) /\ u \in Sources(size) /\ h # u
      /\ Sources(size) \subseteq PostNames(size)
  BY <1>1, NamesDiffer DEF Sources
<1>4. DrawScene(f) = Drawing(h, "clear", R, first) \o Drawing(u, "clear", R, second)
  BY <1>1, <1>2 DEF DrawScene, Drawing
<1>5. "clear" \in {"clear", "cover"} /\ \A x : Mixed(x, R, first) = first /\ Mixed(x, R, second) = second
  BY <1>1 DEF Mixed, Seen
<1>6. PICK a : a = After(s, Drawing(h, "clear", R, first))
  OBVIOUS
<1>7. Drawable(s, size, h, R)
  BY <1>1, <1>3 DEF Drawable
<1>8. /\ Readable(a, size) /\ OnlyOn(s, a, {h}) /\ Shown(a, h, first)
      /\ List(Drawing(h, "clear", R, first))
  <2>1. /\ Readable(a, size) /\ OnlyOn(s, a, {h})
        /\ Shown(a, h, Mixed(s, R, first)) /\ List(Drawing(h, "clear", R, first))
    BY <1>5, <1>6, <1>7, PassDraws
  <2> QED BY <1>5, <2>1
<1>9. PICK b : b = After(a, Drawing(u, "clear", R, second))
  OBVIOUS
<1>10. Drawable(a, size, u, R)
  BY <1>1, <1>3, <1>8 DEF Drawable
<1>11. /\ Readable(b, size) /\ OnlyOn(a, b, {u}) /\ Shown(b, u, second)
       /\ List(Drawing(u, "clear", R, second))
  <2>1. /\ Readable(b, size) /\ OnlyOn(a, b, {u})
        /\ Shown(b, u, Mixed(a, R, second)) /\ List(Drawing(u, "clear", R, second))
    BY <1>5, <1>9, <1>10, PassDraws
  <2> QED BY <1>5, <2>1
<1>12. t = b /\ List(DrawScene(f))
  BY <1>4, <1>6, <1>8, <1>9, <1>11, AfterBoth
<1>13. Shown(b, h, first) /\ b.broken = s.broken
  BY <1>3, <1>8, <1>11 DEF Shown, OnlyOn, Readable
<1> QED BY <1>1, <1>2, <1>11, <1>12, <1>13

\* Before a frame.
Between == [images |-> post, broken |-> {}, staged |-> {}]

\* Every image can be drawn and read, every descriptor is of this size and source.
PostInv ==
    /\ Readable(Between, size) /\ DescriptorsAre
    /\ shown = [what |-> shown.what, frame |-> shown.frame]
    /\ shaders = [disk |-> shaders.disk, seen |-> shaders.seen,
                  loaded |-> shaders.loaded, built |-> shaders.built]
    /\ shaders.disk = [s \in Shader |-> shaders.disk[s]]
    /\ shaders.seen = [s \in Shader |-> shaders.seen[s]]
    /\ shaders.loaded = [s \in Shader |-> shaders.loaded[s]]
    /\ FramesAreWhole

\* Of images of this or any size.
LEMMA CreatedReadable ==
    ASSUME NEW n, NEW games, IsImage(games[Upscaled]), IsImage(games[Display]),
           games[Upscaled].layout = "sampled", NEW s, s.images = CreateImages(n, games)
    PROVE  Readable(s, n)
<1>1. /\ DOMAIN s.images = PostNames(n)
      /\ \A i \in PostNames(n) : s.images[i] =
            IF i \in {Upscaled, Display} THEN games[i] ELSE Color(FALSE)
  BY DEF CreateImages, PostNames
<1>2. IsImage(Color(FALSE)) /\ Color(FALSE).layout = "sampled"
  BY DEF Color, IsImage
<1>3. Sources(n) \subseteq PostNames(n) /\ Display \notin Sources(n)
  BY NamesDiffer
<1>4. \A i \in PostNames(n) : IsImage(s.images[i])
  BY <1>1, <1>2
<1>5. \A i \in Sources(n) : s.images[i].layout = "sampled"
  BY <1>1, <1>2, <1>3
<1> QED BY <1>1, <1>4, <1>5 DEF Readable

LEMMA PostInvInit == PostInit => PostInv
<1> SUFFICES ASSUME PostInit PROVE PostInv
  OBVIOUS
<1> DEFINE games == [i \in {Upscaled, Display} |-> Color(FALSE)]
<1>1. IsImage(Color(FALSE)) /\ Color(FALSE).layout = "sampled"
  BY DEF Color, IsImage
<1>2. games[Upscaled] = Color(FALSE) /\ games[Display] = Color(FALSE)
  OBVIOUS
<1>3. Between.images = CreateImages(0, games) /\ size = 0
  BY DEF Between, PostInit
<1> HIDE DEF games
<1>4. Readable(Between, size)
  BY <1>1, <1>2, <1>3, CreatedReadable
<1>5. DescriptorsAre
  BY DEF PostInit, DescriptorsAre, WriteDescriptors
<1>6. FramesAreWhole
  BY DEF PostInit, FramesAreWhole, WriteDescriptors, Changed
<1> QED BY <1>4, <1>5, <1>6 DEF PostInit, PostInv

\* A frame is made of that frame of the source alone.
LEMMA FrameIsWhole == PostInv /\ PostFrame => PostInv'
<1> SUFFICES ASSUME PostInv, PostFrame PROVE PostInv'
  OBVIOUS
<1>1. PICK f : f = 1 - shown.frame
  OBVIOUS
<1>2. PICK ran : ran = Ran(post, DrawScene(f) \o RecordCommands)
  OBVIOUS
<1>3. /\ post' = ran.images /\ misused' = misused \cup ran.broken
      /\ shown' = [what |-> ran.images[Display].shows, frame |-> f]
      /\ UNCHANGED <<size, descriptors, asked, shaders, looked>>
  BY <1>1, <1>2 DEF PostFrame
<1>4. Readable(Between, size) /\ DescriptorsAre /\ Between.broken = {}
  BY DEF PostInv, Between
<1>5. PICK a : a = After(Between, DrawScene(f))
  OBVIOUS
<1>6. /\ Readable(a, size) /\ a.broken = {} /\ List(DrawScene(f))
      /\ Shown(a, Hdr(size), {<<"hdr", f>>}) /\ Shown(a, Upscaled, {<<"upscaled", f>>})
  <2>1. PICK s : s = Between
    OBVIOUS
  <2> QED BY <1>4, <1>5, <2>1, SceneDrawn
<1>7. PICK src \in {"hdr", "upscaled"} : Shown(a, asked, {<<src, f>>})
  BY <1>4, <1>6 DEF DescriptorsAre
<1>8. PICK W : W = {<<src, f>>}
  OBVIOUS
<1>9. PICK b : b = After(a, RecordCommands)
  OBVIOUS
<1>10. Readable(b, size) /\ b.broken = {} /\ Shown(b, Display, W) /\ List(RecordCommands)
  <2>1. Shown(a, asked, W)
    BY <1>7, <1>8
  <2> QED BY <1>4, <1>6, <1>9, <2>1, Recorded
<1>11. ran = b
  <2>1. After(Between, DrawScene(f) \o RecordCommands) = b
    BY <1>5, <1>6, <1>9, <1>10, AfterBoth
  <2> QED BY <1>2, <2>1 DEF Ran, Between
<1>12. shown'.what = {<<src, shown'.frame>>} /\ misused' = {}
  BY <1>3, <1>8, <1>10, <1>11 DEF Shown, PostInv, FramesAreWhole
<1>13. Readable(Between, size)'
  BY <1>3, <1>10, <1>11 DEF Readable, Between
<1>14. DescriptorsAre'
  BY <1>3, <1>4 DEF DescriptorsAre
<1>15. FramesAreWhole'
  BY <1>3, <1>12 DEF FramesAreWhole, PostInv, Changed
<1> QED BY <1>3, <1>13, <1>14, <1>15 DEF PostInv

\* A check passes no changed shader over.
LEMMA ReloadIsWhole == PostInv /\ CheckPostReload => PostInv'
<1> SUFFICES ASSUME PostInv, CheckPostReload PROVE PostInv'
  OBVIOUS
<1>1. PICK compiling \in SUBSET Changed :
         LET reached == AllOf(compiling)
             loaded == [s \in Shader |-> IF s \in reached \cap compiling THEN shaders.disk[s]
                                         ELSE shaders.loaded[s]]
         IN  shaders' = [shaders EXCEPT
                   !.seen = [s \in Shader |-> IF s \in reached THEN shaders.disk[s] ELSE @[s]],
                   !.loaded = loaded,
                   !.built = IF reached \cap compiling = {} THEN @ ELSE loaded]
  BY DEF CheckPostReload
<1> DEFINE loaded == [s \in Shader |-> IF s \in compiling THEN shaders.disk[s] ELSE shaders.loaded[s]]
           seen == [s \in Shader |-> IF s \in Changed THEN shaders.disk[s] ELSE shaders.seen[s]]
<1>2. AllOf(compiling) = Changed /\ Changed \cap compiling = compiling
  BY DEF AllOf
<1>3. /\ shaders'.disk = shaders.disk /\ shaders'.seen = seen /\ shaders'.loaded = loaded
      /\ shaders'.built = IF compiling = {} THEN shaders.built ELSE loaded
      /\ shaders' = [disk |-> shaders'.disk, seen |-> shaders'.seen,
                     loaded |-> shaders'.loaded, built |-> shaders'.built]
  BY <1>1, <1>2 DEF PostInv
<1>4. looked' = TRUE /\ UNCHANGED imageVars
  BY DEF CheckPostReload
<1>5. compiling = {} => loaded = shaders.loaded
  BY DEF PostInv
<1>6. shaders'.built = shaders'.loaded
  BY <1>3, <1>5 DEF PostInv, FramesAreWhole
<1>7. seen = shaders.disk
  BY DEF Changed, PostInv
<1>8. Changed' = {}
  BY <1>3, <1>7 DEF Changed
<1>9. FramesAreWhole'
  BY <1>4, <1>6, <1>8 DEF FramesAreWhole, PostInv, imageVars
<1>10. Readable(Between, size)' /\ DescriptorsAre'
  BY <1>4 DEF PostInv, Readable, Between, DescriptorsAre, imageVars
<1> QED BY <1>3, <1>4, <1>7, <1>9, <1>10 DEF PostInv, imageVars

LEMMA PostInvNext == PostInv /\ [PostNext]_postVars => PostInv'
<1> SUFFICES ASSUME PostInv, [PostNext]_postVars PROVE PostInv'
  OBVIOUS
<1>1. CASE PostFrame
  BY <1>1, FrameIsWhole
<1>2. CASE ResizePost
  <2>1. PICK n : n = 1 - size
    OBVIOUS
  <2>2. /\ size' = n /\ post' = CreateImages(n, post) /\ descriptors' = WriteDescriptors(n)
        /\ asked' = Hdr(n) /\ UNCHANGED <<shown, misused, shaders, looked>>
    BY <1>2, <2>1 DEF ResizePost, NewDescriptors
  <2>3. IsImage(post[Upscaled]) /\ IsImage(post[Display]) /\ post[Upscaled].layout = "sampled"
    BY DEF PostInv, Readable, Between, PostNames, Sources
  <2>4. PICK s : s = Between'
    OBVIOUS
  <2>5. s.images = CreateImages(n, post)
    BY <2>2, <2>4 DEF Between
  <2>6. Readable(s, n)
    BY <2>3, <2>5, CreatedReadable
  <2>7. Readable(Between, size)'
    BY <2>2, <2>4, <2>6 DEF Readable
  <2>8. DescriptorsAre'
    BY <2>2 DEF DescriptorsAre, WriteDescriptors
  <2>9. FramesAreWhole'
    BY <2>2 DEF FramesAreWhole, WriteDescriptors, PostInv, Changed
  <2> QED BY <2>2, <2>7, <2>8, <2>9 DEF PostInv
<1>3. ASSUME NEW i \in {Upscaled, Hdr(size)}, SetHdrSource(i) PROVE PostInv'
  <2>1. /\ asked' = i /\ descriptors' = [descriptors EXCEPT !.threshold = i, !.scene = i]
        /\ UNCHANGED <<post, size, shown, misused, shaders, looked>>
    BY <1>3 DEF SetHdrSource
  <2>2. Readable(Between, size)'
    BY <2>1 DEF PostInv, Readable, Between
  <2>3. DescriptorsAre'
    BY <2>1 DEF PostInv, DescriptorsAre
  <2>4. FramesAreWhole'
    BY <2>1, <2>3 DEF FramesAreWhole, PostInv, Changed, DescriptorsAre
  <2> QED BY <2>1, <2>2, <2>3, <2>4 DEF PostInv
<1>4. ASSUME NEW s \in Shader, EditPost(s) PROVE PostInv'
  <2>1. /\ shaders' = [shaders EXCEPT !.disk[s] = 1 - @] /\ looked' = FALSE
        /\ UNCHANGED imageVars
    BY <1>4 DEF EditPost
  <2>2. Readable(Between, size)' /\ DescriptorsAre'
    BY <2>1 DEF PostInv, Readable, Between, DescriptorsAre, imageVars
  <2>3. FramesAreWhole'
    BY <2>1 DEF FramesAreWhole, PostInv, imageVars
  <2> QED BY <2>1, <2>2, <2>3 DEF PostInv, imageVars
<1>5. CASE CheckPostReload
  BY <1>5, ReloadIsWhole
<1>6. CASE UNCHANGED postVars
  BY <1>6 DEF postVars, imageVars, PostInv, Readable, Between, DescriptorsAre, FramesAreWhole, Changed
<1> QED BY <1>1, <1>2, <1>3, <1>4, <1>5, <1>6 DEF PostNext

\* A frame on the screen is made of that frame of the source last asked for and nothing
\* else, no shader reads a view that is gone or an image in another layout, and no changed
\* shader is passed over: for any number of blur passes, through every order of frames,
\* resizes, upscalers, edits and checks (recordCommands, resize, setHdrSource, checkReload).
THEOREM FramesStayWhole == PostSpec => []FramesAreWhole
<1>1. PostInv => FramesAreWhole
  BY DEF PostInv
<1> QED BY PostInvInit, PostInvNext, <1>1, PTL DEF PostSpec

-----------------------------------------------------------------------------
(* Captures *)

CapturesSpec == CapturesInit /\ [][CapturesNext]_captureVars

\* Images are images, may still be copied where they could, and only those of S changed.
Stands(s) == \A i \in DOMAIN s.images : IsImage(s.images[i])
Changes(s, t, S) ==
    /\ DOMAIN t.images = DOMAIN s.images /\ Stands(t)
    /\ \A i \in DOMAIN s.images : t.images[i].copyable = s.images[i].copyable
    /\ \A i \in DOMAIN s.images \ S : t.images[i] = s.images[i]
\* And no rule was broken, nor anything copied.
Works(s, t, S) == Changes(s, t, S) /\ t.broken = s.broken /\ t.staged = s.staged

Has(s, i) == i \in DOMAIN s.images
There(s, i, way) == Has(s, i) /\ s.images[i].layout = way
MayTurn(s, i, from) == Stands(s) /\ Has(s, i) /\ from \in {s.images[i].layout, "undefined"}
WorksOn(s, t, i) == Works(s, t, {i})

\* The commands on one image each.
LEMMA Turns ==
    ASSUME NEW s, NEW i, NEW from, NEW to, MayTurn(s, i, from), NEW t, t = RunOne(s, Barrier(i, from, to))
    PROVE  /\ WorksOn(s, t, i) /\ There(t, i, to)
           /\ from # "undefined" => SameShown(s, i, t, i)
<1>1. /\ OnlyOn(s, t, {i}) /\ t.staged = s.staged
      /\ t.images[i] = [layout |-> to, copyable |-> s.images[i].copyable,
                        shows |-> IF from = "undefined" THEN Garbage ELSE s.images[i].shows]
  <2>1. i \in DOMAIN s.images /\ IsImage(s.images[i]) /\ from \in {s.images[i].layout, "undefined"}
    BY DEF MayTurn, Has, Stands
  <2> QED BY <2>1, BarrierRuns
<1>2. IsImage(t.images[i]) /\ t.images[i].copyable = s.images[i].copyable /\ t.images[i].layout = to
  BY <1>1 DEF IsImage
<1>3. from # "undefined" => t.images[i].shows = s.images[i].shows
  BY <1>1
<1> QED BY <1>1, <1>2, <1>3 DEF WorksOn, Works, Changes, OnlyOn, There, Has, Stands, MayTurn, SameShown

\* An image is drawn into, over what it shows or anew.
MayDraw(s, S) ==
    Stands(s) /\ \A i \in S : Has(s, i) /\ s.images[i].layout \in {"color", "depth"}
Drew(s, t, S, load, paints) ==
    \A i \in S : /\ t.images[i].layout = s.images[i].layout
                 /\ t.images[i].shows = paints \cup (IF load = "load" THEN s.images[i].shows ELSE {})

LEMMA DrawsInto ==
    ASSUME NEW s, NEW S, MayDraw(s, S), NEW load, NEW paints,
           NEW t, t = RunOne(s, Pass(S, load, {}, paints))
    PROVE  Works(s, t, S) /\ Drew(s, t, S, load, paints)
<1>1. PICK R : R = {}
  OBVIOUS
<1>2. MayPass(s, S, R)
  BY <1>1 DEF MayPass, MayDraw, Has, Stands
<1>3. /\ OnlyOn(s, t, S) /\ t.staged = s.staged
      /\ \A i \in S : t.images[i] = Attached(s, i, load, R, paints)
  BY <1>1, <1>2, PassRuns
<1>4. Seen(s.images, R) = {}
  BY <1>1 DEF Seen
<1>5. ASSUME NEW i \in S
      PROVE  /\ t.images[i].layout = s.images[i].layout /\ IsImage(t.images[i])
             /\ t.images[i].copyable = s.images[i].copyable
             /\ t.images[i].shows = paints \cup (IF load = "load" THEN s.images[i].shows ELSE {})
  <2>1. PICK old : old = IF load = "load" THEN s.images[i].shows ELSE {}
    OBVIOUS
  <2>2. t.images[i] = [layout |-> s.images[i].layout, copyable |-> s.images[i].copyable,
                       shows |-> paints \cup {} \cup old]
    BY <1>3, <1>4, <2>1, Zenon DEF Attached
  <2> QED BY <2>1, <2>2 DEF IsImage
<1>6. Works(s, t, S)
  BY <1>3, <1>5 DEF Works, Changes, OnlyOn, Stands, MayDraw
<1> QED BY <1>5, <1>6 DEF Drew

\* An image goes to the staging buffer; it may be one that does not allow it.
Usage(s, i) == IF s.images[i].copyable THEN {} ELSE {<<"usage", i>>}
Copied(s, t, i) ==
    Changes(s, t, {}) /\ t.broken = s.broken \cup Usage(s, i) /\ t.staged = s.images[i].shows

LEMMA Copies ==
    ASSUME NEW s, NEW i, There(s, i, "source"), Stands(s), NEW t, t = RunOne(s, Copy(i))
    PROVE  Copied(s, t, i)
<1>1. PICK c : c = Copy(i)
  OBVIOUS
<1>2. c.op = "copy" /\ c.on = {} /\ c.reads = {i}
  BY <1>1 DEF Copy
<1>3. i \in DOMAIN s.images /\ s.images[i].layout = "source"
  BY DEF There, Has
<1>4. Seen(s.images, c.reads) = s.images[i].shows
  <2>1. c.reads \cap DOMAIN s.images = {i}
    BY <1>2, <1>3
  <2>2. UNION {s.images[j].shows : j \in {i}} = s.images[i].shows
    OBVIOUS
  <2> QED BY <2>1, <2>2 DEF Seen
<1>5. Broken(s.images, c) = Usage(s, i)
  <2>1. {<<"gone", j>> : j \in (c.on \cup c.reads) \ DOMAIN s.images} = {}
    BY <1>2, <1>3
  <2>2. {<<"layout", j>> : j \in {k \in c.on \cap DOMAIN s.images :
                                      s.images[k].layout \notin Into(s.images, c)}} = {}
    BY <1>2
  <2>3. {<<"layout", j>> : j \in {k \in c.reads \cap DOMAIN s.images :
                                      s.images[k].layout # ReadLayout(c)}} = {}
    BY <1>2, <1>3 DEF ReadLayout
  <2>4. {<<"usage", j>> : j \in {k \in c.reads \cap DOMAIN s.images :
                                     c.op \in {"copy", "blit"} /\ ~s.images[k].copyable}}
          = Usage(s, i)
    BY <1>2, <1>3 DEF Usage
  <2> QED BY <2>1, <2>2, <2>3, <2>4 DEF Broken
<1>6. t = RunOne(s, c)
  BY <1>1
<1>7. t.broken = s.broken \cup Usage(s, i) /\ t.staged = s.images[i].shows
  BY <1>2, <1>4, <1>5, <1>6 DEF RunOne
<1>8. DOMAIN t.images = DOMAIN s.images /\ \A j \in DOMAIN s.images : t.images[j] = s.images[j]
  BY <1>2, <1>6 DEF RunOne
<1> QED BY <1>7, <1>8 DEF Copied, Changes, Stands

\* Bytes go into an image, and what one shows into another.
MayFill(s, i) == Stands(s) /\ There(s, i, "destination")
LEMMA Uploads ==
    ASSUME NEW s, NEW i, MayFill(s, i), NEW what, NEW t, t = RunOne(s, Upload(i, what))
    PROVE  WorksOn(s, t, i) /\ There(t, i, "destination") /\ Shown(t, i, what)
<1>1. PICK c : c = Upload(i, what)
  OBVIOUS
<1>2. c.op = "upload" /\ c.on = {i} /\ c.reads = {} /\ c.what = what
  BY <1>1 DEF Upload
<1>3. PICK x : x = s.images[i]
  OBVIOUS
<1>4. /\ i \in DOMAIN s.images /\ x.layout = "destination"
      /\ x = [layout |-> x.layout, shows |-> x.shows, copyable |-> x.copyable]
  BY <1>3 DEF MayFill, There, Has, Stands, IsImage
<1>5. Broken(s.images, c) = {}
  BY <1>2, <1>3, <1>4 DEF Broken, Into
<1>6. t = RunOne(s, c)
  BY <1>1
<1>7. t.broken = s.broken /\ t.staged = s.staged
  BY <1>2, <1>5, <1>6 DEF RunOne
<1>8. /\ DOMAIN t.images = DOMAIN s.images /\ t.images[i] = Painted(s.images, c, i)
      /\ \A j \in DOMAIN s.images \ {i} : t.images[j] = s.images[j]
  BY <1>2, <1>4, <1>6 DEF RunOne
<1>9. Painted(s.images, c, i) = [x EXCEPT !.shows = what]
  BY <1>2, <1>3 DEF Painted
<1>10. /\ t.images[i].layout = "destination" /\ t.images[i].shows = what
       /\ t.images[i].copyable = x.copyable /\ IsImage(t.images[i])
  BY <1>4, <1>8, <1>9 DEF IsImage
<1> QED BY <1>3, <1>7, <1>8, <1>10 DEF WorksOn, Works, Changes, There, Has, Stands, MayFill, Shown

MayBlit(s, r, i) == MayFill(s, i) /\ There(s, r, "source") /\ s.images[r].copyable
LEMMA Blits ==
    ASSUME NEW s, NEW r, NEW i, MayBlit(s, r, i), NEW t, t = RunOne(s, Blit(r, i))
    PROVE  WorksOn(s, t, i) /\ There(t, i, "destination") /\ SameShown(s, r, t, i)
<1>1. PICK c : c = Blit(r, i)
  OBVIOUS
<1>2. c.op = "blit" /\ c.on = {i} /\ c.reads = {r}
  BY <1>1 DEF Blit
<1>3. PICK x : x = s.images[i]
  OBVIOUS
<1>4. /\ i \in DOMAIN s.images /\ x.layout = "destination"
      /\ x = [layout |-> x.layout, shows |-> x.shows, copyable |-> x.copyable]
  BY <1>3 DEF MayBlit, MayFill, There, Has, Stands, IsImage
<1>5. r \in DOMAIN s.images /\ s.images[r].layout = "source" /\ s.images[r].copyable
  BY DEF MayBlit, There, Has
<1>6. Broken(s.images, c) = {}
  <2>1. {<<"gone", j>> : j \in (c.on \cup c.reads) \ DOMAIN s.images} = {}
    BY <1>2, <1>4, <1>5
  <2>2. {<<"layout", j>> : j \in {k \in c.on \cap DOMAIN s.images :
                                      s.images[k].layout \notin Into(s.images, c)}} = {}
    BY <1>2, <1>3, <1>4 DEF Into
  <2>3. {<<"layout", j>> : j \in {k \in c.reads \cap DOMAIN s.images :
                                      s.images[k].layout # ReadLayout(c)}} = {}
    BY <1>2, <1>5 DEF ReadLayout
  <2>4. {<<"usage", j>> : j \in {k \in c.reads \cap DOMAIN s.images :
                                     c.op \in {"copy", "blit"} /\ ~s.images[k].copyable}} = {}
    BY <1>2, <1>5
  <2> QED BY <2>1, <2>2, <2>3, <2>4 DEF Broken
<1>7. t = RunOne(s, c)
  BY <1>1
<1>8. t.broken = s.broken /\ t.staged = s.staged
  BY <1>2, <1>6, <1>7 DEF RunOne
<1>9. /\ DOMAIN t.images = DOMAIN s.images /\ t.images[i] = Painted(s.images, c, i)
      /\ \A j \in DOMAIN s.images \ {i} : t.images[j] = s.images[j]
  BY <1>2, <1>4, <1>7 DEF RunOne
<1>10. Seen(s.images, c.reads) = s.images[r].shows
  <2>1. c.reads \cap DOMAIN s.images = {r}
    BY <1>2, <1>5
  <2>2. UNION {s.images[j].shows : j \in {r}} = s.images[r].shows
    OBVIOUS
  <2> QED BY <2>1, <2>2 DEF Seen
<1>11. Painted(s.images, c, i) = [x EXCEPT !.shows = s.images[r].shows]
  BY <1>2, <1>3, <1>10 DEF Painted
<1>12. /\ t.images[i].layout = "destination" /\ t.images[i].shows = s.images[r].shows
       /\ t.images[i].copyable = x.copyable /\ IsImage(t.images[i])
  BY <1>4, <1>9, <1>11 DEF IsImage
<1> QED BY <1>3, <1>8, <1>9, <1>12 DEF WorksOn, Works, Changes, There, Has, Stands, MayBlit, MayFill, SameShown

\* What goes on on top of work that changes images only goes on over both.
LEMMA WorkAddsUp ==
    ASSUME NEW s, NEW t, NEW u, NEW S, NEW T
    PROVE  /\ Changes(s, t, S) /\ Changes(t, u, T) => Changes(s, u, S \cup T)
           /\ Works(s, t, S) /\ Works(t, u, T) => Works(s, u, S \cup T)
<1>1. Changes(s, t, S) /\ Changes(t, u, T) => Changes(s, u, S \cup T)
  BY DEF Changes
<1> QED BY <1>1 DEF Works

\* Three images to draw a mesh into.
Set(set) == set.color # set.motion /\ set.color # set.depth /\ set.motion # set.depth
MayRender(s, set) == Stands(s) /\ Set(set) /\ \A i \in Targets(set) : Has(s, i)
Rendered(t, set) ==
    /\ There(t, set.color, "color") /\ There(t, set.depth, "depth")
    /\ \A i \in Targets(set) : t.images[i].shows = {Mesh}

LEMMA MeshDrawn ==
    ASSUME NEW s, NEW set, MayRender(s, set), NEW t, t = After(s, MeshPass(set))
    PROVE  Works(s, t, Targets(set)) /\ Rendered(t, set) /\ List(MeshPass(set))
<1>1. PICK x, y, z, w, S, W :
          /\ x = Barrier(set.color, "undefined", "color") /\ y = Barrier(set.motion, "undefined", "color")
          /\ z = Barrier(set.depth, "undefined", "depth") /\ w = Pass(S, "clear", {}, W)
          /\ S = Targets(set) /\ W = {Mesh}
  OBVIOUS
<1>2. MeshPass(set) = <<x, y>> \o <<z, w>>
  BY <1>1 DEF MeshPass
<1>3. PICK a, b, c : a = RunOne(s, x) /\ b = RunOne(a, y) /\ c = RunOne(b, z)
  OBVIOUS
<1>4. t = RunOne(c, w) /\ List(MeshPass(set))
  <2>1. List(<<x, y>>) /\ List(<<z, w>>) /\ After(s, <<x, y>>) = b
    BY <1>3, AfterTwo
  <2>2. After(b, <<z, w>>) = RunOne(c, w)
    BY <1>3, AfterTwo
  <2> QED BY <1>2, <2>1, <2>2, AfterBoth
<1>5. PICK i, j, k : i = set.color /\ j = set.motion /\ k = set.depth
  OBVIOUS
<1>6. /\ i # j /\ i # k /\ j # k /\ S = {i, j, k} /\ Stands(s)
      /\ Has(s, i) /\ Has(s, j) /\ Has(s, k)
  BY <1>1, <1>5 DEF MayRender, Set, Targets
<1>7. WorksOn(s, a, i) /\ There(a, i, "color")
  <2>1. MayTurn(s, i, "undefined")
    BY <1>6 DEF MayTurn
  <2> QED BY <1>1, <1>3, <1>5, <2>1, Turns
<1>8. WorksOn(a, b, j) /\ There(b, j, "color")
  <2>1. MayTurn(a, j, "undefined")
    BY <1>6, <1>7 DEF MayTurn, WorksOn, Works, Changes, Has
  <2> QED BY <1>1, <1>3, <1>5, <2>1, Turns
<1>9. WorksOn(b, c, k) /\ There(c, k, "depth")
  <2>1. MayTurn(b, k, "undefined")
    BY <1>6, <1>7, <1>8 DEF MayTurn, WorksOn, Works, Changes, Has
  <2> QED BY <1>1, <1>3, <1>5, <2>1, Turns
<1>10. Works(s, c, S)
  <2>1. S = ({i} \cup {j}) \cup {k}
    BY <1>6
  <2>2. Works(s, b, {i} \cup {j})
    BY <1>7, <1>8, WorkAddsUp DEF WorksOn
  <2> QED BY <1>9, <2>1, <2>2, WorkAddsUp DEF WorksOn
<1>11. /\ c.images[i].layout = "color" /\ c.images[j].layout = "color" /\ c.images[k].layout = "depth"
       /\ \A m \in S : Has(c, m)
  <2>1. b.images[i] = a.images[i] /\ c.images[i] = b.images[i] /\ c.images[j] = b.images[j]
    BY <1>6, <1>7, <1>8, <1>9 DEF WorksOn, Works, Changes, Has
  <2>2. \A m \in S : Has(c, m)
    BY <1>6, <1>10 DEF Works, Changes, Has
  <2> QED BY <1>7, <1>8, <1>9, <2>1, <2>2 DEF There
<1>12. MayDraw(c, S)
  BY <1>6, <1>10, <1>11 DEF MayDraw, Works, Changes
<1>13. Works(c, t, S) /\ Drew(c, t, S, "clear", W)
  BY <1>1, <1>4, <1>12, DrawsInto
<1>14. Works(s, t, S)
  <2>1. S \cup S = S
    OBVIOUS
  <2> QED BY <1>10, <1>13, <2>1, WorkAddsUp
<1>15. \A m \in S : Has(t, m) /\ t.images[m].layout = c.images[m].layout /\ t.images[m].shows = W
  BY <1>11, <1>13 DEF Drew, Works, Changes, Has
<1>16. Rendered(t, set)
  BY <1>1, <1>5, <1>6, <1>11, <1>15 DEF Rendered, There
<1> QED BY <1>1, <1>4, <1>14, <1>16

\* The UI goes over what an image shows.
LEMMA UiDrawn ==
    ASSUME NEW s, Stands(s), NEW i, There(s, i, "color"), NEW what,
           NEW t, t = RunOne(s, UiPass(i, what))
    PROVE  /\ WorksOn(s, t, i) /\ There(t, i, "color")
           /\ \A W : Shown(s, i, W) => Shown(t, i, {Ui(what)} \cup W)
<1>1. PICK S, P : S = {i} /\ P = {Ui(what)}
  OBVIOUS
<1>2. MayDraw(s, S)
  BY <1>1 DEF MayDraw, There
<1>3. t = RunOne(s, Pass(S, "load", {}, P))
  BY <1>1 DEF UiPass
<1>4. Works(s, t, S) /\ Drew(s, t, S, "load", P)
  BY <1>2, <1>3, DrawsInto
<1>5. t.images[i].layout = "color" /\ t.images[i].shows = P \cup s.images[i].shows
  BY <1>1, <1>4 DEF Drew, There
<1> QED BY <1>1, <1>4, <1>5 DEF WorksOn, Works, Changes, There, Has, Shown

\* A frame ends with the scene under the panels, ready to be presented.
LEMMA FrameRecorded ==
    ASSUME NEW s, NEW n, MayRender(s, Main(n)), NEW t, t = After(s, RecordFrame(n))
    PROVE  /\ Works(s, t, Targets(Main(n))) /\ There(t, Screen(n), "present")
           /\ Shown(t, Screen(n), {Mesh, Ui("panels")})
<1>1. PICK i, x, y : i = Screen(n) /\ x = UiPass(i, "panels") /\ y = Barrier(i, "color", "present")
  OBVIOUS
<1>2. RecordFrame(n) = MeshPass(Main(n)) \o <<x, y>> /\ Main(n).color = i /\ i \in Targets(Main(n))
  BY <1>1 DEF RecordFrame, Main, Targets
<1>3. PICK a, b : a = After(s, MeshPass(Main(n))) /\ b = RunOne(a, x)
  OBVIOUS
<1>4. Works(s, a, Targets(Main(n))) /\ Rendered(a, Main(n)) /\ List(MeshPass(Main(n)))
  BY <1>3, MeshDrawn
<1>5. t = RunOne(b, y)
  <2>1. List(<<x, y>>) /\ After(a, <<x, y>>) = RunOne(b, y)
    BY <1>3, AfterTwo
  <2> QED BY <1>2, <1>3, <1>4, <2>1, AfterBoth
<1>6. There(a, i, "color") /\ Shown(a, i, {Mesh}) /\ Stands(a)
  BY <1>2, <1>4 DEF Rendered, Shown, Works, Changes
<1>7. WorksOn(a, b, i) /\ There(b, i, "color") /\ Shown(b, i, {Ui("panels")} \cup {Mesh})
  <2>1. PICK W : W = {Mesh}
    OBVIOUS
  <2> QED BY <1>1, <1>3, <1>6, <2>1, UiDrawn
<1>8. WorksOn(b, t, i) /\ There(t, i, "present") /\ SameShown(b, i, t, i)
  <2>1. MayTurn(b, i, "color") /\ "color" # "undefined"
    BY <1>7 DEF MayTurn, There, WorksOn, Works, Changes
  <2> QED BY <1>1, <1>5, <2>1, Turns
<1>9. Works(s, t, Targets(Main(n)))
  <2>1. PICK S : S = Targets(Main(n)) /\ (S \cup {i}) \cup {i} = S
    BY <1>2
  <2>2. Works(s, b, S \cup {i})
    BY <1>4, <1>7, <2>1, WorkAddsUp DEF WorksOn
  <2>3. Works(s, t, (S \cup {i}) \cup {i})
    BY <1>8, <2>2, WorkAddsUp DEF WorksOn
  <2> QED BY <2>1, <2>3
<1>10. t.images[i].shows = {Mesh, Ui("panels")}
  BY <1>7, <1>8 DEF SameShown, Shown
<1> QED BY <1>1, <1>8, <1>9, <1>10 DEF Shown

\* The screen is copied, and ready to be presented as before.
ScreenCopied(s, t, i) ==
    /\ Changes(s, t, {i}) /\ There(t, i, "present") /\ SameShown(s, i, t, i)
    /\ t.staged = s.images[i].shows /\ t.broken = s.broken \cup Usage(s, i)
LEMMA ScreenSaved ==
    ASSUME NEW s, Stands(s), NEW n, There(s, Screen(n), "present"),
           NEW t, t = After(s, CaptureFramebuffer(n))
    PROVE  ScreenCopied(s, t, Screen(n))
<1>1. PICK i, x, y, z : /\ i = Screen(n) /\ x = Barrier(i, "present", "source") /\ y = Copy(i)
                        /\ z = Barrier(i, "source", "present")
  OBVIOUS
<1>2. PICK a, b : a = RunOne(s, x) /\ b = RunOne(a, y) /\ t = RunOne(b, z)
  <2>1. CaptureFramebuffer(n) = <<x, y, z>>
    BY <1>1 DEF CaptureFramebuffer
  <2> QED BY <2>1, AfterThree
<1>3. WorksOn(s, a, i) /\ There(a, i, "source") /\ SameShown(s, i, a, i)
  <2>1. MayTurn(s, i, "present") /\ "present" # "undefined"
    BY <1>1 DEF MayTurn, There
  <2> QED BY <1>1, <1>2, <2>1, Turns
<1>4. Copied(a, b, i)
  <2>1. Stands(a)
    BY <1>3 DEF WorksOn, Works, Changes
  <2> QED BY <1>1, <1>2, <1>3, <2>1, Copies
<1>5. WorksOn(b, t, i) /\ There(t, i, "present") /\ SameShown(b, i, t, i)
  <2>1. MayTurn(b, i, "source") /\ "source" # "undefined"
    BY <1>3, <1>4 DEF MayTurn, There, Has, Copied, Changes
  <2> QED BY <1>1, <1>2, <2>1, Turns
<1>6. Changes(s, t, {i})
  BY <1>3, <1>4, <1>5 DEF WorksOn, Works, Copied, Changes
<1>7. Usage(a, i) = Usage(s, i) /\ b.images[i].shows = s.images[i].shows
  BY <1>3, <1>4 DEF WorksOn, Works, Copied, Changes, Usage, There, Has, SameShown
<1> QED BY <1>1, <1>3, <1>4, <1>5, <1>6, <1>7 DEF ScreenCopied, Copied, WorksOn, Works, SameShown

\* What a bake shows is the mesh, with the camera of now.
Baked(s, t, S, W) == Changes(s, t, S) /\ t.broken = s.broken /\ t.staged = W
LEMMA MeshIsBaked ==
    ASSUME NEW s, MayRender(s, Thumb), s.images[Thumb.color].copyable, NEW t, t = After(s, BakeMesh)
    PROVE  Baked(s, t, Targets(Thumb), {Mesh})
<1>1. PICK i, x, y, S : /\ i = Thumb.color /\ x = Barrier(i, "color", "source") /\ y = Copy(i)
                        /\ S = Targets(Thumb)
  OBVIOUS
<1>2. BakeMesh = MeshPass(Thumb) \o <<x, y>> /\ i \in S
  BY <1>1 DEF BakeMesh, Targets
<1>3. PICK a, b : a = After(s, MeshPass(Thumb)) /\ b = RunOne(a, x)
  OBVIOUS
<1>4. Works(s, a, S) /\ Rendered(a, Thumb) /\ List(MeshPass(Thumb))
  BY <1>1, <1>3, MeshDrawn
<1>5. t = RunOne(b, y)
  <2>1. List(<<x, y>>) /\ After(a, <<x, y>>) = RunOne(b, y)
    BY <1>3, AfterTwo
  <2> QED BY <1>2, <1>3, <1>4, <2>1, AfterBoth
<1>6. There(a, i, "color") /\ a.images[i].shows = {Mesh} /\ Stands(a) /\ a.images[i].copyable
  <2>1. There(a, i, "color") /\ Has(s, i)
    BY <1>1, <1>2, <1>4 DEF Rendered, MayRender
  <2>2. a.images[i].shows = {Mesh}
    BY <1>1, <1>2, <1>4 DEF Rendered
  <2> QED BY <1>1, <1>4, <2>1, <2>2 DEF Works, Changes, Has
<1>7. WorksOn(a, b, i) /\ There(b, i, "source") /\ SameShown(a, i, b, i)
  <2>1. MayTurn(a, i, "color") /\ "color" # "undefined"
    BY <1>6 DEF MayTurn, There
  <2> QED BY <1>1, <1>3, <2>1, Turns
<1>8. Copied(b, t, i)
  <2>1. Stands(b)
    BY <1>7 DEF WorksOn, Works, Changes
  <2> QED BY <1>1, <1>5, <1>7, <2>1, Copies
<1>9. b.images[i].shows = {Mesh} /\ Usage(b, i) = {}
  BY <1>6, <1>7 DEF SameShown, Usage, WorksOn, Works, Changes, There, Has
<1>10. Changes(s, t, S)
  BY <1>2, <1>4, <1>7, <1>8 DEF WorksOn, Works, Copied, Changes
<1> QED BY <1>1, <1>4, <1>7, <1>8, <1>9, <1>10 DEF Baked, Copied, WorksOn, Works

\* The golden images hold the mesh, to be copied.
Golds(t, W) ==
    /\ There(t, Golden.color, "source") /\ There(t, Golden.depth, "source")
    /\ Shown(t, Golden.color, W) /\ Shown(t, Golden.depth, W)
LEMMA GoldensDrawn ==
    ASSUME NEW s, MayRender(s, Golden), NEW t, t = After(s, RenderSkinnedMesh)
    PROVE  Works(s, t, Targets(Golden)) /\ Golds(t, {Mesh})
<1>1. PICK i, k, x, y, S : /\ i = Golden.color /\ k = Golden.depth /\ x = Barrier(i, "color", "source")
                           /\ y = Barrier(k, "depth", "source") /\ S = Targets(Golden)
  OBVIOUS
<1>2. RenderSkinnedMesh = MeshPass(Golden) \o <<x, y>> /\ i \in S /\ k \in S /\ i # k
  BY <1>1 DEF RenderSkinnedMesh, Targets, MayRender, Set
<1>3. PICK a, b : a = After(s, MeshPass(Golden)) /\ b = RunOne(a, x)
  OBVIOUS
<1>4. Works(s, a, S) /\ Rendered(a, Golden) /\ List(MeshPass(Golden))
  BY <1>1, <1>3, MeshDrawn
<1>5. t = RunOne(b, y)
  <2>1. List(<<x, y>>) /\ After(a, <<x, y>>) = RunOne(b, y)
    BY <1>3, AfterTwo
  <2> QED BY <1>2, <1>3, <1>4, <2>1, AfterBoth
<1>6. /\ There(a, i, "color") /\ There(a, k, "depth") /\ Stands(a)
      /\ a.images[i].shows = {Mesh} /\ a.images[k].shows = {Mesh}
  <2>1. There(a, i, "color") /\ There(a, k, "depth")
    BY <1>1, <1>4 DEF Rendered
  <2>2. a.images[i].shows = {Mesh} /\ a.images[k].shows = {Mesh}
    BY <1>1, <1>2, <1>4 DEF Rendered
  <2> QED BY <1>4, <2>1, <2>2 DEF Works, Changes
<1>7. WorksOn(a, b, i) /\ There(b, i, "source") /\ SameShown(a, i, b, i)
  <2>1. MayTurn(a, i, "color") /\ "color" # "undefined"
    BY <1>6 DEF MayTurn, There
  <2> QED BY <1>1, <1>3, <2>1, Turns
<1>8. /\ There(b, k, "depth") /\ Stands(b) /\ b.images[k].shows = {Mesh}
      /\ b.images[i].shows = {Mesh}
  BY <1>2, <1>6, <1>7 DEF WorksOn, Works, Changes, There, Has, SameShown
<1>9. WorksOn(b, t, k) /\ There(t, k, "source") /\ SameShown(b, k, t, k)
  <2>1. MayTurn(b, k, "depth") /\ "depth" # "undefined"
    BY <1>8 DEF MayTurn, There
  <2> QED BY <1>1, <1>5, <2>1, Turns
<1>10. t.images[i] = b.images[i] /\ Has(t, i)
  BY <1>2, <1>7, <1>9 DEF WorksOn, Works, Changes, There, Has
<1>11. Works(s, t, S)
  <2>1. (S \cup {i}) \cup {k} = S
    BY <1>2
  <2>2. Works(s, b, S \cup {i})
    BY <1>4, <1>7, WorkAddsUp DEF WorksOn
  <2>3. Works(s, t, (S \cup {i}) \cup {k})
    BY <1>9, <2>2, WorkAddsUp DEF WorksOn
  <2> QED BY <2>1, <2>3
<1> QED BY <1>1, <1>7, <1>8, <1>9, <1>10, <1>11 DEF Golds, There, Shown, SameShown

\* The golden image is wiped and the UI drawn over nothing.
LEMMA OverlayDrawn ==
    ASSUME NEW s, Stands(s), There(s, Golden.color, "source"), NEW t, t = After(s, RenderImGuiOverlay)
    PROVE  /\ WorksOn(s, t, Golden.color) /\ There(t, Golden.color, "source")
           /\ Shown(t, Golden.color, {Ui("golden")})
<1>1. PICK i, S, x, y, z, w :
          /\ i = Golden.color /\ S = {i} /\ x = Barrier(i, "source", "color")
          /\ y = Pass(S, "clear", {}, {}) /\ z = UiPass(i, "golden") /\ w = Barrier(i, "color", "source")
  OBVIOUS
<1>2. RenderImGuiOverlay = <<x, y>> \o <<z, w>>
  BY <1>1 DEF RenderImGuiOverlay
<1>3. PICK a, b, c : a = RunOne(s, x) /\ b = RunOne(a, y) /\ c = RunOne(b, z)
  OBVIOUS
<1>4. t = RunOne(c, w)
  <2>1. List(<<x, y>>) /\ List(<<z, w>>) /\ After(s, <<x, y>>) = b
    BY <1>3, AfterTwo
  <2>2. After(b, <<z, w>>) = RunOne(c, w)
    BY <1>3, AfterTwo
  <2> QED BY <1>2, <2>1, <2>2, AfterBoth
<1>5. WorksOn(s, a, i) /\ There(a, i, "color")
  <2>1. MayTurn(s, i, "source")
    BY <1>1 DEF MayTurn, There
  <2> QED BY <1>1, <1>3, <2>1, Turns
<1>6. WorksOn(a, b, i) /\ There(b, i, "color") /\ Shown(b, i, {}) /\ Stands(b)
  <2>1. MayDraw(a, S)
    BY <1>1, <1>5 DEF MayDraw, There, WorksOn, Works, Changes
  <2>2. PICK N : N = {} /\ b = RunOne(a, Pass(S, "clear", {}, N))
    BY <1>1, <1>3
  <2>3. Works(a, b, S) /\ Drew(a, b, S, "clear", N)
    BY <2>1, <2>2, DrawsInto
  <2>4. b.images[i].layout = a.images[i].layout /\ b.images[i].shows = {}
    BY <1>1, <2>2, <2>3 DEF Drew
  <2> QED BY <1>1, <1>5, <2>3, <2>4 DEF WorksOn, Works, Changes, There, Has, Shown
<1>7. WorksOn(b, c, i) /\ There(c, i, "color") /\ Shown(c, i, {Ui("golden")} \cup {})
  <2>1. PICK W : W = {}
    OBVIOUS
  <2> QED BY <1>1, <1>3, <1>6, <2>1, UiDrawn
<1>8. WorksOn(c, t, i) /\ There(t, i, "source") /\ SameShown(c, i, t, i)
  <2>1. MayTurn(c, i, "color") /\ "color" # "undefined"
    BY <1>7 DEF MayTurn, There, WorksOn, Works, Changes
  <2> QED BY <1>1, <1>4, <2>1, Turns
<1>9. WorksOn(s, t, i)
  BY <1>5, <1>6, <1>7, <1>8 DEF WorksOn, Works, Changes
<1>10. t.images[i].shows = {Ui("golden")}
  BY <1>7, <1>8 DEF Shown, SameShown
<1> QED BY <1>1, <1>8, <1>9, <1>10 DEF Shown

\* The levels of a texture.
Mips(levels) == {Mip(l) : l \in 1 .. levels}
MayLoad(s, levels) ==
    /\ levels \in Nat \ {0} /\ Stands(s)
    /\ \A l \in 1 .. levels : Has(s, Mip(l)) /\ s.images[Mip(l)].copyable
Turning(levels) == [l \in 1 .. levels |-> Barrier(Mip(l), "undefined", "destination")]

LEMMA MipsDiffer == \A l, m : Mip(l) = Mip(m) => l = m
BY DEF Mip

LEMMA LevelsTurned ==
    ASSUME NEW levels, NEW s, MayLoad(s, levels), NEW t, t = After(s, Turning(levels))
    PROVE  /\ Works(s, t, Mips(levels)) /\ List(Turning(levels))
           /\ \A l \in 1 .. levels : There(t, Mip(l), "destination")
<1>1. PICK work : work = Turning(levels)
  OBVIOUS
<1>2. levels \in Nat \ {0}
  BY DEF MayLoad
<1>3. /\ work \in Seq({work[l] : l \in 1 .. levels}) /\ Len(work) = levels
      /\ \A l \in 1 .. levels : work[l] = Barrier(Mip(l), "undefined", "destination")
  BY <1>1, <1>2 DEF Turning
<1>4. PICK a : RunsThrough(a, s, work) /\ After(s, work) = a[levels]
  BY <1>2, <1>3, RunsAre
<1> DEFINE At(n) == /\ Works(s, a[n], Mips(levels))
                    /\ \A l \in 1 .. n : There(a[n], Mip(l), "destination")
           wrong == {n \in 0 .. levels : ~At(n)}
<1>5. At(0)
  <2>1. a[0] = s
    BY <1>4 DEF RunsThrough
  <2> QED BY <2>1 DEF Works, Changes, MayLoad
<1>6. ASSUME NEW n \in 1 .. levels, At(n - 1) PROVE At(n)
  <2>1. PICK c, d, i, S : c = a[n - 1] /\ d = a[n] /\ i = Mip(n) /\ S = Mips(levels)
    OBVIOUS
  <2>2. Works(s, c, S) /\ (\A l \in 1 .. n - 1 : There(c, Mip(l), "destination")) /\ i \in S
    BY <1>6, <2>1 DEF Mips
  <2>3. d = RunOne(c, Barrier(i, "undefined", "destination"))
    BY <1>3, <1>4, <2>1 DEF RunsThrough
  <2>4. WorksOn(c, d, i) /\ There(d, i, "destination")
    <3>1. MayTurn(c, i, "undefined")
      BY <2>1, <2>2 DEF MayTurn, MayLoad, Works, Changes, Has
    <3> QED BY <2>3, <3>1, Turns
  <2>5. Works(s, d, S)
    <3>1. S \cup {i} = S
      BY <2>2
    <3> QED BY <2>2, <2>4, <3>1, WorkAddsUp DEF WorksOn
  <2>6. ASSUME NEW l \in 1 .. n PROVE There(d, Mip(l), "destination")
    <3>1. CASE l = n
      BY <2>1, <2>4, <3>1
    <3>2. CASE l # n
      <4>1. l \in 1 .. n - 1 /\ Mip(l) # i
        BY <1>2, <2>1, <3>2, MipsDiffer
      <4> QED BY <2>2, <2>4, <4>1 DEF WorksOn, Works, Changes, There, Has
    <3> QED BY <3>1, <3>2
  <2> QED BY <2>1, <2>5, <2>6
<1> HIDE DEF At
<1>7. wrong = {}
  <2> SUFFICES ASSUME wrong # {} PROVE FALSE
    OBVIOUS
  <2> wrong \in SUBSET Nat
    BY <1>2
  <2>1. PICK m \in wrong : \A x \in wrong : m <= x
    <3> HIDE DEF wrong
    <3> QED BY LeastOf
  <2>2. m \in 1 .. levels /\ ~At(m) /\ m - 1 \in 0 .. levels
    BY <1>2, <1>5, <2>1
  <2>3. m - 1 \notin wrong
    <3>1. ~(m <= m - 1)
      BY <2>2
    <3> HIDE DEF wrong
    <3> QED BY <2>1, <3>1
  <2> QED BY <1>6, <2>2, <2>3
<1>8. At(levels)
  BY <1>2, <1>7
<1>9. t = a[levels] /\ List(work)
  BY <1>1, <1>3, <1>4 DEF List
<1> QED BY <1>1, <1>8, <1>9 DEF At

\* A level is made of the one before, which can be read from then on.
Halving(i, j) == << Barrier(i, "destination", "source"), Blit(i, j), Barrier(i, "source", "sampled") >>
MayHalve(s, i, j) == MayFill(s, i) /\ MayFill(s, j) /\ i # j /\ s.images[i].copyable
WorksOnBoth(s, t, i, j) == Works(s, t, {i, j})
LEMMA LevelHalved ==
    ASSUME NEW s, NEW i, NEW j, MayHalve(s, i, j), NEW t, t = After(s, Halving(i, j))
    PROVE  /\ WorksOnBoth(s, t, i, j) /\ There(t, i, "sampled") /\ There(t, j, "destination")
           /\ SameShown(s, i, t, i) /\ SameShown(s, i, t, j) /\ List(Halving(i, j))
<1>1. PICK x, y, z : /\ x = Barrier(i, "destination", "source") /\ y = Blit(i, j)
                     /\ z = Barrier(i, "source", "sampled")
  OBVIOUS
<1>2. PICK a, b : a = RunOne(s, x) /\ b = RunOne(a, y) /\ t = RunOne(b, z) /\ List(Halving(i, j))
  BY <1>1, AfterThree DEF Halving
<1>3. WorksOn(s, a, i) /\ There(a, i, "source") /\ SameShown(s, i, a, i)
  <2>1. MayTurn(s, i, "destination") /\ "destination" # "undefined"
    BY DEF MayHalve, MayFill, MayTurn, There
  <2> QED BY <1>1, <1>2, <2>1, Turns
<1>4. MayBlit(a, i, j)
  BY <1>3 DEF MayBlit, MayHalve, MayFill, WorksOn, Works, Changes, There, Has
<1>5. WorksOn(a, b, j) /\ There(b, j, "destination") /\ SameShown(a, i, b, j)
  BY <1>1, <1>2, <1>4, Blits
<1>6. i # j /\ Has(s, i) /\ Has(s, j) /\ Has(a, i) /\ Has(a, j) /\ Has(b, i) /\ Has(b, j)
  BY <1>3, <1>5 DEF MayHalve, MayFill, WorksOn, Works, Changes, There, Has
<1>7. b.images[i] = a.images[i] /\ Stands(b)
  BY <1>5, <1>6 DEF WorksOn, Works, Changes, Has
<1>8. WorksOn(b, t, i) /\ There(t, i, "sampled") /\ SameShown(b, i, t, i)
  <2>1. MayTurn(b, i, "source") /\ "source" # "undefined"
    BY <1>3, <1>6, <1>7 DEF MayTurn, There
  <2> QED BY <1>1, <1>2, <2>1, Turns
<1>9. t.images[j] = b.images[j] /\ Has(t, j)
  BY <1>6, <1>8 DEF WorksOn, Works, Changes, Has
<1>10. WorksOnBoth(s, t, i, j)
  BY <1>3, <1>5, <1>8 DEF WorksOnBoth, WorksOn, Works, Changes
<1> QED BY <1>2, <1>3, <1>5, <1>7, <1>8, <1>9, <1>10 DEF There, SameShown

\* All levels, from the first, which shows the picture.
Halvings(levels) == FlattenSeq([l \in 1 .. levels - 1 |-> Halving(Mip(l), Mip(l + 1))])
LEMMA LevelsFilled ==
    ASSUME NEW levels, NEW s, MayLoad(s, levels), \A l \in 1 .. levels : There(s, Mip(l), "destination"),
           NEW W, Shown(s, Mip(1), W), NEW t, t = After(s, Halvings(levels))
    PROVE  /\ Works(s, t, Mips(levels)) /\ List(Halvings(levels)) /\ Shown(t, Mip(1), W)
           /\ levels = 1 \/ There(t, Mip(1), "sampled")
           /\ There(t, Mip(levels), "destination")
<1>1. PICK seqs : seqs = [l \in 1 .. levels - 1 |-> Halving(Mip(l), Mip(l + 1))]
  OBVIOUS
<1>2. levels \in Nat \ {0} /\ levels - 1 \in Nat
  BY DEF MayLoad
<1>3. /\ seqs \in Seq({seqs[l] : l \in 1 .. levels - 1}) /\ Len(seqs) = levels - 1
      /\ \A l \in 1 .. levels - 1 : seqs[l] = Halving(Mip(l), Mip(l + 1))
  <2>1. PICK m \in Nat : m = levels - 1
    BY <1>2
  <2>2. DOMAIN seqs = 1 .. m /\ seqs = [l \in 1 .. m |-> seqs[l]]
    BY <1>1, <2>1
  <2>3. seqs \in Seq({seqs[l] : l \in 1 .. m}) /\ Len(seqs) = m
    BY <2>2
  <2>4. \A l \in 1 .. levels - 1 : seqs[l] = Halving(Mip(l), Mip(l + 1))
    BY <1>1
  <2> QED BY <2>1, <2>3, <2>4
<1>4. ASSUME NEW l \in 1 .. levels - 1 PROVE List(seqs[l])
  <2>1. \A i, j : List(Halving(i, j))
    BY AfterThree DEF Halving
  <2> QED BY <1>3, <2>1
<1>5. PICK b : /\ b[0] = s /\ After(s, FlattenSeq(seqs)) = b[Len(seqs)]
               /\ \A n \in 1 .. Len(seqs) : b[n] = After(b[n - 1], seqs[n])
               /\ List(FlattenSeq(seqs))
  <2>1. PICK T : seqs \in Seq(T)
    BY <1>3
  <2>2. \A l \in 1 .. Len(seqs) : List(seqs[l])
    BY <1>3, <1>4
  <2> QED BY <2>1, <2>2, FlattenRuns
<1> DEFINE At(n) == /\ Works(s, b[n], Mips(levels))
                    /\ Shown(b[n], Mip(1), W) /\ Shown(b[n], Mip(n + 1), W)
                    /\ n = 0 \/ There(b[n], Mip(1), "sampled")
                    /\ \A l \in n + 1 .. levels : There(b[n], Mip(l), "destination")
           wrong == {n \in 0 .. levels - 1 : ~At(n)}
<1>6. At(0)
  <2>1. Works(s, s, Mips(levels)) /\ 0 + 1 = 1
    BY DEF Works, Changes, MayLoad
  <2> QED BY <1>5, <2>1
<1>7. ASSUME NEW n \in 1 .. levels - 1, At(n - 1) PROVE At(n)
  <2>1. PICK c, d, i, j, S : /\ c = b[n - 1] /\ d = b[n] /\ i = Mip(n) /\ j = Mip(n + 1)
                             /\ S = Mips(levels)
    OBVIOUS
  <2>2. /\ n \in Nat \ {0} /\ (n - 1) + 1 = n /\ n \in n .. levels /\ n + 1 \in n .. levels
        /\ n \in 1 .. levels /\ n + 1 \in 1 .. levels /\ (n - 1 = 0 => n = 1)
    BY <1>2
  <2>3. /\ Works(s, c, S) /\ Shown(c, Mip(1), W) /\ Shown(c, i, W)
        /\ n = 1 \/ There(c, Mip(1), "sampled")
        /\ \A l \in n .. levels : There(c, Mip(l), "destination")
    BY <1>7, <2>1, <2>2
  <2>4. d = After(c, Halving(i, j))
    BY <1>3, <1>5, <2>1
  <2>5. i \in S /\ j \in S /\ i # j /\ There(c, i, "destination") /\ There(c, j, "destination")
    BY <2>1, <2>2, <2>3, MipsDiffer DEF Mips
  <2>6. MayHalve(c, i, j)
    BY <2>1, <2>2, <2>3, <2>5 DEF MayHalve, MayFill, MayLoad, Works, Changes, There, Has
  <2>7. /\ WorksOnBoth(c, d, i, j) /\ There(d, i, "sampled") /\ There(d, j, "destination")
        /\ SameShown(c, i, d, i) /\ SameShown(c, i, d, j)
    BY <2>4, <2>6, LevelHalved
  <2>8. Works(s, d, S)
    <3>1. S \cup {i, j} = S
      BY <2>5
    <3> QED BY <2>3, <2>7, <3>1, WorkAddsUp DEF WorksOnBoth
  <2>9. Shown(d, i, W) /\ Shown(d, j, W)
    BY <2>3, <2>7 DEF Shown, SameShown
  <2>10. Shown(d, Mip(1), W) /\ There(d, Mip(1), "sampled")
    <3>1. CASE n = 1
      BY <2>1, <2>7, <2>9, <3>1
    <3>2. CASE n # 1
      <4>1. Mip(1) # i /\ Mip(1) # j
        BY <2>1, <2>2, <3>2, MipsDiffer
      <4>2. Has(c, Mip(1)) /\ There(c, Mip(1), "sampled")
        BY <2>3, <3>2 DEF There
      <4>3. d.images[Mip(1)] = c.images[Mip(1)] /\ Has(d, Mip(1))
        BY <2>7, <4>1, <4>2 DEF WorksOnBoth, Works, Changes, Has
      <4> QED BY <2>3, <4>2, <4>3 DEF Shown, There
    <3> QED BY <3>1, <3>2
  <2>11. ASSUME NEW l \in n + 1 .. levels PROVE There(d, Mip(l), "destination")
    <3>1. CASE l = n + 1
      BY <2>1, <2>7, <3>1
    <3>2. CASE l # n + 1
      <4>1. l \in n .. levels /\ Mip(l) # i /\ Mip(l) # j
        BY <1>2, <2>1, <2>2, <3>2, MipsDiffer
      <4> QED BY <2>3, <2>7, <4>1 DEF WorksOnBoth, Works, Changes, There, Has
    <3> QED BY <3>1, <3>2
  <2> QED BY <2>1, <2>8, <2>9, <2>10, <2>11
<1> HIDE DEF At
<1>8. wrong = {}
  <2> SUFFICES ASSUME wrong # {} PROVE FALSE
    OBVIOUS
  <2> wrong \in SUBSET Nat
    BY <1>2
  <2>1. PICK m \in wrong : \A x \in wrong : m <= x
    <3> HIDE DEF wrong
    <3> QED BY LeastOf
  <2>2. m \in 1 .. levels - 1 /\ ~At(m) /\ m - 1 \in 0 .. levels - 1
    BY <1>2, <1>6, <2>1
  <2>3. m - 1 \notin wrong
    <3>1. ~(m <= m - 1)
      BY <2>2
    <3> HIDE DEF wrong
    <3> QED BY <2>1, <3>1
  <2> QED BY <1>7, <2>2, <2>3
<1>9. At(levels - 1)
  <2>1. levels - 1 \in 0 .. levels - 1
    BY <1>2
  <2> QED BY <1>8, <2>1
<1>10. /\ t = b[levels - 1] /\ List(Halvings(levels)) /\ (levels - 1) + 1 = levels
       /\ levels \in levels .. levels /\ (levels - 1 = 0 => levels = 1)
  BY <1>1, <1>2, <1>3, <1>5 DEF Halvings
<1> QED BY <1>9, <1>10 DEF At

\* A loaded texture shows its picture.
LEMMA TextureLoaded ==
    ASSUME NEW levels, NEW s, MayLoad(s, levels), NEW p, NEW t, t = After(s, LoadTexture(p, levels))
    PROVE  /\ Works(s, t, Mips(levels)) /\ There(t, Mip(1), "sampled")
           /\ Shown(t, Mip(1), {<<"texture", p>>}) /\ List(LoadTexture(p, levels))
<1>1. PICK x, z, S, W, i, k :
          /\ x = Upload(i, W) /\ z = Barrier(k, "destination", "sampled") /\ S = Mips(levels)
          /\ W = {<<"texture", p>>} /\ i = Mip(1) /\ k = Mip(levels)
  OBVIOUS
<1>2. PICK u, v : u = Turning(levels) /\ v = Halvings(levels)
  OBVIOUS
<1>3. LoadTexture(p, levels) = ((u \o <<x>>) \o v) \o <<z>>
  BY <1>1, <1>2 DEF LoadTexture, Turning, Halvings, Halving
<1>4. levels \in Nat \ {0} /\ 1 \in 1 .. levels /\ levels \in 1 .. levels
  BY DEF MayLoad
<1>5. i \in S /\ k \in S
  BY <1>1, <1>4 DEF Mips
<1>6. PICK a : a = After(s, u)
  OBVIOUS
<1>7. Works(s, a, S) /\ List(u) /\ \A l \in 1 .. levels : There(a, Mip(l), "destination")
  BY <1>1, <1>2, <1>6, LevelsTurned
<1>8. PICK b : b = RunOne(a, x)
  OBVIOUS
<1>9. WorksOn(a, b, i) /\ There(b, i, "destination") /\ Shown(b, i, W)
  <2>1. MayFill(a, i)
    BY <1>1, <1>4, <1>7 DEF MayFill, Works, Changes
  <2> QED BY <1>1, <1>8, <2>1, Uploads
<1>10. After(s, u \o <<x>>) = b /\ List(u \o <<x>>)
  <2>1. After(a, <<x>>) = b /\ List(<<x>>)
    BY <1>8, AfterOne
  <2> QED BY <1>6, <1>7, <2>1, AfterBoth
<1>11. ASSUME NEW l \in 1 .. levels PROVE There(b, Mip(l), "destination")
  BY <1>7, <1>9 DEF WorksOn, Works, Changes, There, Has
<1>12. Works(s, b, S)
  <2>1. S \cup {i} = S
    BY <1>5
  <2> QED BY <1>7, <1>9, <2>1, WorkAddsUp DEF WorksOn
<1>13. MayLoad(b, levels)
  BY <1>12 DEF MayLoad, Works, Changes, Has
<1>14. PICK c : c = After(b, v)
  OBVIOUS
<1>15. /\ Works(b, c, S) /\ List(v) /\ Shown(c, i, W)
       /\ levels = 1 \/ There(c, i, "sampled")
       /\ There(c, k, "destination")
  <2>1. Shown(b, Mip(1), W) /\ c = After(b, Halvings(levels))
    BY <1>1, <1>2, <1>9, <1>14
  <2> QED BY <1>1, <1>2, <1>11, <1>13, <2>1, LevelsFilled
<1>16. Works(s, c, S)
  <2>1. S \cup S = S
    OBVIOUS
  <2> QED BY <1>12, <1>15, <2>1, WorkAddsUp
<1>17. After(s, (u \o <<x>>) \o v) = c /\ List((u \o <<x>>) \o v)
  BY <1>10, <1>14, <1>15, AfterBoth
<1>18. t = RunOne(c, z) /\ List(LoadTexture(p, levels))
  <2>1. PICK q, r : q = (u \o <<x>>) \o v /\ r = <<z>>
    OBVIOUS
  <2>2. After(c, r) = RunOne(c, z) /\ List(r) /\ List(q) /\ After(s, q) = c
    BY <1>17, <2>1, AfterOne
  <2>3. After(s, q \o r) = RunOne(c, z) /\ List(q \o r)
    BY <2>2, AfterBoth
  <2> QED BY <1>3, <2>1, <2>3
<1>19. WorksOn(c, t, k) /\ There(t, k, "sampled") /\ SameShown(c, k, t, k)
  <2>1. MayTurn(c, k, "destination") /\ "destination" # "undefined"
    BY <1>15 DEF MayTurn, There, Works, Changes
  <2> QED BY <1>1, <1>18, <2>1, Turns
<1>20. Works(s, t, S)
  <2>1. S \cup {k} = S
    BY <1>5
  <2> QED BY <1>16, <1>19, <2>1, WorkAddsUp DEF WorksOn
<1>21. There(t, i, "sampled") /\ Shown(t, i, W)
  <2>1. CASE levels = 1
    BY <1>1, <1>15, <1>19, <2>1 DEF Shown, SameShown
  <2>2. CASE levels # 1
    <3>1. i # k
      BY <1>1, <2>2, MipsDiffer
    <3> QED BY <1>15, <1>19, <2>2, <3>1 DEF WorksOn, Works, Changes, There, Has, Shown
  <2> QED BY <2>1, <2>2
<1> QED BY <1>1, <1>18, <1>20, <1>21

\* A baked texture shows it too.
LEMMA TextureIsBaked ==
    ASSUME NEW levels, NEW s, MayLoad(s, levels), Has(s, BlitColor), s.images[BlitColor].copyable,
           NEW p, NEW t, t = After(s, LoadTexture(p, levels) \o BakeTexture)
    PROVE  Baked(s, t, Mips(levels) \cup {BlitColor}, {<<"texture", p>>})
<1>1. PICK i, j, S, W : i = Mip(1) /\ j = BlitColor /\ S = Mips(levels) /\ W = {<<"texture", p>>}
  OBVIOUS
<1>2. PICK v, w, x, y, z :
          /\ v = Barrier(i, "sampled", "source") /\ w = Barrier(j, "undefined", "destination")
          /\ x = Blit(i, j) /\ y = Barrier(j, "destination", "source") /\ z = Copy(j)
  OBVIOUS
<1>3. BakeTexture = <<v, w>> \o <<x, y, z>>
  BY <1>1, <1>2 DEF BakeTexture
<1>4. PICK a, b, c, d, e : /\ a = After(s, LoadTexture(p, levels)) /\ b = RunOne(a, v)
                           /\ c = RunOne(b, w) /\ d = RunOne(c, x) /\ e = RunOne(d, y)
  OBVIOUS
<1>5. /\ Works(s, a, S) /\ There(a, i, "sampled") /\ Shown(a, i, W)
      /\ List(LoadTexture(p, levels))
  BY <1>1, <1>4, TextureLoaded
<1>6. t = RunOne(e, z)
  <2>1. List(<<v, w>>) /\ After(a, <<v, w>>) = c
    BY <1>4, AfterTwo
  <2>2. List(<<x, y, z>>) /\ After(c, <<x, y, z>>) = RunOne(e, z)
    BY <1>4, AfterThree
  <2>3. After(a, BakeTexture) = RunOne(e, z) /\ List(BakeTexture)
    BY <1>3, <2>1, <2>2, AfterBoth
  <2> QED BY <1>4, <1>5, <2>3, AfterBoth
<1>7. i # j /\ i \in S /\ s.images[i].copyable /\ Has(s, i)
  <2>1. i # j
    BY <1>1 DEF Mip, BlitColor
  <2>2. 1 \in 1 .. levels
    BY DEF MayLoad
  <2> QED BY <1>1, <2>1, <2>2 DEF MayLoad, Mips
<1>8. WorksOn(a, b, i) /\ There(b, i, "source") /\ SameShown(a, i, b, i)
  <2>1. MayTurn(a, i, "sampled") /\ "sampled" # "undefined"
    BY <1>5 DEF MayTurn, There, Works, Changes
  <2> QED BY <1>2, <1>4, <2>1, Turns
<1>9. WorksOn(b, c, j) /\ There(c, j, "destination")
  <2>1. MayTurn(b, j, "undefined")
    BY <1>1, <1>5, <1>8 DEF MayTurn, WorksOn, Works, Changes, Has
  <2> QED BY <1>2, <1>4, <2>1, Turns
<1>10. There(c, i, "source") /\ Shown(c, i, W) /\ Stands(c) /\ c.images[i].copyable
  <2>1. Has(a, i) /\ a.images[i].copyable
    BY <1>5, <1>7 DEF Works, Changes, Has
  <2>2. b.images[i].copyable /\ Has(b, i) /\ b.images[i].shows = W
    BY <1>5, <1>8, <2>1 DEF WorksOn, Works, Changes, Has, Shown, SameShown
  <2>3. c.images[i] = b.images[i] /\ Has(c, i) /\ Stands(c)
    BY <1>7, <1>9, <2>2 DEF WorksOn, Works, Changes, Has
  <2> QED BY <1>8, <2>2, <2>3 DEF There, Shown
<1>11. WorksOn(c, d, j) /\ There(d, j, "destination") /\ SameShown(c, i, d, j)
  <2>1. MayBlit(c, i, j)
    BY <1>9, <1>10 DEF MayBlit, MayFill
  <2> QED BY <1>2, <1>4, <2>1, Blits
<1>12. WorksOn(d, e, j) /\ There(e, j, "source") /\ SameShown(d, j, e, j)
  <2>1. MayTurn(d, j, "destination") /\ "destination" # "undefined"
    BY <1>11 DEF MayTurn, There, WorksOn, Works, Changes
  <2> QED BY <1>2, <1>4, <2>1, Turns
<1>13. Copied(e, t, j)
  <2>1. Stands(e)
    BY <1>12 DEF WorksOn, Works, Changes
  <2> QED BY <1>2, <1>6, <1>12, <2>1, Copies
<1>14. Works(s, e, S \cup {j})
  <2>1. (((S \cup {i}) \cup {j}) \cup {j}) \cup {j} = S \cup {j}
    BY <1>7
  <2>2. Works(s, b, S \cup {i})
    BY <1>5, <1>8, WorkAddsUp DEF WorksOn
  <2>3. Works(s, c, (S \cup {i}) \cup {j})
    BY <1>9, <2>2, WorkAddsUp DEF WorksOn
  <2>4. Works(s, d, ((S \cup {i}) \cup {j}) \cup {j})
    BY <1>11, <2>3, WorkAddsUp DEF WorksOn
  <2>5. Works(s, e, (((S \cup {i}) \cup {j}) \cup {j}) \cup {j})
    BY <1>12, <2>4, WorkAddsUp DEF WorksOn
  <2> QED BY <2>1, <2>5
<1>15. Changes(s, t, S \cup {j})
  <2>1. Changes(s, e, S \cup {j}) /\ Changes(e, t, {})
    BY <1>13, <1>14 DEF Works, Copied
  <2>2. (S \cup {j}) \cup {} = S \cup {j}
    OBVIOUS
  <2> QED BY <2>1, <2>2, WorkAddsUp
<1>16. Usage(e, j) = {} /\ e.images[j].shows = W
  <2>1. e.images[j].copyable
    BY <1>1, <1>14 DEF Works, Changes, Has
  <2> QED BY <1>10, <1>11, <1>12, <2>1 DEF Usage, Shown, SameShown
<1> QED BY <1>1, <1>13, <1>14, <1>15, <1>16 DEF Baked, Copied, Works

\* Before the next list.
Now == [images |-> images, broken |-> {}, staged |-> {}]
AllImages ==
    {Screen(n) : n \in Swap} \cup Targets(Main(0)) \cup Targets(Thumb) \cup {BlitColor}
        \cup (IF run = "goldens" THEN Targets(Golden) ELSE {})
Copyable(S) == \A i \in S : images[i].copyable

LEMMA CaptureNames ==
    /\ Set(Thumb) /\ Set(Golden)
    /\ \A n : Set(Main(n)) /\ Targets(Main(n)) \subseteq {Screen(n)} \cup Targets(Main(0))
    /\ \A l : Mip(l) # BlitColor /\ Mip(l) \notin AllImages
    /\ {Thumb.color, BlitColor, Golden.color} \cap {Main(0).depth, Thumb.depth, Golden.depth} = {}
    /\ \A n : Screen(n) \notin {Thumb.color, BlitColor, Golden.color,
                               Main(0).depth, Thumb.depth, Golden.depth}
<1>1. Set(Thumb) /\ Set(Golden)
  BY DEF Set, Thumb, Golden
<1>2. ASSUME NEW n PROVE Set(Main(n)) /\ Targets(Main(n)) \subseteq {Screen(n)} \cup Targets(Main(0))
  BY DEF Set, Main, Screen, Targets
<1>3. ASSUME NEW l PROVE Mip(l) # BlitColor /\ Mip(l) \notin AllImages
  BY DEF Mip, BlitColor, AllImages, Targets, Main, Screen, Thumb, Golden
<1>4. /\ {Thumb.color, BlitColor, Golden.color} \cap {Main(0).depth, Thumb.depth, Golden.depth} = {}
      /\ \A n : Screen(n) \notin {Thumb.color, BlitColor, Golden.color,
                                 Main(0).depth, Thumb.depth, Golden.depth}
  BY DEF Thumb, BlitColor, Golden, Main, Screen
<1> QED BY <1>1, <1>2, <1>3, <1>4

\* All images are there, those to be copied may be, the camera is the one for
\* the stage, and what a stage has yet to copy is ready.
ImagesAre ==
    /\ DOMAIN images = AllImages /\ Stands(Now) /\ current \in Swap
    /\ Copyable({Thumb.color, BlitColor}) /\ (run = "goldens" => Copyable({Golden.color}))
CamerasAre ==
    /\ stage \in {"bake", "record", "presented"} => ubo = "user"
    /\ stage \in {"baking", "rendering"} => ubo = "fit"
ScreenIs ==
    stage = "presented" =>
        /\ There(Now, Screen(current), "present")
        /\ Shown(Now, Screen(current), {<<"mesh", "user">>, Ui("panels")})
GoldensAre ==
    /\ stage \in {"rendering", "mesh", "depth", "reference", "overlay", "imgui", "done", "failed"} =>
           run = "goldens"
    /\ stage \in {"mesh", "depth"} => Golds(Now, {<<"mesh", "fit">>})
    /\ stage \in {"reference", "overlay", "imgui"} => There(Now, Golden.color, "source")
    /\ stage = "imgui" => Shown(Now, Golden.color, {Ui("golden")})

\* The golden pictures written, of which a stage knows.
Written == {n \in DOMAIN pngs : n[1] = "golden"}
FirstGold == {<<"golden", "skinned_mesh">>}
SecondGold == FirstGold \cup {<<"golden", "shadow_pass">>}
ThirdGold == SecondGold \cup {<<"golden", "post_process">>}
AllGold == ThirdGold \cup {<<"golden", "imgui_layer">>}
NamesAre ==
    /\ stage \in {"wait", "bake", "baking", "record", "presented", "rendering", "mesh"} => Written = {}
    /\ stage = "depth" => Written = FirstGold
    /\ stage = "reference" => Written = SecondGold
    /\ stage \in {"overlay", "imgui"} => Written = ThirdGold
    /\ stage = "done" => Written = AllGold
PicturesMean == \A name \in DOMAIN pngs : pngs[name] = Meant(name)

CapturesInv ==
    /\ ImagesAre /\ CamerasAre /\ ScreenIs /\ GoldensAre /\ NamesAre
    /\ PicturesMean /\ broken \subseteq Uncopyable

\* What names mean.
LEMMA MeantIs ==
    /\ Meant(<<"thumb", "mesh">>) = {<<"mesh", "fit">>}
    /\ \A t \in Picture : Meant(<<"thumb", t>>) = {<<"texture", t>>}
    /\ Meant(<<"screen", "capture">>) = {<<"mesh", "user">>, Ui("panels")}
    /\ Meant(<<"golden", "post_process">>) = {<<"reference", 0>>}
    /\ Meant(<<"golden", "imgui_layer">>) = {Ui("golden")}
    /\ Meant(<<"golden", "skinned_mesh">>) = {<<"mesh", "fit">>}
    /\ Meant(<<"golden", "shadow_pass">>) = {<<"mesh", "fit">>}
<1>1. Meant(<<"thumb", "mesh">>) = {<<"mesh", "fit">>}
  BY DEF Meant
<1>2. ASSUME NEW t \in Picture PROVE Meant(<<"thumb", t>>) = {<<"texture", t>>}
  BY CapturesAssumption DEF Meant
<1>3. Meant(<<"screen", "capture">>) = {<<"mesh", "user">>, Ui("panels")}
  BY DEF Meant
<1>4. /\ Meant(<<"golden", "post_process">>) = {<<"reference", 0>>}
      /\ Meant(<<"golden", "imgui_layer">>) = {Ui("golden")}
  BY DEF Meant
<1>5. /\ Meant(<<"golden", "skinned_mesh">>) = {<<"mesh", "fit">>}
      /\ Meant(<<"golden", "shadow_pass">>) = {<<"mesh", "fit">>}
  BY DEF Meant
<1> QED BY <1>1, <1>2, <1>3, <1>4, <1>5

\* A picture that shows what it is to show is written.
LEMMA PictureWritten ==
    ASSUME PicturesMean, NEW name, NEW what, Wrote(name, what), what = Meant(name)
    PROVE  /\ PicturesMean'
           /\ Written' = IF name[1] = "golden" THEN Written \cup {name} ELSE Written
<1>1. /\ DOMAIN pngs' = DOMAIN pngs \cup {name} /\ pngs'[name] = what
      /\ \A n \in DOMAIN pngs : n # name => pngs'[n] = pngs[n]
  BY DEF Wrote
<1>2. PicturesMean'
  BY <1>1 DEF PicturesMean
<1>3. Written' = IF name[1] = "golden" THEN Written \cup {name} ELSE Written
  BY <1>1 DEF Written
<1> QED BY <1>2, <1>3

LEMMA PicturesLeft ==
    ASSUME PicturesMean, UNCHANGED pngs PROVE PicturesMean' /\ Written' = Written
BY DEF PicturesMean, Written

\* Work that leaves the images standing.
Stays == UNCHANGED run /\ current' \in Swap /\ Changes(Now, Now', AllImages)
LEMMA PicturesStand ==
    ASSUME ImagesAre, Stays
    PROVE  ImagesAre' /\ Uncopyable' = Uncopyable
<1>1. /\ run' = run /\ current' \in Swap /\ DOMAIN images' = DOMAIN images /\ Stands(Now')
      /\ \A i \in DOMAIN images : images'[i].copyable = images[i].copyable
  BY DEF Stays, Changes, Now
<1>2. AllImages' = AllImages
  BY <1>1 DEF AllImages
<1>3. /\ {Thumb.color, BlitColor} \subseteq AllImages
      /\ run = "goldens" => Golden.color \in AllImages
      /\ \A n \in Swap : Screen(n) \in AllImages
  BY DEF AllImages, Targets
<1>4. Copyable({Thumb.color, BlitColor})' /\ (run' = "goldens" => Copyable({Golden.color})')
  BY <1>1, <1>3 DEF ImagesAre, Copyable
<1>5. {n \in Swap : ~images'[Screen(n)].copyable} = {n \in Swap : ~images[Screen(n)].copyable}
  BY <1>1, <1>3 DEF ImagesAre
<1>6. Uncopyable' = Uncopyable
  BY <1>5 DEF Uncopyable
<1>7. ImagesAre'
  BY <1>1, <1>2, <1>4 DEF ImagesAre
<1> QED BY <1>6, <1>7

LEMMA ImagesLeft ==
    ASSUME ImagesAre, UNCHANGED <<run, images>>, current' \in Swap
    PROVE  ImagesAre' /\ Uncopyable' = Uncopyable /\ Now' = Now
<1>1. Now' = Now
  BY DEF Now
<1>2. Stays
  BY <1>1 DEF Stays, ImagesAre, Changes
<1> QED BY <1>1, <1>2, PicturesStand

\* A list that is done.
LEMMA WorkDone ==
    ASSUME ImagesAre, NEW work, Do(work), UNCHANGED <<run, current>>, NEW S, NEW t,
           t = After(Now, work), Changes(Now, t, S)
    PROVE  /\ ImagesAre' /\ Uncopyable' = Uncopyable /\ Now'.images = t.images
           /\ broken' = broken \cup t.broken /\ Ran(images, work) = t
<1>1. Ran(images, work) = t
  BY DEF Ran, Now
<1>2. images' = t.images /\ broken' = broken \cup t.broken
  BY <1>1 DEF Do
<1>3. Now'.images = t.images
  BY <1>2 DEF Now
<1>4. Changes(Now, Now', AllImages)
  BY <1>3 DEF Changes, ImagesAre, Now, Stands
<1>5. Stays
  BY <1>4 DEF Stays, ImagesAre
<1> QED BY <1>1, <1>2, <1>3, <1>5, PicturesStand

FreshImage(copyable) == [layout |-> "undefined", shows |-> Garbage, copyable |-> copyable]
LEMMA CapturesInvInit == CapturesInit => CapturesInv
<1> SUFFICES ASSUME CapturesInit PROVE CapturesInv
  OBVIOUS
<1>1. PICK copyable \in BOOLEAN :
          images = [i \in AllImages |->
              CASE i \in {Screen(n) : n \in Swap} -> FreshImage(copyable)
                [] i \in {Main(0).depth, Thumb.depth, Golden.depth} -> Depth
                [] OTHER -> Color(i \in {Thumb.color, BlitColor, Golden.color})]
  BY DEF CapturesInit, AllImages, FreshImage
<1>2. PICK screens : screens = {Screen(n) : n \in Swap}
  OBVIOUS
<1>3. PICK depths, colors : /\ depths = {Main(0).depth, Thumb.depth, Golden.depth}
                            /\ colors = {Thumb.color, BlitColor, Golden.color}
  OBVIOUS
<1>4. colors \cap depths = {} /\ colors \cap screens = {} /\ depths \cap screens = {}
  BY <1>2, <1>3, CaptureNames
<1>5. DOMAIN images = AllImages
  BY <1>1
<1>6. ASSUME NEW i \in AllImages
      PROVE  IsImage(images[i]) /\ (i \in colors => images[i].copyable)
  <2>1. CASE i \in screens
    <3>1. images[i] = FreshImage(copyable)
      <4>1. i \notin depths
        BY <1>4, <2>1
      <4> QED BY <1>1, <1>2, <1>3, <2>1, <4>1, Zenon
    <3>2. IsImage(images[i]) /\ i \notin colors
      BY <1>4, <2>1, <3>1 DEF IsImage, FreshImage
    <3> QED BY <3>2
  <2>2. CASE i \notin screens /\ i \in depths
    <3>1. images[i] = Depth
      BY <1>1, <1>2, <1>3, <2>2, Zenon
    <3>2. IsImage(images[i]) /\ i \notin colors
      BY <1>4, <2>2, <3>1 DEF IsImage, Depth
    <3> QED BY <3>2
  <2>3. CASE i \notin screens /\ i \notin depths
    <3>1. images[i] = Color(i \in colors)
      BY <1>1, <1>2, <1>3, <2>3, Zenon
    <3>2. \A x : IsImage(Color(x)) /\ Color(x).copyable = x
      BY DEF IsImage, Color
    <3>3. IsImage(images[i]) /\ images[i].copyable = (i \in colors)
      BY <3>1, <3>2, Zenon
    <3> QED BY <3>3, Zenon
  <2> QED BY <2>1, <2>2, <2>3, Zenon
<1>7. /\ Thumb.color \in AllImages /\ BlitColor \in AllImages
      /\ run = "goldens" => Golden.color \in AllImages
  BY DEF AllImages, Targets
<1>8. ImagesAre
  BY <1>3, <1>5, <1>6, <1>7 DEF ImagesAre, Stands, Now, Copyable, CapturesInit
<1>9. stage = "wait" /\ DOMAIN pngs = {} /\ broken = {}
  BY DEF CapturesInit
<1>10. CamerasAre /\ ScreenIs /\ GoldensAre /\ NamesAre /\ PicturesMean
  BY <1>9 DEF CamerasAre, ScreenIs, GoldensAre, NamesAre, Written, PicturesMean
<1> QED BY <1>8, <1>9, <1>10 DEF CapturesInv

\* What the stages outside frames that are presented and goldens know.
Early == {"wait", "bake", "baking", "record"}
LEMMA EarlyStages ==
    ASSUME stage' \in Early, Written' = {}
    PROVE  ScreenIs' /\ GoldensAre' /\ NamesAre'
BY DEF Early, ScreenIs, GoldensAre, NamesAre

LEMMA FrameBegins ==
    ASSUME CapturesInv, NEW i \in Swap, UpdateSceneUBO(i) PROVE CapturesInv'
<1>1. /\ stage = "wait" /\ stage' = "bake" /\ current' = i /\ ubo' = "user"
      /\ UNCHANGED <<run, images, captured, pngs, broken>>
  BY DEF UpdateSceneUBO, Go
<1>2. ImagesAre' /\ Uncopyable' = Uncopyable
  BY <1>1, ImagesLeft DEF CapturesInv
<1>3. PicturesMean' /\ Written' = Written /\ Written = {}
  BY <1>1, PicturesLeft DEF CapturesInv, NamesAre
<1>4. ScreenIs' /\ GoldensAre' /\ NamesAre'
  BY <1>1, <1>3, EarlyStages DEF Early
<1>5. CamerasAre'
  BY <1>1 DEF CamerasAre
<1> QED BY <1>1, <1>2, <1>3, <1>4, <1>5 DEF CapturesInv

LEMMA BakeBegins == ASSUME CapturesInv, StartMeshBake \/ NoBakeNow PROVE CapturesInv'
<1>1. /\ stage = "bake" /\ UNCHANGED <<run, images, current, captured, pngs, broken>>
      /\ \/ stage' = "baking" /\ ubo' = "fit"
         \/ stage' = "record" /\ ubo' = ubo
  BY DEF StartMeshBake, NoBakeNow, Go
<1>2. ImagesAre' /\ Uncopyable' = Uncopyable
  BY <1>1, ImagesLeft DEF CapturesInv, ImagesAre
<1>3. PicturesMean' /\ Written' = Written /\ Written = {}
  BY <1>1, PicturesLeft DEF CapturesInv, NamesAre
<1>4. ScreenIs' /\ GoldensAre' /\ NamesAre'
  BY <1>1, <1>3, EarlyStages DEF Early
<1>5. CamerasAre'
  BY <1>1 DEF CamerasAre, CapturesInv
<1> QED BY <1>1, <1>2, <1>3, <1>4, <1>5 DEF CapturesInv

\* Every set of images the lists draw into is there.
LEMMA SetsAreThere ==
    ASSUME ImagesAre
    PROVE  /\ MayRender(Now, Thumb) /\ \A n \in Swap : MayRender(Now, Main(n))
           /\ run = "goldens" => MayRender(Now, Golden)
           /\ Has(Now, BlitColor) /\ \A n \in Swap : Has(Now, Screen(n))
<1>1. DOMAIN Now.images = AllImages /\ Stands(Now)
  BY DEF ImagesAre, Now
<1>2. /\ Targets(Thumb) \subseteq AllImages /\ BlitColor \in AllImages
      /\ run = "goldens" => Targets(Golden) \subseteq AllImages
      /\ \A n \in Swap : Screen(n) \in AllImages
  BY DEF AllImages
<1>3. ASSUME NEW n \in Swap PROVE Set(Main(n)) /\ Targets(Main(n)) \subseteq AllImages
  <2>1. Targets(Main(0)) \subseteq AllImages
    BY DEF AllImages
  <2> QED BY <1>2, <2>1, CaptureNames
<1> QED BY <1>1, <1>2, <1>3, CaptureNames DEF MayRender, Has

LEMMA BakeRuns == ASSUME CapturesInv, RunMeshBake PROVE CapturesInv'
<1>1. /\ stage = "baking" /\ stage' = "record" /\ Do(BakeMesh) /\ ubo' = "user"
      /\ UNCHANGED <<run, current, captured>>
      /\ Wrote(<<"thumb", "mesh">>, Ran(images, BakeMesh).staged) \/ UNCHANGED pngs
  BY DEF RunMeshBake, Go, Restored
<1>2. PICK t : t = After(Now, BakeMesh)
  OBVIOUS
<1>3. Baked(Now, t, Targets(Thumb), {Mesh})
  <2>1. Now.images[Thumb.color].copyable
    BY DEF CapturesInv, ImagesAre, Copyable, Now
  <2> QED BY <1>2, <2>1, SetsAreThere, MeshIsBaked DEF CapturesInv
<1>4. ubo = "fit"
  BY <1>1 DEF CapturesInv, CamerasAre
<1>5. t.broken = {} /\ t.staged = {<<"mesh", "fit">>} /\ Changes(Now, t, Targets(Thumb))
  BY <1>3, <1>4 DEF Baked, Now, Mesh
<1>6. ImagesAre' /\ Uncopyable' = Uncopyable /\ broken' = broken /\ Ran(images, BakeMesh) = t
  BY <1>1, <1>2, <1>5, WorkDone DEF CapturesInv
<1>7. PicturesMean' /\ Written' = Written /\ Written = {}
  <2>1. PicturesMean /\ Written = {}
    BY <1>1 DEF CapturesInv, NamesAre
  <2>2. CASE UNCHANGED pngs
    BY <2>1, <2>2, PicturesLeft
  <2>3. CASE Wrote(<<"thumb", "mesh">>, Ran(images, BakeMesh).staged)
    <3>1. PICK name, what : name = <<"thumb", "mesh">> /\ what = Ran(images, BakeMesh).staged
      OBVIOUS
    <3>2. Wrote(name, what) /\ what = Meant(name) /\ name[1] # "golden"
      BY <1>5, <1>6, <2>3, <3>1, MeantIs
    <3> QED BY <2>1, <3>2, PictureWritten
  <2> QED BY <1>1, <2>1, <2>2, <2>3
<1>8. ScreenIs' /\ GoldensAre' /\ NamesAre'
  BY <1>1, <1>7, EarlyStages DEF Early
<1>9. CamerasAre'
  BY <1>1 DEF CamerasAre
<1> QED BY <1>6, <1>7, <1>8, <1>9 DEF CapturesInv

\* The texture's levels come and go.
LEMMA TextureBakes ==
    ASSUME CapturesInv, NEW p \in Picture, NEW levels \in Levels, TextureBake(p, levels)
    PROVE  CapturesInv'
<1>1. PICK s : s = [images |-> WithTexture(levels), broken |-> {}, staged |-> {}]
  OBVIOUS
<1>2. PICK t : t = After(s, LoadTexture(p, levels) \o BakeTexture)
  OBVIOUS
<1>3. /\ stage = "bake" /\ stage' = "record" /\ UNCHANGED <<run, ubo, current, captured>>
      /\ images' = [i \in DOMAIN images |-> t.images[i]] /\ broken' = broken \cup t.broken
      /\ Wrote(<<"thumb", p>>, t.staged) \/ UNCHANGED pngs
  BY <1>1, <1>2 DEF TextureBake, Go, Ran
<1>4. /\ DOMAIN s.images = DOMAIN images \cup Mips(levels)
      /\ \A i \in DOMAIN images : s.images[i] = images[i]
      /\ \A i \in Mips(levels) \ DOMAIN images :
            s.images[i] = [layout |-> "undefined", shows |-> Garbage, copyable |-> TRUE]
  BY <1>1 DEF WithTexture, Mips
<1>5. DOMAIN images = AllImages /\ \A l : Mip(l) \notin AllImages
  BY CaptureNames DEF CapturesInv, ImagesAre
<1>6. Stands(s)
  <2>1. \A i \in DOMAIN images : IsImage(s.images[i])
    BY <1>4 DEF CapturesInv, ImagesAre, Stands, Now
  <2>2. \A i \in Mips(levels) \ DOMAIN images : IsImage(s.images[i])
    BY <1>4 DEF IsImage
  <2> QED BY <1>4, <2>1, <2>2 DEF Stands
<1>7. MayLoad(s, levels)
  <2>1. levels \in Nat \ {0}
    BY CapturesAssumption
  <2>2. ASSUME NEW l \in 1 .. levels PROVE Has(s, Mip(l)) /\ s.images[Mip(l)].copyable
    <3>1. Mip(l) \in Mips(levels) \ DOMAIN images
      BY <1>5 DEF Mips
    <3> QED BY <1>4, <3>1 DEF Has
  <2> QED BY <1>6, <2>1, <2>2 DEF MayLoad
<1>8. Has(s, BlitColor) /\ s.images[BlitColor].copyable
  BY <1>4, <1>5 DEF AllImages, Has, CapturesInv, ImagesAre, Copyable
<1>9. PICK S, W : /\ S = Mips(levels) \cup {BlitColor} /\ W = {<<"texture", p>>}
                  /\ Baked(s, t, S, W)
  BY <1>2, <1>7, <1>8, TextureIsBaked
<1>10. Changes(s, t, S) /\ t.broken = {} /\ t.staged = W
  BY <1>1, <1>9 DEF Baked
<1>11. Changes(Now, Now', AllImages)
  <2>1. Now.images = images /\ Now'.images = images'
    BY DEF Now
  <2>2. \A i \in DOMAIN images : images'[i] = t.images[i] /\ i \in DOMAIN s.images
    BY <1>3, <1>4
  <2>3. \A i \in DOMAIN images : IsImage(images'[i]) /\ images'[i].copyable = images[i].copyable
    BY <1>4, <1>10, <2>2 DEF Changes, Stands
  <2> QED BY <1>3, <1>5, <2>1, <2>3 DEF Changes, Stands
<1>12. ImagesAre' /\ Uncopyable' = Uncopyable
  <2>1. Stays
    BY <1>3, <1>11 DEF Stays, CapturesInv, ImagesAre
  <2> QED BY <2>1, PicturesStand DEF CapturesInv
<1>13. PicturesMean' /\ Written' = Written /\ Written = {}
  <2>1. PicturesMean /\ Written = {}
    BY <1>3 DEF CapturesInv, NamesAre
  <2>2. CASE UNCHANGED pngs
    BY <2>1, <2>2, PicturesLeft
  <2>3. CASE Wrote(<<"thumb", p>>, t.staged)
    <3>1. PICK name, what : name = <<"thumb", p>> /\ what = t.staged
      OBVIOUS
    <3>2. Wrote(name, what) /\ what = Meant(name) /\ name[1] # "golden"
      BY <1>9, <1>10, <2>3, <3>1, MeantIs
    <3> QED BY <2>1, <3>2, PictureWritten
  <2> QED BY <1>3, <2>1, <2>2, <2>3
<1>14. ScreenIs' /\ GoldensAre' /\ NamesAre'
  BY <1>3, <1>13, EarlyStages DEF Early
<1>15. CamerasAre'
  BY <1>3 DEF CamerasAre, CapturesInv
<1> QED BY <1>3, <1>10, <1>12, <1>13, <1>14, <1>15 DEF CapturesInv

\* The frame's image shows the scene, whether or not it is saved.
LEMMA FrameSubmitted == ASSUME CapturesInv, SubmitFrame PROVE CapturesInv'
<1>1. /\ stage = "record" /\ stage' = "presented" /\ Do(RecordFrame(current))
      /\ UNCHANGED <<run, ubo, current, captured, pngs>>
  BY DEF SubmitFrame, Go
<1>2. PICK i, t, S : i = current /\ t = After(Now, RecordFrame(i)) /\ S = Targets(Main(i))
  OBVIOUS
<1>3. i \in Swap /\ ImagesAre
  BY <1>2 DEF CapturesInv, ImagesAre
<1>4. /\ Works(Now, t, S) /\ There(t, Screen(i), "present")
      /\ Shown(t, Screen(i), {Mesh, Ui("panels")})
  BY <1>2, <1>3, SetsAreThere, FrameRecorded
<1>5. t.broken = {} /\ Changes(Now, t, S)
  BY <1>4 DEF Works, Now
<1>6. ImagesAre' /\ Uncopyable' = Uncopyable /\ Now'.images = t.images /\ broken' = broken
  BY <1>1, <1>2, <1>3, <1>5, WorkDone
<1>7. ubo = "user" /\ Mesh = <<"mesh", "user">>
  BY <1>1 DEF CapturesInv, CamerasAre, Mesh
<1>8. ScreenIs'
  BY <1>1, <1>2, <1>4, <1>6, <1>7 DEF ScreenIs, There, Has, Shown
<1>9. PicturesMean' /\ Written' = {}
  BY <1>1, PicturesLeft DEF CapturesInv, NamesAre
<1>10. GoldensAre' /\ NamesAre' /\ CamerasAre'
  BY <1>1, <1>7, <1>9 DEF GoldensAre, NamesAre, CamerasAre
<1> QED BY <1>6, <1>8, <1>9, <1>10 DEF CapturesInv

LEMMA ScreenIsSaved == ASSUME CapturesInv, SaveScreen PROVE CapturesInv'
<1>1. /\ stage = "presented" /\ Do(CaptureFramebuffer(current))
      /\ UNCHANGED <<run, ubo, stage, current>>
      /\ \/ Wrote(<<"screen", "capture">>, Ran(images, CaptureFramebuffer(current)).staged)
         \/ UNCHANGED pngs
  BY DEF SaveScreen
<1>2. PICK i, t, W : /\ i = Screen(current) /\ t = After(Now, CaptureFramebuffer(current))
                     /\ W = {<<"mesh", "user">>, Ui("panels")}
  OBVIOUS
<1>3. /\ current \in Swap /\ ImagesAre /\ Stands(Now)
      /\ There(Now, i, "present") /\ Shown(Now, i, W)
  BY <1>1, <1>2 DEF CapturesInv, ImagesAre, ScreenIs
<1>4. ScreenCopied(Now, t, i)
  BY <1>2, <1>3, ScreenSaved
<1>5. PICK S : S = {i} /\ Changes(Now, t, S)
  BY <1>4 DEF ScreenCopied
<1>6. t.broken = Usage(Now, i) /\ t.staged = W /\ There(t, i, "present") /\ Shown(t, i, W)
  BY <1>3, <1>4 DEF ScreenCopied, Now, Shown, SameShown
<1>7. /\ ImagesAre' /\ Uncopyable' = Uncopyable /\ Now'.images = t.images
      /\ broken' = broken \cup t.broken /\ Ran(images, CaptureFramebuffer(current)) = t
  BY <1>1, <1>2, <1>3, <1>5, WorkDone
<1>8. t.broken \subseteq Uncopyable
  <2>1. CASE images[i].copyable
    BY <1>6, <2>1 DEF Usage, Now
  <2>2. CASE ~images[i].copyable
    BY <1>2, <1>3, <1>6, <2>2 DEF Usage, Now, Uncopyable
  <2> QED BY <2>1, <2>2
<1>9. ScreenIs'
  BY <1>1, <1>2, <1>6, <1>7 DEF ScreenIs, There, Has, Shown
<1>10. PicturesMean' /\ Written' = Written
  <2>1. PicturesMean
    BY DEF CapturesInv
  <2>2. CASE UNCHANGED pngs
    BY <2>1, <2>2, PicturesLeft
  <2>3. CASE Wrote(<<"screen", "capture">>, Ran(images, CaptureFramebuffer(current)).staged)
    <3>1. PICK name, what : name = <<"screen", "capture">> /\ what = t.staged
      OBVIOUS
    <3>2. Wrote(name, what) /\ what = Meant(name) /\ name[1] # "golden"
      BY <1>2, <1>6, <1>7, <2>3, <3>1, MeantIs
    <3> QED BY <2>1, <3>2, PictureWritten
  <2> QED BY <1>1, <2>2, <2>3
<1>11. GoldensAre' /\ NamesAre' /\ CamerasAre'
  BY <1>1, <1>10 DEF GoldensAre, NamesAre, CamerasAre, CapturesInv
<1> QED BY <1>7, <1>8, <1>9, <1>10, <1>11 DEF CapturesInv

LEMMA FrameEnds == ASSUME CapturesInv, NextFrame PROVE CapturesInv'
<1>1. /\ stage = "presented" /\ stage' = "wait"
      /\ UNCHANGED <<run, images, ubo, current, captured, pngs, broken>>
  BY DEF NextFrame, Go
<1>2. ImagesAre' /\ Uncopyable' = Uncopyable
  BY <1>1, ImagesLeft DEF CapturesInv, ImagesAre
<1>3. PicturesMean' /\ Written' = {}
  BY <1>1, PicturesLeft DEF CapturesInv, NamesAre
<1>4. ScreenIs' /\ GoldensAre' /\ NamesAre'
  BY <1>1, <1>3, EarlyStages DEF Early
<1>5. CamerasAre'
  BY <1>1 DEF CamerasAre
<1> QED BY <1>1, <1>2, <1>3, <1>4, <1>5 DEF CapturesInv

\* The goldens, one after the other.
LEMMA GoldensFail == ASSUME CapturesInv, Fail PROVE CapturesInv'
<1>1. /\ stage \in {"mesh", "depth", "reference", "imgui"} /\ stage' = "failed"
      /\ UNCHANGED <<run, images, ubo, current, captured, pngs, broken>>
  BY DEF Fail
<1>2. ImagesAre' /\ Uncopyable' = Uncopyable
  BY <1>1, ImagesLeft DEF CapturesInv, ImagesAre
<1>3. PicturesMean'
  BY <1>1, PicturesLeft DEF CapturesInv
<1>4. ScreenIs' /\ GoldensAre' /\ NamesAre' /\ CamerasAre'
  BY <1>1 DEF ScreenIs, GoldensAre, NamesAre, CamerasAre, CapturesInv
<1> QED BY <1>1, <1>2, <1>3, <1>4 DEF CapturesInv

LEMMA GoldensBegin == ASSUME CapturesInv, StartGoldens PROVE CapturesInv'
<1>1. /\ run = "goldens" /\ stage = "presented" /\ stage' \in {"rendering", "failed"}
      /\ ubo' = IF stage' = "rendering" THEN "fit" ELSE ubo
      /\ UNCHANGED <<run, images, current, pngs, broken>>
  BY DEF StartGoldens
<1>2. ImagesAre' /\ Uncopyable' = Uncopyable
  BY <1>1, ImagesLeft DEF CapturesInv, ImagesAre
<1>3. PicturesMean' /\ Written' = {}
  BY <1>1, PicturesLeft DEF CapturesInv, NamesAre
<1>4. ScreenIs' /\ GoldensAre' /\ NamesAre' /\ CamerasAre'
  BY <1>1, <1>3 DEF ScreenIs, GoldensAre, NamesAre, CamerasAre
<1> QED BY <1>1, <1>2, <1>3, <1>4 DEF CapturesInv

LEMMA GoldensRender == ASSUME CapturesInv, RenderGoldens PROVE CapturesInv'
<1>1. /\ stage = "rendering" /\ stage' = "mesh" /\ Do(RenderSkinnedMesh)
      /\ UNCHANGED <<run, current, captured, pngs>>
  BY DEF RenderGoldens, Go
<1>2. PICK t, S : t = After(Now, RenderSkinnedMesh) /\ S = Targets(Golden)
  OBVIOUS
<1>3. run = "goldens" /\ ubo = "fit" /\ ImagesAre /\ Mesh = <<"mesh", "fit">>
  BY <1>1 DEF CapturesInv, GoldensAre, CamerasAre, Mesh
<1>4. Works(Now, t, S) /\ Golds(t, {<<"mesh", "fit">>})
  <2>1. Works(Now, t, S) /\ Golds(t, {Mesh})
    BY <1>2, <1>3, SetsAreThere, GoldensDrawn
  <2> QED BY <1>3, <2>1
<1>5. t.broken = {} /\ Changes(Now, t, S)
  BY <1>4 DEF Works, Now
<1>6. ImagesAre' /\ Uncopyable' = Uncopyable /\ Now'.images = t.images /\ broken' = broken
  BY <1>1, <1>2, <1>3, <1>5, WorkDone
<1>7. Golds(Now', {<<"mesh", "fit">>})
  BY <1>4, <1>6 DEF Golds, There, Has, Shown
<1>8. PicturesMean' /\ Written' = {}
  BY <1>1, PicturesLeft DEF CapturesInv, NamesAre
<1>9. ScreenIs' /\ NamesAre' /\ CamerasAre'
  BY <1>1, <1>8 DEF ScreenIs, NamesAre, CamerasAre
<1>10. GoldensAre'
  BY <1>1, <1>3, <1>7 DEF GoldensAre, Golds
<1> QED BY <1>6, <1>8, <1>9, <1>10 DEF CapturesInv

\* A golden picture is taken of an image that is ready, and leaves it as it was.
Ready(i, name) ==
    /\ There(Now, i, "source") /\ Shown(Now, i, Meant(<<"golden", name>>))
    /\ Usage(Now, i) \subseteq Uncopyable
Taken(from, to, name) ==
    /\ stage = from /\ stage' = to /\ UNCHANGED <<run, current, ubo>>
    /\ ImagesAre' /\ Uncopyable' = Uncopyable /\ broken' \subseteq Uncopyable
    /\ PicturesMean' /\ Written' = Written \cup {<<"golden", name>>}
    /\ DOMAIN Now'.images = DOMAIN Now.images
    /\ \A j \in DOMAIN Now.images : Now'.images[j] = Now.images[j]
LEMMA GoldenTaken ==
    ASSUME CapturesInv, NEW from, NEW to, NEW i, NEW name, Ready(i, name), Extract(from, to, i, name)
    PROVE  Taken(from, to, name)
<1>1. PICK work, t, full : /\ work = <<Copy(i)>> /\ t = After(Now, work)
                           /\ full = <<"golden", name>>
  OBVIOUS
<1>2. /\ stage = from /\ stage' = to /\ Do(work) /\ UNCHANGED <<run, ubo, current, captured>>
      /\ Wrote(full, Ran(images, work).staged)
  BY <1>1 DEF Extract, Go
<1>3. ImagesAre /\ PicturesMean /\ Stands(Now) /\ broken \subseteq Uncopyable
  BY DEF CapturesInv, ImagesAre
<1>4. Copied(Now, t, i)
  <2>1. t = RunOne(Now, Copy(i))
    BY <1>1, AfterOne
  <2> QED BY <1>3, <2>1, Copies DEF Ready
<1>5. PICK S : S = {} /\ Changes(Now, t, S)
  BY <1>4 DEF Copied
<1>6. t.broken = Usage(Now, i) /\ t.staged = Meant(full)
  BY <1>1, <1>4 DEF Copied, Now, Ready, Shown
<1>7. /\ ImagesAre' /\ Uncopyable' = Uncopyable /\ Now'.images = t.images
      /\ broken' = broken \cup t.broken /\ Ran(images, work) = t
  BY <1>1, <1>2, <1>3, <1>5, WorkDone
<1>8. broken' \subseteq Uncopyable
  BY <1>3, <1>6, <1>7 DEF Ready
<1>9. PicturesMean' /\ Written' = Written \cup {full}
  <2>1. Wrote(full, t.staged) /\ t.staged = Meant(full) /\ full[1] = "golden"
    BY <1>1, <1>2, <1>6, <1>7
  <2>2. PICK what : what = t.staged
    OBVIOUS
  <2>3. PicturesMean' /\ Written' = IF full[1] = "golden" THEN Written \cup {full} ELSE Written
    BY <1>3, <2>1, <2>2, PictureWritten
  <2> QED BY <2>1, <2>3
<1>10. /\ DOMAIN Now'.images = DOMAIN Now.images
       /\ \A j \in DOMAIN Now.images : Now'.images[j] = Now.images[j]
  BY <1>5, <1>7 DEF Changes
<1> QED BY <1>1, <1>2, <1>7, <1>8, <1>9, <1>10 DEF Taken

LEMMA GoldensTaken ==
    ASSUME CapturesInv,
           \/ Extract("mesh", "depth", Golden.color, "skinned_mesh")
           \/ Extract("depth", "reference", Golden.depth, "shadow_pass")
           \/ Extract("imgui", "done", Golden.color, "imgui_layer")
    PROVE  CapturesInv'
<1>0. run = "goldens" => Usage(Now, Golden.color) = {}
  BY DEF CapturesInv, ImagesAre, Copyable, Usage, Now
<1>1. CASE Extract("mesh", "depth", Golden.color, "skinned_mesh")
  <2>1. stage = "mesh" /\ run = "goldens" /\ Golds(Now, {<<"mesh", "fit">>}) /\ Written = {}
    BY <1>1 DEF Extract, Go, CapturesInv, GoldensAre, NamesAre
  <2>2. Ready(Golden.color, "skinned_mesh")
    BY <1>0, <2>1, MeantIs DEF Ready, Golds
  <2>3. Taken("mesh", "depth", "skinned_mesh")
    BY <1>1, <2>2, GoldenTaken
  <2>4. Golds(Now', {<<"mesh", "fit">>})
    BY <2>1, <2>3 DEF Taken, Golds, There, Has, Shown
  <2>5. Written' = FirstGold
    BY <2>1, <2>3 DEF Taken, FirstGold
  <2>6. ScreenIs' /\ GoldensAre' /\ NamesAre' /\ CamerasAre'
    BY <2>1, <2>3, <2>4, <2>5 DEF Taken, ScreenIs, GoldensAre, NamesAre, CamerasAre
  <2> QED BY <2>3, <2>6 DEF Taken, CapturesInv
<1>2. CASE Extract("depth", "reference", Golden.depth, "shadow_pass")
  <2>1. stage = "depth" /\ run = "goldens" /\ Golds(Now, {<<"mesh", "fit">>}) /\ Written = FirstGold
    BY <1>2 DEF Extract, Go, CapturesInv, GoldensAre, NamesAre
  <2>2. Ready(Golden.depth, "shadow_pass")
    <3>1. Usage(Now, Golden.depth) \subseteq Uncopyable
      BY DEF Usage, Uncopyable
    <3> QED BY <2>1, <3>1, MeantIs DEF Ready, Golds
  <2>3. Taken("depth", "reference", "shadow_pass")
    BY <1>2, <2>2, GoldenTaken
  <2>4. There(Now', Golden.color, "source")
    BY <2>1, <2>3 DEF Taken, Golds, There, Has
  <2>5. Written' = SecondGold
    BY <2>1, <2>3 DEF Taken, SecondGold
  <2>6. ScreenIs' /\ GoldensAre' /\ NamesAre' /\ CamerasAre'
    BY <2>1, <2>3, <2>4, <2>5 DEF Taken, ScreenIs, GoldensAre, NamesAre, CamerasAre
  <2> QED BY <2>3, <2>6 DEF Taken, CapturesInv
<1>3. CASE Extract("imgui", "done", Golden.color, "imgui_layer")
  <2>1. /\ stage = "imgui" /\ run = "goldens" /\ There(Now, Golden.color, "source")
        /\ Shown(Now, Golden.color, {Ui("golden")}) /\ Written = ThirdGold
    BY <1>3 DEF Extract, Go, CapturesInv, GoldensAre, NamesAre
  <2>2. Ready(Golden.color, "imgui_layer")
    BY <1>0, <2>1, MeantIs DEF Ready
  <2>3. Taken("imgui", "done", "imgui_layer")
    BY <1>3, <2>2, GoldenTaken
  <2>4. Written' = AllGold
    BY <2>1, <2>3 DEF Taken, AllGold
  <2>5. ScreenIs' /\ GoldensAre' /\ NamesAre' /\ CamerasAre'
    BY <2>1, <2>3, <2>4 DEF Taken, ScreenIs, GoldensAre, NamesAre, CamerasAre
  <2> QED BY <2>3, <2>5 DEF Taken, CapturesInv
<1> QED BY <1>1, <1>2, <1>3

LEMMA ReferenceWritten == ASSUME CapturesInv, WriteReference PROVE CapturesInv'
<1>1. /\ stage = "reference" /\ stage' = "overlay"
      /\ UNCHANGED <<run, images, ubo, current, captured, broken>>
  BY DEF WriteReference, Go
<1>2. ImagesAre' /\ Uncopyable' = Uncopyable /\ Now' = Now
  BY <1>1, ImagesLeft DEF CapturesInv, ImagesAre
<1>3. PicturesMean' /\ Written' = ThirdGold
  <2>1. PICK name, what : name = <<"golden", "post_process">> /\ what = {<<"reference", 0>>}
    OBVIOUS
  <2>2. Wrote(name, what) /\ what = Meant(name) /\ name[1] = "golden"
    BY <2>1, MeantIs DEF WriteReference
  <2>3. PicturesMean /\ Written = SecondGold
    BY <1>1 DEF CapturesInv, NamesAre
  <2> QED BY <2>1, <2>2, <2>3, PictureWritten DEF ThirdGold
<1>4. run = "goldens" /\ There(Now, Golden.color, "source")
  BY <1>1 DEF CapturesInv, GoldensAre
<1>5. ScreenIs' /\ GoldensAre' /\ NamesAre' /\ CamerasAre'
  BY <1>1, <1>2, <1>3, <1>4 DEF ScreenIs, GoldensAre, NamesAre, CamerasAre
<1> QED BY <1>1, <1>2, <1>3, <1>5 DEF CapturesInv

LEMMA OverlayRendered == ASSUME CapturesInv, RenderOverlay PROVE CapturesInv'
<1>1. /\ stage = "overlay" /\ stage' = "imgui" /\ Do(RenderImGuiOverlay)
      /\ UNCHANGED <<run, ubo, current, captured, pngs>>
  BY DEF RenderOverlay, Go
<1>2. PICK t : t = After(Now, RenderImGuiOverlay)
  OBVIOUS
<1>3. /\ run = "goldens" /\ There(Now, Golden.color, "source") /\ ImagesAre /\ Stands(Now)
      /\ PicturesMean /\ Written = ThirdGold
  BY <1>1 DEF CapturesInv, GoldensAre, ImagesAre, NamesAre
<1>4. /\ WorksOn(Now, t, Golden.color) /\ There(t, Golden.color, "source")
      /\ Shown(t, Golden.color, {Ui("golden")})
  BY <1>2, <1>3, OverlayDrawn
<1>5. PICK S : S = {Golden.color} /\ Changes(Now, t, S) /\ t.broken = {}
  BY <1>4 DEF WorksOn, Works, Now
<1>6. ImagesAre' /\ Uncopyable' = Uncopyable /\ Now'.images = t.images /\ broken' = broken
  BY <1>1, <1>2, <1>3, <1>5, WorkDone
<1>7. There(Now', Golden.color, "source") /\ Shown(Now', Golden.color, {Ui("golden")})
  BY <1>4, <1>6 DEF There, Has, Shown
<1>8. PicturesMean' /\ Written' = ThirdGold
  BY <1>1, <1>3, PicturesLeft
<1>9. ScreenIs' /\ GoldensAre' /\ NamesAre' /\ CamerasAre'
  BY <1>1, <1>3, <1>7, <1>8 DEF ScreenIs, GoldensAre, NamesAre, CamerasAre
<1> QED BY <1>6, <1>8, <1>9 DEF CapturesInv

LEMMA CapturesInvNext == CapturesInv /\ [CapturesNext]_captureVars => CapturesInv'
<1> SUFFICES ASSUME CapturesInv, [CapturesNext]_captureVars PROVE CapturesInv'
  OBVIOUS
<1>1. CASE \E i \in Swap : UpdateSceneUBO(i)
  BY <1>1, FrameBegins
<1>2. CASE StartMeshBake \/ NoBakeNow
  BY <1>2, BakeBegins
<1>3. CASE RunMeshBake
  BY <1>3, BakeRuns
<1>4. CASE \E t \in Picture, l \in Levels : TextureBake(t, l)
  BY <1>4, TextureBakes
<1>5. CASE SubmitFrame
  BY <1>5, FrameSubmitted
<1>6. CASE SaveScreen
  BY <1>6, ScreenIsSaved
<1>7. CASE NextFrame
  BY <1>7, FrameEnds
<1>8. CASE Goldens
  BY <1>8, GoldensBegin, GoldensRender, GoldensTaken, ReferenceWritten, OverlayRendered, GoldensFail
     DEF Goldens
<1>9. CASE Exited \/ UNCHANGED captureVars
  <2>1. UNCHANGED captureVars
    BY <1>9 DEF Exited
  <2>2. ImagesAre' /\ Uncopyable' = Uncopyable /\ Now' = Now
    BY <2>1, ImagesLeft DEF CapturesInv, ImagesAre, captureVars
  <2>3. PicturesMean' /\ Written' = Written
    BY <2>1, PicturesLeft DEF CapturesInv, captureVars
  <2>4. ScreenIs' /\ GoldensAre' /\ NamesAre' /\ CamerasAre'
    BY <2>1, <2>2, <2>3
       DEF ScreenIs, GoldensAre, NamesAre, CamerasAre, CapturesInv, captureVars
  <2> QED BY <2>1, <2>2, <2>3, <2>4 DEF CapturesInv, captureVars
<1> QED BY <1>1, <1>2, <1>3, <1>4, <1>5, <1>6, <1>7, <1>8, <1>9 DEF CapturesNext

\* All four of them.
LEMMA GoldsAreFour == Cardinality(AllGold) = 4
<1>1. IsFiniteSet(FirstGold) /\ Cardinality(FirstGold) = 1
  BY FS_Singleton DEF FirstGold
<1>2. IsFiniteSet(SecondGold) /\ Cardinality(SecondGold) = 2
  <2>1. <<"golden", "shadow_pass">> \notin FirstGold
    BY DEF FirstGold
  <2> QED BY <1>1, <2>1, FS_AddElement DEF SecondGold
<1>3. IsFiniteSet(ThirdGold) /\ Cardinality(ThirdGold) = 3
  <2>1. <<"golden", "post_process">> \notin SecondGold
    BY DEF FirstGold, SecondGold
  <2> QED BY <1>2, <2>1, FS_AddElement DEF ThirdGold
<1>4. <<"golden", "imgui_layer">> \notin ThirdGold
  BY DEF FirstGold, SecondGold, ThirdGold
<1> QED BY <1>3, <1>4, FS_AddElement DEF AllGold

\* Whatever is baked, drawn, saved and fails in between, every picture on disk shows what
\* it is named for, the screen shows the scene from the user's camera under the panels, and
\* a run that says its goldens are done wrote all four: for all swapchain images, textures
\* and numbers of levels (bakeThumbnail, bakeTextureThumbnail, recordFrame, captureGoldens,
\* captureFramebuffer).
THEOREM PicturesStayTrue == CapturesSpec => []PicturesAreTrue
<1>1. CapturesInv => PicturesAreTrue
  <2> SUFFICES ASSUME CapturesInv PROVE PicturesAreTrue
    OBVIOUS
  <2>1. broken \subseteq Uncopyable /\ \A name \in DOMAIN pngs : pngs[name] = Meant(name)
    BY DEF CapturesInv, PicturesMean
  <2>2. stage = "presented" => images[Screen(current)].shows = {<<"mesh", "user">>, Ui("panels")}
    BY DEF CapturesInv, ScreenIs, Shown, Now
  <2>3. stage = "done" => Cardinality({n \in DOMAIN pngs : n[1] = "golden"}) = 4
    BY GoldsAreFour DEF CapturesInv, NamesAre, Written
  <2> QED BY <2>1, <2>2, <2>3 DEF PicturesAreTrue
<1> QED BY CapturesInvInit, CapturesInvNext, <1>1, PTL DEF CapturesSpec

=============================================================================
