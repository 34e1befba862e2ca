------------------------------ MODULE Physics ------------------------------
(****************************************************************************)
(* JoltPhysicsContext: fixed steps, bodies, terrain, characters and         *)
(* constraints that break, as the one thread of a game calls them. Jolt     *)
(* itself is external: it moves what it moves and loads every joint with    *)
(* any impulse of Impulse. The game's break callback changes no constraint  *)
(* (one that does runs into the map being iterated) and a game destroys the *)
(* constraints of a body before the body: the code checks neither.          *)
(*                                                                          *)
(* A constraint breaks when its impulse exceeds its force. Then its         *)
(* neighbours, amplified, may break in waves. The map is visited in no      *)
(* particular order. Times and multipliers are counted in halves.           *)
(*                                                                          *)
(* Bounds: MaxConstraints constraints and one character are created.        *)
(****************************************************************************)
EXTENDS Integers, FiniteSets

CONSTANTS
    Body,            \* bodies that exist at one time or another
    Desc,            \* constraint descriptions: [a, b: Body, force: Nat]
    Impulse,         \* impulses Jolt may report
    Cascade,         \* CascadeParams: [enabled, maxDepth, stress in halves]
    FrameTime,       \* dt of a frame, in half steps
    Shape,           \* character shapes: [half, radius: Nat]
    MaxConstraints,
    MaxSubsteps,     \* MAX_SUBSTEPS
    MaxBreaks        \* MAX_BREAKS_PER_SUBSTEP

ASSUME PhysicsAssumption ==
    /\ Desc \subseteq [a: Body, b: Body, force: Nat]
    /\ Impulse \subseteq Nat /\ FrameTime \subseteq Nat
    /\ Shape \subseteq [half: Nat, radius: Nat]
    /\ Cascade \subseteq [enabled: BOOLEAN, maxDepth: Nat, stress: Nat]
    /\ {MaxConstraints, MaxSubsteps, MaxBreaks} \subseteq Nat \ {0}

VARIABLES
    world,       \* what the game made: bodies, terrain, cascade parameters
    joints,      \* constraints: id -> description, lastImpulse, broken
    adjacent,    \* bodyConstraintMap: body -> ids
    characters,  \* by handle: shape and the height of the centre
    clock,       \* accumulator and substeps done in this step()
    check        \* where step() and checkBreakableConstraints are

physicsVars == <<world, joints, adjacent, characters, clock, check>>

FixedStep == 2

NoLoad == [i \in {} |-> 0]
Idle ==
    [at |-> "idle", load |-> NoLoad, todo |-> {}, next |-> {}, depth |-> 0,
     fresh |-> {}, told |-> 0]

PhysicsInit ==
    /\ \E c \in Cascade : 
          world = [bodies |-> {}, terrain |-> "none", nextId |-> 1, cascade |-> c]
    /\ joints = NoLoad /\ adjacent = [b \in Body |-> {}]
    /\ characters = <<>> /\ clock = [owed |-> 0, done |-> 0] /\ check = Idle

AtRest == check.at = "idle" /\ UNCHANGED <<clock, check>>

-----------------------------------------------------------------------------
(* What a game makes *)

CreateBody(b) ==
    /\ b \notin world.bodies /\ AtRest
    /\ world' = [world EXCEPT !.bodies = @ \cup {b}]
    /\ UNCHANGED <<joints, adjacent, characters>>

DestroyBody(b) ==
    /\ b \in world.bodies /\ adjacent[b] = {} /\ AtRest
    /\ world' = [world EXCEPT !.bodies = @ \ {b}]
    /\ UNCHANGED <<joints, adjacent, characters>>

\* The body of the old terrain goes first, whether or not the new one is made.
CreateHeightfield ==
    /\ AtRest
    /\ \E t \in {"none", "valid"} : world' = [world EXCEPT !.terrain = t]
    /\ UNCHANGED <<joints, adjacent, characters>>

Ids == DOMAIN joints

\* Mutant: only the first body knows the constraint.
AdjacentToFirst(d, id) == [adjacent EXCEPT ![d.a] = @ \cup {id}]
AdjacentToBoth(d, id) ==
    [b \in Body |-> IF b \in {d.a, d.b} THEN adjacent[b] \cup {id} ELSE adjacent[b]]

CreateConstraint(d) ==
    LET id == world.nextId IN
    /\ id <= MaxConstraints /\ {d.a, d.b} \subseteq world.bodies /\ AtRest
    /\ joints' = [i \in Ids \cup {id} |->
          IF i = id THEN [desc |-> d, lastImpulse |-> 0, broken |-> FALSE] ELSE joints[i]]
    /\ adjacent' = AdjacentToBoth(d, id)
    /\ world' = [world EXCEPT !.nextId = @ + 1]
    /\ UNCHANGED characters

DestroyConstraint(id) ==
    /\ id \in Ids /\ AtRest
    /\ joints' = [i \in Ids \ {id} |-> joints[i]]
    /\ adjacent' = [b \in Body |-> adjacent[b] \ {id}]
    /\ UNCHANGED <<world, characters>>

-----------------------------------------------------------------------------
(* Characters: Jolt keeps the centre of the capsule, a game speaks of feet. *)

HalfHeight(s) == s.half + s.radius
Foot(c) == c.centre - HalfHeight(c.shape)
Standing(s, foot) == [shape |-> s, centre |-> foot + HalfHeight(s)]

CreateCharacter(s) ==
    /\ characters = <<>> /\ AtRest
    /\ characters' = <<Standing(s, 0)>>
    /\ UNCHANGED <<world, joints, adjacent>>

Resized(c, half) ==
    [shape |-> [c.shape EXCEPT !.half = half],
     centre |-> c.centre - (HalfHeight(c.shape) - (half + c.shape.radius))]

\* The new capsule may not fit where the character stands: nothing changes.
ResizeCharacter(half) ==
    /\ AtRest
    /\ \E i \in DOMAIN characters : \E fits \in BOOLEAN :
          characters' = IF fits THEN [characters EXCEPT ![i] = Resized(@, half)]
                        ELSE characters
    /\ UNCHANGED <<world, joints, adjacent>>

\* A new radius makes a new character where the feet of the old one are.
ApplyParams(s) ==
    /\ AtRest
    /\ \E fits \in [DOMAIN characters -> BOOLEAN] :
          characters' = [i \in DOMAIN characters |->
              IF characters[i].shape.radius # s.radius
                THEN Standing(s, Foot(characters[i]))
              ELSE IF fits[i] THEN Resized(characters[i], s.half)
              ELSE characters[i]]
    /\ UNCHANGED <<world, joints, adjacent>>

-----------------------------------------------------------------------------
(* step() *)

Step(dt) ==
    /\ check.at = "idle"
    /\ clock' = [owed |-> clock.owed + dt, done |-> 0]
    /\ check' = [Idle EXCEPT !.at = "substep"]
    /\ UNCHANGED <<world, joints, adjacent, characters>>

Due == clock.owed >= FixedStep /\ clock.done < MaxSubsteps

Breakable(i) == ~joints[i].broken /\ joints[i].desc.force > 0

Substep ==
    /\ check.at = "substep" /\ Due
    /\ \E load \in [{i \in Ids : Breakable(i)} -> Impulse] :
          check' = [Idle EXCEPT !.at = "impulses", !.load = load, !.todo = Ids]
    /\ UNCHANGED <<world, joints, adjacent, characters, clock>>

EndStep ==
    /\ check.at = "substep" /\ ~Due
    /\ clock' = [clock EXCEPT !.owed = IF @ > FixedStep THEN FixedStep ELSE @]
    /\ check' = Idle
    /\ UNCHANGED <<world, joints, adjacent, characters>>

\* The constraint i after an impulse.
Loaded(i, impulse, breaks) ==
    [desc |-> joints[i].desc, lastImpulse |-> impulse, broken |-> breaks]

AtCap(n) == n >= MaxBreaks

\* Pass 1: the impulse of one constraint. The pass stops at the cap.
Examine(i) ==
    /\ check.at = "impulses" /\ i \in check.todo /\ Breakable(i)
    /\ LET breaks == check.load[i] > joints[i].desc.force
           fresh  == IF breaks THEN check.fresh \cup {i} ELSE check.fresh
       IN
        /\ joints' = [joints EXCEPT ![i] = Loaded(i, check.load[i], breaks)]
        /\ check' = [check EXCEPT !.fresh = fresh, !.next = fresh,
                        !.told = IF breaks THEN @ + 1 ELSE @,
                        !.todo = IF breaks /\ AtCap(Cardinality(fresh)) THEN {} ELSE @ \ {i}]
        /\ UNCHANGED <<world, adjacent, characters, clock>>

PassOver(i) ==
    /\ check.at = "impulses" /\ i \in check.todo /\ ~Breakable(i)
    /\ check' = [check EXCEPT !.todo = @ \ {i}]
    /\ UNCHANGED <<world, joints, adjacent, characters, clock>>

\* Another wave, of at most maxDepth, starts from what the last one broke.
Spreads(wave, depth) ==
    /\ world.cascade.enabled /\ wave # {}
    /\ depth < world.cascade.maxDepth /\ ~AtCap(Cardinality(check.fresh))

StartWave ==
    /\ check.at \in {"impulses", "wave"} /\ check.todo = {}
    /\ LET depth == IF check.at = "wave" THEN check.depth + 1 ELSE 0
       IN  /\ Spreads(check.next, depth)
           /\ check' = [check EXCEPT !.at = "wave", !.depth = depth,
                           !.todo = check.next, !.next = {}]
    /\ UNCHANGED <<world, joints, adjacent, characters, clock>>

TooWeak(i) ==
    /\ Breakable(i)
    /\ joints[i].lastImpulse * world.cascade.stress > 2 * joints[i].desc.force

Touching(i) == adjacent[joints[i].desc.a] \cup adjacent[joints[i].desc.b]

\* The neighbours of one broken constraint, until the cap is reached.
Spread(i) ==
    /\ check.at = "wave" /\ i \in check.todo
    /\ LET weak == {n \in Touching(i) : TooWeak(n)}
           room == MaxBreaks - Cardinality(check.fresh)
       IN  \E broken \in SUBSET weak :
              /\ broken = weak \/ Cardinality(broken) = room
              /\ Cardinality(broken) <= room
              /\ joints' = [n \in Ids |->
                    IF n \in broken
                      THEN Loaded(n, (joints[n].lastImpulse * world.cascade.stress) \div 2, TRUE)
                      ELSE joints[n]]
              /\ check' = [check EXCEPT !.todo = @ \ {i}, !.next = @ \cup broken,
                              !.fresh = @ \cup broken, !.told = @ + Cardinality(broken)]
    /\ UNCHANGED <<world, adjacent, characters, clock>>

EndSubstep ==
    /\ check.at \in {"impulses", "wave"} /\ check.todo = {}
    /\ ~Spreads(check.next, IF check.at = "wave" THEN check.depth + 1 ELSE 0)
    /\ clock' = [owed |-> clock.owed - FixedStep, done |-> clock.done + 1]
    /\ check' = [check EXCEPT !.at = "substep"]
    /\ UNCHANGED <<world, joints, adjacent, characters>>

Simulate ==
    \/ \E dt \in FrameTime : Step(dt)
    \/ Substep \/ EndStep \/ StartWave \/ EndSubstep
    \/ \E i \in Ids : Examine(i) \/ PassOver(i) \/ Spread(i)

Build ==
    \/ \E b \in Body : CreateBody(b) \/ DestroyBody(b)
    \/ CreateHeightfield
    \/ \E d \in Desc : CreateConstraint(d)
    \/ \E id \in Ids : DestroyConstraint(id)
    \/ \E s \in Shape : CreateCharacter(s) \/ ApplyParams(s) \/ ResizeCharacter(s.half)

PhysicsNext == Simulate \/ Build

-----------------------------------------------------------------------------
(* Properties *)

\* What the last substep found standing, what its impulses broke at once and
\* what the waves can reach from there, each a neighbour too weak for what it bears.
Stood == {i \in Ids : joints[i].desc.force > 0 /\ (~joints[i].broken \/ i \in check.fresh)}
Struck == {i \in Stood : check.load[i] > joints[i].desc.force}
Weak == {i \in Stood : check.load[i] * world.cascade.stress > 2 * joints[i].desc.force}

Ends(i) == {joints[i].desc.a, joints[i].desc.b}
Near == {p \in Stood \X Weak : Ends(p[1]) \cap Ends(p[2]) # {}}
WaveLimit == IF world.cascade.enabled THEN world.cascade.maxDepth ELSE 0

Along(near, some) == {p[2] : p \in {q \in near : q[1] \in some}}
Waves(from, near, depth) ==
    LET after[n \in 0 .. depth] ==
          IF n = 0 THEN from ELSE after[n - 1] \cup Along(near, after[n - 1])
    IN  after
Reached == Waves(Struck, Near, WaveLimit)[WaveLimit]

\* In whatever order the map is visited, a substep breaks exactly what the
\* impulses and the waves reach, each once and told once; only the cap cuts it
\* short, and then it is used up (checkBreakableConstraints 940-1013).
BreaksAreExact ==
    check.at = "substep" /\ clock.done > 0 =>
        /\ check.fresh \subseteq Reached /\ check.told = Cardinality(check.fresh)
        /\ \/ check.fresh = Reached
           \/ Cardinality(check.fresh) = MaxBreaks /\ Cardinality(Reached) > MaxBreaks

\* The neighbours a broken constraint is said to have are those it has: each
\* body knows the constraints that hold it, through every creation and
\* destruction (createConstraint 823-824, destroyConstraint 837-850).
AdjacencyIsExact ==
    \A b \in Body : adjacent[b] = {i \in Ids : b \in {joints[i].desc.a, joints[i].desc.b}}

\* A character that gets another shape keeps its feet where they are
\* (resizeCharacter 671-680, applyParams 706-735).
FeetStayPut ==
    [][\A i \in DOMAIN characters \cap DOMAIN characters' :
          characters'[i].shape # characters[i].shape =>
              Foot(characters'[i]) = Foot(characters[i])]_characters
=============================================================================
