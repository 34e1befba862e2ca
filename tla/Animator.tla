------------------------------ MODULE Animator ------------------------------
(****************************************************************************)
(* AnimationStateMachine: clips that play, transitions that fade from one   *)
(* to the next, and triggers that ask for them. A game builds the graph     *)
(* once, then updates it every frame and raises triggers, or forces a       *)
(* transition, between updates. Time is counted in ticks and a clip plays   *)
(* one tick per tick. The pose itself (ozz, external) is left out: the      *)
(* layers say which clip shows, how much and where it stands.               *)
(*                                                                          *)
(* A transition cannot be forced before there is an initial state: the code *)
(* would read the state of index -1.                                        *)
(****************************************************************************)
EXTENDS Integers, Sequences, FiniteSets

CONSTANTS
    Clip,         \* animation states: name -> [length: of its clip, or NoClip, loop: BOOLEAN]
    Transitions,  \* <<[from, to, trigger, fade, wait]>>, in the order added
    Forced,       \* durations of forced transitions, -1 for the edge's own
    Elapse,       \* dt of an update, in ticks
    MaxTriggers,  \* kMaxActiveTriggers
    NoTrigger,    \* the empty trigger
    Nowhere       \* no state

AnimState == DOMAIN Clip
NoClip == -1
Trigger == {Transitions[i].trigger : i \in DOMAIN Transitions} \ {NoTrigger}

ASSUME AnimatorAssumption ==
    /\ Clip \in [AnimState -> [length : Nat \cup {NoClip}, loop : BOOLEAN]]
    /\ DOMAIN Transitions \subseteq Nat
    /\ \A i \in DOMAIN Transitions :
          {Transitions[i].from, Transitions[i].to} \subseteq AnimState /\ Transitions[i].fade \in Int
    /\ Forced \subseteq Int
    /\ Nowhere \notin AnimState /\ Elapse \subseteq Nat \ {0} /\ MaxTriggers \in Nat

VARIABLES
    anim,      \* current and target state, elapsed and whole crossfade
    cursor,    \* where each state's clip stands
    triggers   \* active triggers, in their array

animatorVars == <<anim, cursor, triggers>>

AnimatorInit ==
    /\ anim = [current |-> Nowhere, target |-> Nowhere, elapsed |-> 0, fade |-> 0]
    /\ cursor = [s \in AnimState |-> 0]
    /\ triggers = <<>>

Fading == anim.target # Nowhere

SetInitialState(s) ==
    /\ anim' = [current |-> s, target |-> Nowhere, elapsed |-> 0, fade |-> 0]
    /\ cursor' = [cursor EXCEPT ![s] = 0]
    /\ UNCHANGED triggers

-----------------------------------------------------------------------------
(* Triggers *)

Active(t) == \E i \in DOMAIN triggers : triggers[i] = t

\* A trigger raised twice is one trigger; one too many is dropped.
SetTrigger(t) ==
    /\ triggers' = IF Active(t) \/ Len(triggers) >= MaxTriggers THEN triggers
                   ELSE Append(triggers, t)
    /\ UNCHANGED <<anim, cursor>>

\* The last of the array takes the place of the one removed.
Removed(t) ==
    IF ~Active(t) THEN triggers
    ELSE LET i == CHOOSE n \in DOMAIN triggers : triggers[n] = t
         IN  SubSeq([triggers EXCEPT ![i] = triggers[Len(triggers)]], 1, Len(triggers) - 1)

ClearTrigger(t) == triggers' = Removed(t) /\ UNCHANGED <<anim, cursor>>
ClearAllTriggers == triggers' = <<>> /\ UNCHANGED <<anim, cursor>>

-----------------------------------------------------------------------------
(* Transitions *)

\* A clip of no length has nothing to end at.
Advanced(s, dt) ==
    LET c == Clip[s]
        at == cursor[s] + dt
    IN  IF c.length = NoClip THEN cursor[s]
        ELSE IF c.length = 0 THEN at
        ELSE IF c.loop THEN at % c.length
        ELSE IF at > c.length THEN c.length ELSE at

Finished(s, at) == ~Clip[s].loop /\ at >= Clip[s].length

AtLeastOne(d) == IF d > 1 THEN d ELSE 1

\* Mutant: a transition of a state to itself starts over.
BegunAnyway(a, to, d) == [a EXCEPT !.target = to, !.elapsed = 0, !.fade = AtLeastOne(d)]
Begun(a, to, d) ==
    IF to = a.current THEN a
    ELSE [a EXCEPT !.target = to, !.elapsed = 0, !.fade = AtLeastOne(d)]

\* The target's clip starts from its beginning.
Rewound(c, a, b) ==
    IF b = a THEN c ELSE [c EXCEPT ![b.target] = 0]

Completed(a) ==
    [current |-> a.target, target |-> Nowhere, elapsed |-> 0, fade |-> 0]

Fires(e, at) ==
    /\ e.from = anim.current
    /\ IF e.wait THEN Finished(anim.current, at) /\ (e.trigger = NoTrigger \/ Active(e.trigger))
       ELSE e.trigger # NoTrigger /\ Active(e.trigger)

\* While fading both clips play and no transition is looked at.
Fade(dt) ==
    /\ Fading
    /\ cursor' = [s \in AnimState |->
          IF s \in {anim.current, anim.target} THEN Advanced(s, dt) ELSE cursor[s]]
    /\ anim' = LET a == [anim EXCEPT !.elapsed = @ + dt]
               IN  IF a.elapsed >= a.fade THEN Completed(a) ELSE a
    /\ UNCHANGED triggers

\* The first transition that fires uses up its trigger.
Play(dt) ==
    /\ anim.current # Nowhere /\ ~Fading
    /\ LET played == [cursor EXCEPT ![anim.current] = Advanced(anim.current, dt)]
           firing == {i \in DOMAIN Transitions : Fires(Transitions[i], played[anim.current])}
       IN  IF firing = {} THEN cursor' = played /\ UNCHANGED <<anim, triggers>>
           ELSE LET e == Transitions[CHOOSE i \in firing : \A j \in firing : i <= j]
                IN  /\ anim' = Begun(anim, e.to, e.fade)
                    /\ cursor' = Rewound(played, anim, anim')
                    /\ triggers' = IF e.trigger = NoTrigger THEN triggers ELSE Removed(e.trigger)

Update(dt) == Fade(dt) \/ Play(dt)

EdgeFade(to) ==
    LET edges == {i \in DOMAIN Transitions :
                     Transitions[i].from = anim.current /\ Transitions[i].to = to}
    IN  IF edges = {} THEN 1
        ELSE Transitions[CHOOSE i \in edges : \A j \in edges : i <= j].fade

\* Forced, past any trigger; during a crossfade it takes its place.
TriggerTransition(to, d) ==
    /\ anim.current # Nowhere /\ (to # anim.current \/ Fading)
    /\ anim' = Begun(anim, to, IF d >= 0 THEN d ELSE EdgeFade(to))
    /\ cursor' = Rewound(cursor, anim, anim')
    /\ UNCHANGED triggers

AnimatorNext ==
    \/ \E s \in AnimState : SetInitialState(s)
    \/ \E t \in Trigger : SetTrigger(t) \/ ClearTrigger(t)
    \/ ClearAllTriggers
    \/ \E dt \in Elapse : Update(dt)
    \/ \E s \in AnimState, d \in Forced : TriggerTransition(s, d)

-----------------------------------------------------------------------------
(* What is shown *)

\* getBlendLayers: the weight of a state's clip, in parts of the crossfade.
Weight(a, s) ==
    IF a.target = Nowhere THEN IF s = a.current THEN 1 ELSE 0
    ELSE CASE s = a.target -> a.elapsed
           [] s = a.current -> a.fade - a.elapsed
           [] OTHER -> 0

\* What a game asks for in the middle of a crossfade may jump; nothing else may.
Undisturbed ==
    \/ \E dt \in Elapse : Update(dt)
    \/ ~Fading /\ \E s \in AnimState, d \in Forced : TriggerTransition(s, d)

\* An update, or a transition forced outside a crossfade, never makes the picture
\* jump: a clip that shows plays on from where it stands, and one that goes out of
\* sight had faded out but for the ticks that end the crossfade (update 56-106,
\* beginTransition 258-272, getBlendLayers 196-224).
NothingPops ==
    [][ Undisturbed => \A s \in AnimState : Weight(anim, s) > 0 =>
          /\ cursor'[s] \in {cursor[s]} \cup {Advanced(s, dt) : dt \in Elapse}
          /\ Weight(anim', s) = 0 => \E dt \in Elapse : Weight(anim, s) <= dt
      ]_animatorVars
=============================================================================
