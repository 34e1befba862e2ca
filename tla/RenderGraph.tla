----------------------------- MODULE RenderGraph ----------------------------
(****************************************************************************)
(* RenderGraph, its resources and its GpuProfiler, as the frames of a game  *)
(* use them: passes are built in or come and go with plugins, a frame       *)
(* records those that are enabled in their order with the layout barriers   *)
(* they need, and the times of a frame are read when its fence is signalled.*)
(*                                                                          *)
(* A pass uses an image in one layout. Buffers get no barrier and are left  *)
(* out, and so are the access and stage masks of a barrier. The layouts of  *)
(* a frame are tracked from the initial ones whatever the frame before left *)
(* behind: an image that strayed is not in the layout its barrier names.    *)
(****************************************************************************)
EXTENDS Integers, Sequences, FiniteSets, SequencesExt

CONSTANTS
    BuiltIn,     \* passes the game adds: name -> [order, uses: image -> layout]
    Plugin,      \* passes plugins register, the same
    Initial,     \* image -> initial layout
    Undefined,   \* VK_IMAGE_LAYOUT_UNDEFINED
    FramesInFlight  \* GpuProfiler::MAX_FRAMES

Known ==
    [n \in DOMAIN BuiltIn \cup DOMAIN Plugin |->
        IF n \in DOMAIN BuiltIn THEN BuiltIn[n] ELSE Plugin[n]]

\* No pass can ask for the undefined layout: a barrier to it is not allowed.
ASSUME GraphAssumption ==
    /\ DOMAIN BuiltIn \cap DOMAIN Plugin = {} /\ IsFiniteSet(DOMAIN BuiltIn)
    /\ FramesInFlight \in Nat \ {0}
    /\ \A n \in DOMAIN Known :
          /\ Known[n].order \in Nat /\ DOMAIN Known[n].uses \subseteq DOMAIN Initial
          /\ \A i \in DOMAIN Known[n].uses : Known[n].uses[i] # Undefined

VARIABLES
    passes,      \* m_passes: name, enabled, profiler slot (0 is none)
    resort,      \* m_needsResort
    layout,      \* the layout each image really is in
    pool,        \* per frame in flight: slot -> the pass its times are of
    profiler,    \* enabled; per slot its name and the pass of the time it shows
    recorded     \* the last frame: passes, with the layouts they found

graphVars == <<passes, resort, layout, pool, profiler, recorded>>

InFlight == 0 .. FramesInFlight - 1
NoPass == "none"
Unwritten(slots) == [f \in InFlight |-> [s \in 1 .. slots |-> NoPass]]

Order(pass) == Known[pass.name].order
InOrder(seq) == \A i \in 1 .. Len(seq) - 1 : Order(seq[i]) <= Order(seq[i + 1])

\* Passes of equal order end up in any order.
Compiled(seq) ==
    {[i \in DOMAIN s |-> [s[i] EXCEPT !.slot = i]] :
        s \in {p \in SetToSeqs(ToSet(seq)) : InOrder(p)}}

\* Mutant: the pool of the last compile goes on being used.
KeptPool(slots) ==
    [f \in InFlight |-> [s \in 1 .. slots |->
        IF s \in DOMAIN pool[f] THEN pool[f][s] ELSE NoPass]]
NewPool(slots) == Unwritten(slots)

GraphInit ==
    /\ passes \in Compiled(SetToSeq({[name |-> n, enabled |-> TRUE, slot |-> 0] :
                                        n \in DOMAIN BuiltIn}))
    /\ resort = FALSE /\ layout = Initial /\ recorded = <<>>
    /\ pool = Unwritten(Len(passes))
    /\ profiler = [enabled |-> FALSE,
                   slots |-> [i \in DOMAIN passes |-> [name |-> passes[i].name, of |-> NoPass]]]

-----------------------------------------------------------------------------
(* Between frames *)

SetPassEnabled(n, on) ==
    /\ \E i \in DOMAIN passes : passes[i].name = n
    /\ passes' = [i \in DOMAIN passes |->
          IF passes[i].name = n THEN [passes[i] EXCEPT !.enabled = on] ELSE passes[i]]
    /\ UNCHANGED <<resort, layout, pool, profiler, recorded>>

RegisterDllPass(n) ==
    /\ n \in DOMAIN Plugin /\ \A i \in DOMAIN passes : passes[i].name # n
    /\ passes' = Append(passes, [name |-> n, enabled |-> TRUE, slot |-> 0])
    /\ resort' = TRUE
    /\ UNCHANGED <<layout, pool, profiler, recorded>>

UnregisterDllPass(n) ==
    /\ n \in DOMAIN Plugin
    /\ \E i \in DOMAIN passes : passes[i].name = n /\ passes' = RemoveAt(passes, i)
    /\ resort' = TRUE
    /\ UNCHANGED <<layout, pool, profiler, recorded>>

EnableProfiler(on) ==
    /\ profiler' = [profiler EXCEPT !.enabled = on]
    /\ UNCHANGED <<passes, resort, layout, pool, recorded>>

\* Nothing is shown while one slot of the frame has no time yet.
Readback(f) ==
    /\ profiler.enabled
    /\ \A s \in DOMAIN profiler.slots : pool[f][s] # NoPass
    /\ profiler' = [profiler EXCEPT !.slots = [s \in DOMAIN @ |-> [@[s] EXCEPT !.of = pool[f][s]]]]
    /\ UNCHANGED <<passes, resort, layout, pool, recorded>>

-----------------------------------------------------------------------------
(* A frame *)

Uses(pass) == Known[pass.name].uses

\* The tracked and the real layouts after the barriers of one pass, and what it
\* finds. A barrier is left out when the tracked layout is the required one.
\* A pass has no predicate of its own here: what one may say for a frame is what
\* SetPassEnabled may have said before it.
Recording(frame, pass) ==
    IF ~pass.enabled THEN frame
    ELSE LET uses == Uses(pass)
             turned == {i \in DOMAIN uses : frame.tracked[i] # uses[i]}
             real == [i \in DOMAIN Initial |-> IF i \in turned THEN uses[i] ELSE frame.real[i]]
         IN  [tracked |-> [i \in DOMAIN Initial |->
                              IF i \in turned THEN uses[i] ELSE frame.tracked[i]],
              real |-> real,
              log |-> Append(frame.log, [name |-> pass.name,
                                         found |-> [i \in DOMAIN uses |-> real[i]]])]

\* The frame after each pass.
FrameAfter(now) ==
    LET after[n \in 0 .. Len(now)] ==
            IF n = 0 THEN [tracked |-> Initial, real |-> layout, log |-> <<>>]
            ELSE Recording(after[n - 1], now[n])
    IN  after

\* Passes that came or went are compiled in before they are recorded.
Current == IF resort THEN Compiled(passes) ELSE {passes}

\* A disabled pass writes its two times as well.
Execute(f) ==
    \E now \in Current :
       LET frame == FrameAfter(now)[Len(now)]
           fresh == IF resort THEN NewPool(Len(now)) ELSE pool
       IN  /\ passes' = now /\ resort' = FALSE
           /\ layout' = frame.real /\ recorded' = frame.log
           /\ profiler' = IF resort
                 THEN [profiler EXCEPT !.slots =
                          [i \in DOMAIN now |-> [name |-> now[i].name, of |-> NoPass]]]
                 ELSE profiler
           /\ pool' = IF profiler.enabled
                 THEN [fresh EXCEPT ![f] = [s \in DOMAIN @ |->
                          IF \E i \in DOMAIN now : now[i].slot = s
                            THEN now[CHOOSE i \in DOMAIN now : now[i].slot = s].name
                            ELSE NoPass]]
                 ELSE fresh

GraphNext ==
    \/ \E n \in DOMAIN Known, on \in BOOLEAN : SetPassEnabled(n, on)
    \/ \E n \in DOMAIN Plugin : RegisterDllPass(n) \/ UnregisterDllPass(n)
    \/ \E on \in BOOLEAN : EnableProfiler(on)
    \/ \E f \in InFlight : Readback(f) \/ Execute(f)

-----------------------------------------------------------------------------
(* Properties *)

\* A frame records the enabled passes once each in their order, plugins' passes
\* among them as soon as they are registered and no longer, every image in the
\* layout its pass declares unless it strayed; and a time the profiler shows
\* is of the pass it is shown for (execute 38-181, registerDllPass 202-223,
\* GpuProfiler 42-96).
PassesAreComposed ==
    /\ [][ graphVars' # graphVars => \A f \in InFlight : Execute(f) =>
            LET strayed == {i \in DOMAIN Initial : Initial[i] \notin {layout[i], Undefined}}
                on == {i \in DOMAIN passes : passes[i].enabled}
            IN  /\ InOrder(recorded') /\ IsInjective(recorded')
                /\ {recorded'[i].name : i \in DOMAIN recorded'} = {passes[i].name : i \in on}
                /\ \A i \in DOMAIN recorded' : \A image \in DOMAIN recorded'[i].found \ strayed :
                      recorded'[i].found[image] = Uses(recorded'[i])[image] ]_graphVars
    /\ [](\A s \in DOMAIN profiler.slots :
            profiler.slots[s].of \in {NoPass, profiler.slots[s].name})
=============================================================================
