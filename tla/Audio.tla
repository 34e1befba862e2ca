------------------------------- MODULE Audio --------------------------------
(****************************************************************************)
(* The event-driven audio of a game: banks define events, posting an event  *)
(* picks a variant and one of its files and starts a sound in a free slot,  *)
(* and every event counts its voices. One thread calls it; miniaudio,       *)
(* external, loads a file or does not and finishes a sound when it likes.   *)
(* Volume, pitch and position are left out, and so are environment tags,    *)
(* which only come back as they were set.                                   *)
(*                                                                          *)
(* Bounds: the clock stops at MaxTime and MaxHandle sounds are started.     *)
(****************************************************************************)
EXTENDS Integers, Sequences, FiniteSets, Functions, SequencesExt

CONSTANTS
    Bank,        \* banks: sequences of <<name, event>>, as the file lists them
    Level,       \* values of the one game parameter variants depend on
    Tag,         \* tags of events
    MaxSounds,   \* MAX_SOUNDS, the slots
    MaxHandle,
    MaxTime

ASSUME AudioAssumption ==
    /\ {MaxSounds, MaxHandle, MaxTime} \subseteq Nat
    /\ Level # {}

\* maxVoices is any int of the file.
ASSUME BankAssumption == \A b \in Bank : \A n \in 1 .. Len(b) : b[n][2].max \in Int

VARIABLES
    events,      \* m_events: name -> definition, with its voices and last play
    slots,       \* m_slots: the sound that plays there, or Silent
    param,       \* the game parameter
    now,         \* the engine's time
    nextHandle,
    reloaded     \* events redefined while they played

audioVars == <<events, slots, param, now, nextHandle, reloaded>>

Silent == [handle |-> 0]
Slot == 1 .. MaxSounds
Playing(i) == slots[i] # Silent
Voices(e) == Cardinality({i \in Slot : Playing(i) /\ slots[i].event = e})

AudioInit ==
    /\ events = [e \in {} |-> 0] /\ slots = [i \in Slot |-> Silent]
    /\ param \in Level /\ now = 0 /\ nextHandle = 1 /\ reloaded = {}

\* A definition as it is read: nothing played yet, nothing counted.
Fresh(def) ==
    [max |-> def.max, cooldown |-> def.cooldown, looping |-> def.looping, tags |-> def.tags,
     variants |-> [v \in DOMAIN def.variants |->
         [files |-> def.variants[v].files, mode |-> def.variants[v].mode,
          when |-> def.variants[v].when, order |-> <<>>, index |-> 0]],
     last |-> 0, voices |-> 0]

\* The events before the one that does not parse are defined all the same.
LoadBank(bank, read) ==
    LET names == {bank[n][1] : n \in 1 .. read}
        def(e) == bank[CHOOSE n \in 1 .. read : bank[n][1] = e][2]
    IN  /\ events' = [e \in DOMAIN events \cup names |->
                         IF e \in names THEN Fresh(def(e)) ELSE events[e]]
        /\ reloaded' = reloaded \cup {e \in names : Voices(e) > 0}
        /\ UNCHANGED <<slots, param, now, nextHandle>>

SetParam(x) == param' = x /\ UNCHANGED <<events, slots, now, nextHandle, reloaded>>

Passes == now < MaxTime /\ now' = now + 1 /\ UNCHANGED <<events, slots, param, nextHandle, reloaded>>

-----------------------------------------------------------------------------
(* Posting an event *)

\* The variants whose condition holds; the first one when none does.
Candidates(def) ==
    LET fit == {v \in DOMAIN def.variants : param \in def.variants[v].when}
    IN  IF fit # {} \/ def.variants = <<>> THEN fit ELSE {1}

\* The variant after one of its files was picked.
Picked(var) ==
    CASE var.files < 2 -> {var}
      [] var.files >= 2 /\ var.mode = "random" -> {var}
      [] var.files >= 2 /\ var.mode = "round_robin" ->
           {[var EXCEPT !.index = (@ + 1) % var.files]}
      [] var.files >= 2 /\ var.mode = "shuffle" ->
           IF var.index < Len(var.order) THEN {[var EXCEPT !.index = @ + 1]}
           ELSE {[var EXCEPT !.order = o, !.index = 1] : o \in SetToSeqs(1 .. var.files)}

Cooling(def) == def.cooldown > 0 /\ now - def.last < def.cooldown

Played(def) == [def EXCEPT !.last = IF def.cooldown > 0 THEN now ELSE @]

Free == {i \in Slot : ~Playing(i)}

Start(e, def) ==
    LET slot == CHOOSE i \in Free : \A j \in Free : i <= j
    IN  /\ slots' = [slots EXCEPT ![slot] =
              [handle |-> nextHandle, event |-> e, looping |-> def.looping, tags |-> def.tags]]
        /\ nextHandle' = nextHandle + 1
        /\ events' = [events EXCEPT ![e] = [def EXCEPT !.voices = @ + 1]]

\* The cooldown begins and the file is used up even when no sound starts.
Post(e) ==
    /\ nextHandle <= MaxHandle
    /\ events[e].voices < events[e].max /\ ~Cooling(events[e])
    /\ LET def == Played(events[e])
           silently(d) == events' = [events EXCEPT ![e] = d] /\ UNCHANGED <<slots, nextHandle>>
       IN  \/ /\ \/ Candidates(def) = {}
                 \/ \E v \in Candidates(def) : def.variants[v].files = 0
              /\ silently(def)
           \/ \E v \in Candidates(def) :
                /\ def.variants[v].files > 0
                /\ \E var \in Picked(def.variants[v]) :
                      LET used == [def EXCEPT !.variants[v] = var]
                      IN  silently(used) \/ (Free # {} /\ Start(e, used))
    /\ UNCHANGED <<param, now, reloaded>>

-----------------------------------------------------------------------------
(* Stopping and finishing *)

\* Mutant: whoever frees a slot leaves the event's count alone.
FreedUncounted(gone) == events
Freed(gone) ==
    [e \in DOMAIN events |->
        LET stopped == Cardinality({i \in gone : slots[i].event = e})
        IN  [events[e] EXCEPT !.voices = IF @ > stopped THEN @ - stopped ELSE 0]]

End(gone) ==
    /\ slots' = [i \in Slot |-> IF i \in gone THEN Silent ELSE slots[i]]
    /\ events' = Freed(gone)
    /\ UNCHANGED <<param, now, nextHandle, reloaded>>

StopEvent(handle) == End({i \in Slot : Playing(i) /\ slots[i].handle = handle})
StopByTag(tag) == End({i \in Slot : Playing(i) /\ tag \in slots[i].tags})

StopAll ==
    /\ slots' = [i \in Slot |-> Silent]
    /\ events' = [e \in DOMAIN events |-> [events[e] EXCEPT !.voices = 0]]
    /\ reloaded' = {}
    /\ UNCHANGED <<param, now, nextHandle>>

\* update() clears away the sounds, not the looping ones, that came to an end.
CleanupFinished ==
    \E over \in SUBSET {i \in Slot : Playing(i) /\ ~slots[i].looping} : End(over)

AudioNext ==
    \/ \E b \in Bank : \E n \in 0 .. Len(b) : LoadBank(b, n)
    \/ \E x \in Level : SetParam(x)
    \/ Passes
    \/ \E e \in DOMAIN events : Post(e)
    \/ \E h \in 1 .. MaxHandle : StopEvent(h)
    \/ \E t \in Tag : StopByTag(t)
    \/ StopAll \/ CleanupFinished

-----------------------------------------------------------------------------
(* Properties *)

\* An event's voices are the sounds of it that play, however they were started
\* and ended: no ended sound keeps it silent, no playing one is forgotten. Only a
\* bank that redefines an event while it plays makes it forget (postEventInternal
\* 303-312, stopEvent 319-336, stopByTag, cleanupFinished 468-483, loadBank 124).
VoicesCounted ==
    \A e \in DOMAIN events :
        /\ events[e].voices <= Voices(e)
        /\ events[e].voices > 0 => events[e].voices <= events[e].max
        /\ e \notin reloaded => events[e].voices = Voices(e)
=============================================================================
