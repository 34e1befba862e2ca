---------------------------- MODULE InputFrames ----------------------------
(****************************************************************************)
(* Input, the commands by which DevServer feeds it, and InputBindings, as a *)
(* game calls them: commands and key holds before a frame, one update() in  *)
(* it, queries after it. Keys and the buttons of a gamepad are held by      *)
(* somebody, injected for a frame or held by a command; a mouse button is   *)
(* clicked by a command.                                                    *)
(*                                                                          *)
(* Positions, scroll and axes are sums and scalings of floats and left out, *)
(* and so is a mouse button somebody holds, which GLFW is asked for at each *)
(* query unless mouse input is suppressed.                                  *)
(* The last of a click's two frames releases the button it was asked for    *)
(* last, and what is injected into a gamepad that is not there stays: the   *)
(* buttons it happens to are kept in `overtaken` and `stranded`.            *)
(*                                                                          *)
(* Bounds: a hold lasts MaxHold frames.                                     *)
(****************************************************************************)
EXTENDS Integers, FiniteSets

CONSTANTS
    Key, Button, PadButton,
    Action,      \* logical actions
    Default,     \* loadDefaults: action -> slot -> binding
    Binding,     \* [source, code] a player may choose, NoBinding
    NoBinding,   \* BindSource::None
    MaxHold

BindSlot == {"primary", "alternate", "gamepad"}
NoPad == {"unplugged"}

ASSUME InputAssumption ==
    /\ NoBinding \in Binding /\ Default \in [Action -> [BindSlot -> Binding]]
    /\ \A b \in Binding : b = [source |-> b.source, code |-> b.code]
    /\ MaxHold \in Nat \ {0} /\ "unplugged" \notin PadButton

VARIABLES
    held,        \* what somebody holds: keys, pad (NoPad: none is connected)
    input,       \* Input: keys, injected keys, click in progress, gamepad
    holds,       \* m_keyHolds: key -> frames left
    imgui,       \* mouse buttons ImGui takes for pressed by a click
    frame,       \* where the frame is: "commands" or "update"
    quiet,       \* history: updates since anything was to be down, at most 2; negative
                 \* while a command's hold lasts
    overtaken,   \* history: buttons whose release another click took
    stranded,    \* history: buttons injected into no gamepad
    bindings,    \* m_bindings
    bindingFile, \* what it holds: action -> slots
    saved        \* history: the bindings it was written of, if it is whole

deviceVars == <<held, input, holds, imgui, frame, quiet, overtaken, stranded>>
bindingVars == <<bindings, bindingFile, saved>>
inputVars == <<deviceVars, bindingVars>>

\* No file, or one that does not parse: nothing of it is read.
Unread == [a \in Action |-> [s \in {} |-> NoBinding]]

NoHolds == [k \in {} |-> 0]
InputInit ==
    /\ held = [keys |-> {}, pad |-> NoPad]
    /\ input = [keys |-> {}, injected |-> {}, frames |-> 0, button |-> 0, active |-> FALSE,
                connected |-> FALSE, pad |-> {}, padInjected |-> {}]
    /\ holds = NoHolds /\ imgui = {} /\ frame = "commands" /\ quiet = 2
    /\ overtaken = {} /\ stranded = {}
    /\ bindings = Default /\ bindingFile = Unread /\ saved = {}

-----------------------------------------------------------------------------
(* Somebody at the keyboard and the gamepad *)

Hold(keys, pad) ==
    /\ held' = [keys |-> keys, pad |-> pad]
    /\ UNCHANGED <<input, holds, imgui, frame, quiet, overtaken, stranded, bindingVars>>

-----------------------------------------------------------------------------
(* DevServer: commands on the main thread, and the key holds *)

\* A command after which keys are to be down for n more updates.
Commanded(new, n) ==
    /\ frame = "commands" /\ input' = new
    /\ quiet' = IF quiet < 1 - n THEN quiet ELSE 1 - n
    /\ UNCHANGED <<held, imgui, frame, stranded, bindingVars>>

InjectKey(k) ==
    Commanded([input EXCEPT !.injected = @ \cup {k}], 1) /\ UNCHANGED <<holds, overtaken>>

\* The next two updates are to press and to release it.
InjectMouseClick(b) ==
    /\ Commanded([input EXCEPT !.frames = 2, !.button = b], 1)
    /\ overtaken' = IF input.frames = 1 THEN overtaken \cup {input.button} ELSE overtaken
    /\ UNCHANGED holds

InjectGamepadButton(b) ==
    Commanded([input EXCEPT !.padInjected = @ \cup {b}], 1) /\ UNCHANGED <<holds, overtaken>>

HoldKey(k, n) ==
    /\ Commanded([input EXCEPT !.injected = @ \cup {k}], n)
    /\ holds' = [j \in DOMAIN holds \cup {k} |-> IF j = k THEN n ELSE holds[j]]
    /\ UNCHANGED overtaken

ReleaseKey(k) ==
    /\ Commanded(input, 1)
    /\ holds' = [j \in DOMAIN holds \ {k} |-> holds[j]]
    /\ UNCHANGED overtaken

\* Mutant: a hold that ran out is kept.
KeptHolds == [k \in DOMAIN holds |-> IF holds[k] = 0 THEN 0 ELSE holds[k] - 1]
LastingHolds == [k \in {j \in DOMAIN holds : holds[j] > 0} |-> holds[k] - 1]

TickHolds ==
    /\ frame = "commands" /\ frame' = "update"
    /\ holds' = LastingHolds
    /\ input' = [input EXCEPT !.injected = @ \cup DOMAIN holds']
    /\ UNCHANGED <<held, imgui, quiet, overtaken, stranded, bindingVars>>

-----------------------------------------------------------------------------
(* update() *)

Connected == held.pad # NoPad
\* A gamepad that goes takes its buttons along.
Polled == IF Connected THEN held.pad ELSE IF input.connected THEN {} ELSE input.pad

\* Mutant: the buffer of injected keys is not cleared.
KeepInjected == input.injected
ClearInjected == {}

Updated ==
    [keys |-> held.keys \cup input.injected, injected |-> ClearInjected,
     frames |-> IF input.frames > 0 THEN input.frames - 1 ELSE 0, button |-> input.button,
     active |-> IF input.frames > 0 THEN input.frames = 2 ELSE input.active,
     connected |-> Connected, pad |-> Polled \cup input.padInjected, padInjected |-> {}]

UpdateInput ==
    /\ frame = "update" /\ frame' = "commands"
    /\ input' = Updated
    /\ imgui' = CASE input.frames = 2 -> imgui \cup {input.button}
                  [] input.frames = 1 -> imgui \ {input.button}
                  [] OTHER -> imgui
    /\ overtaken' = IF input.frames = 1 THEN overtaken \ {input.button} ELSE overtaken
    /\ stranded' = CASE Connected -> {}
                     [] input.connected -> input.padInjected
                     [] OTHER -> stranded \cup input.padInjected
    /\ quiet' = CASE quiet < 0 -> quiet + 1
                  [] quiet >= 0 /\ (held.keys # {} \/ held.pad \notin {{}, NoPad}) -> 0
                  [] OTHER -> IF quiet < 2 THEN quiet + 1 ELSE 2
    /\ UNCHANGED <<held, holds, bindingVars>>

-----------------------------------------------------------------------------
(* Queries, and the bindings they go by *)

IsMouseDown(b) == input.active /\ b = input.button

IsBindingDown(b) ==
    \/ b.source = "key" /\ b.code \in input.keys
    \/ b.source = "mouse" /\ IsMouseDown(b.code)
    \/ b.source = "gamepad_button" /\ b.code \in input.pad

IsActionDown(a) == \E s \in BindSlot : IsBindingDown(bindings[a][s])

Rebind(a, s, b) ==
    /\ bindings' = [bindings EXCEPT ![a][s] = b]
    /\ UNCHANGED <<bindingFile, saved, deviceVars>>

\* A slot without a binding is not written.
ToFile == [a \in Action |-> [s \in {t \in BindSlot : bindings[a][t] # NoBinding} |-> bindings[a][s]]]

\* The file is written in place: a crash leaves it torn.
SaveBindings ==
    /\ \/ bindingFile' = ToFile /\ saved' = {bindings}
       \/ bindingFile' = Unread /\ saved' = {}
    /\ UNCHANGED <<bindings, deviceVars>>

\* Mutant: the alternates are not read back.
WithoutAlternates ==
    [a \in Action |-> [s \in BindSlot |->
        IF s \in DOMAIN bindingFile[a] \ {"alternate"} THEN bindingFile[a][s] ELSE Default[a][s]]]
FromFile ==
    [a \in Action |-> [s \in BindSlot |->
        IF s \in DOMAIN bindingFile[a] THEN bindingFile[a][s] ELSE Default[a][s]]]

\* The next start: the defaults, and over them what the file has.
StartBindings ==
    /\ bindings' = FromFile
    /\ UNCHANGED <<bindingFile, saved, deviceVars>>

DeviceNext ==
    \/ \E keys \in SUBSET Key, pad \in (SUBSET PadButton) \cup {NoPad} : Hold(keys, pad)
    \/ \E k \in Key : InjectKey(k) \/ ReleaseKey(k) \/ \E n \in 1 .. MaxHold : HoldKey(k, n)
    \/ \E b \in Button : InjectMouseClick(b)
    \/ \E b \in PadButton : InjectGamepadButton(b)
    \/ TickHolds \/ UpdateInput

BindingsNext ==
    \/ \E a \in Action, s \in BindSlot, b \in Binding : Rebind(a, s, b)
    \/ SaveBindings \/ StartBindings

-----------------------------------------------------------------------------
(* Properties *)

\* Two updates after the last key or button was let go, was injected or was to be
\* held for by a command nothing is down any more, for the game or for ImGui, and no action
\* is; but for the buttons named above (update 118-210, pollCommands 120-137).
NothingSticks ==
    (quiet = 2 /\ frame = "commands") =>
        /\ input.keys \cup input.injected = {} /\ ~input.active
        /\ imgui \subseteq overtaken /\ input.pad \subseteq stranded
        /\ \A a \in Action : IsActionDown(a) =>
              \E s \in BindSlot : bindings[a][s] \in [source: {"gamepad_button"}, code: stranded]

\* What was saved is what the next start binds, but for a slot that was emptied
\* and has a default (loadFromFile 82-103, saveToFile 105-124).
BindingsReturn ==
    [][StartBindings => \A b \in saved, a \in Action, s \in BindSlot :
          bindings'[a][s] = b[a][s] \/ b[a][s] = NoBinding]_inputVars

InputIsFaithful == []NothingSticks /\ BindingsReturn
=============================================================================
