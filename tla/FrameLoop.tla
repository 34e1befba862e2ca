----------------------------- MODULE FrameLoop ------------------------------
(****************************************************************************)
(* One frame of the application after the other: wait for the frame's       *)
(* fence, acquire an image, write what the GPU will read, bake a picture    *)
(* when one was asked for, submit, present. The graphics queue and the      *)
(* presentation engine are external and take their time, in order.          *)
(*                                                                          *)
(* A frame's command buffer and scene UBO are its own; the bone palette is  *)
(* one for all frames and so is not part of what FramesDoNotCollide states. *)
(* Acquire either succeeds or finds the surface resized: any other error    *)
(* falls through to a submit that waits for a semaphore nobody signals.     *)
(* After a resize no frame is drawn any more: nobody recreates the          *)
(* swapchain.                                                               *)
(****************************************************************************)
EXTENDS Thumbnails

CONSTANTS
    MaxFrames,   \* MAX_FRAMES
    Image        \* swapchain images

ASSUME FrameLoopAssumption == MaxFrames \in Nat \ {0} /\ Image \subseteq Nat

VARIABLES
    cpu,         \* the main thread: where it is, its frame, its image
    fence,       \* inFlight of each frame: signalled
    available,   \* imageAvailable of each frame: signalled
    finished,    \* renderFinished semaphores: clear, pending, signalled
    queue,       \* submitted work: the frame and image, or a bake
    screen,      \* images free, presented and shown; is the surface resized
    request      \* the texture to bake

frameVars == <<cpu, fence, available, finished, queue, screen, request>>

Frame == 0 .. MaxFrames - 1
Nothing == "none"
Bake == [frame |-> MaxFrames, image |-> 0]

FrameInit ==
    /\ cpu = [at |-> "wait", frame |-> 0, image |-> 0]
    /\ fence = [f \in Frame |-> TRUE]
    /\ available = [f \in Frame |-> FALSE]
    /\ finished = [i \in Image |-> "clear"]
    /\ queue = <<>>
    /\ screen = [free |-> Image, presented |-> <<>>, shown |-> <<>>, resized |-> FALSE]
    /\ request = Nothing

GoTo(there) == cpu' = [cpu EXCEPT !.at = there]

-----------------------------------------------------------------------------
(* The main thread *)

WaitForFence ==
    /\ cpu.at = "wait" /\ fence[cpu.frame]
    /\ GoTo("acquire")
    /\ UNCHANGED <<fence, available, finished, queue, screen, request>>

Close ==
    /\ cpu.at = "wait"
    /\ GoTo("closing")
    /\ UNCHANGED <<fence, available, finished, queue, screen, request>>

\* Mutant: the fence is reset before the image is there.
ResetAnyway(acquired) == [fence EXCEPT ![cpu.frame] = FALSE]
Reset(acquired) == IF acquired THEN [fence EXCEPT ![cpu.frame] = FALSE] ELSE fence

AcquireResized ==
    /\ cpu.at = "acquire" /\ screen.resized
    /\ GoTo("wait") /\ fence' = Reset(FALSE)
    /\ UNCHANGED <<available, finished, queue, screen, request>>

Acquire(i) ==
    /\ cpu.at = "acquire" /\ ~screen.resized /\ i \in screen.free
    /\ cpu' = [cpu EXCEPT !.at = "draw", !.image = i]
    /\ fence' = Reset(TRUE)
    /\ available' = [available EXCEPT ![cpu.frame] = TRUE]
    /\ screen' = [screen EXCEPT !.free = @ \ {i}]
    /\ UNCHANGED <<finished, queue, request>>

AskForBake(t) ==
    /\ cpu.at = "draw" /\ request = Nothing /\ listed[t] # 0
    /\ request' = t
    /\ UNCHANGED <<cpu, fence, available, finished, queue, screen>>

Drawn ==
    /\ cpu.at = "draw"
    /\ GoTo(IF request = Nothing THEN "record" ELSE "bake")
    /\ UNCHANGED <<fence, available, finished, queue, screen, request>>

\* The device is idle before the scene UBO is borrowed and the bake submitted.
StartBake ==
    /\ cpu.at = "bake" /\ queue = <<>>
    /\ Load(request)
    /\ IF files[request] = 0
         THEN GoTo("record") /\ request' = Nothing /\ UNCHANGED queue
         ELSE GoTo("baking") /\ queue' = <<Bake>> /\ UNCHANGED request
    /\ UNCHANGED <<fence, available, finished, screen>>

EndBake ==
    /\ cpu.at = "baking" /\ queue = <<>>
    /\ Mark \/ GiveUp
    /\ GoTo("record") /\ request' = Nothing
    /\ UNCHANGED <<fence, available, finished, queue, screen>>

\* Mutant: one semaphore for each frame in flight, not for each image.
FrameSemaphore(f, i) == f
FinishedSemaphore(f, i) == i

Submit ==
    /\ cpu.at = "record"
    /\ queue' = Append(queue, [frame |-> cpu.frame, image |-> cpu.image])
    /\ finished' = [finished EXCEPT ![FinishedSemaphore(cpu.frame, cpu.image)] = "pending"]
    /\ GoTo("present")
    /\ UNCHANGED <<fence, available, screen, request>>

Present ==
    /\ cpu.at = "present"
    /\ screen' = [screen EXCEPT !.presented =
          Append(@, [image |-> cpu.image, after |-> FinishedSemaphore(cpu.frame, cpu.image)])]
    /\ cpu' = [cpu EXCEPT !.at = "wait", !.frame = (@ + 1) % MaxFrames]
    /\ UNCHANGED <<fence, available, finished, queue, request>>

\* Everything is destroyed once the device is idle.
Shutdown ==
    /\ cpu.at = "closing" /\ queue = <<>>
    /\ GoTo("gone")
    /\ UNCHANGED <<fence, available, finished, queue, screen, request>>

Gone == cpu.at = "gone" /\ UNCHANGED frameVars

-----------------------------------------------------------------------------
(* The GPU and the presentation engine *)

GpuRuns ==
    /\ queue # <<>>
    /\ queue' = Tail(queue)
    /\ LET work == Head(queue) IN
       IF work = Bake THEN UNCHANGED <<fence, available, finished>>
       ELSE /\ available[work.frame]
            /\ available' = [available EXCEPT ![work.frame] = FALSE]
            /\ finished' = [finished EXCEPT
                  ![FinishedSemaphore(work.frame, work.image)] = "signalled"]
            /\ fence' = [fence EXCEPT ![work.frame] = TRUE]
    /\ UNCHANGED <<cpu, screen, request>>

\* The next image is shown, the one shown until now is free.
Show ==
    /\ screen.presented # <<>>
    /\ LET next == Head(screen.presented) IN
        /\ finished[next.after] = "signalled"
        /\ finished' = [finished EXCEPT ![next.after] = "clear"]
        /\ screen' = [screen EXCEPT !.presented = Tail(@), !.shown = <<next.image>>,
                          !.free = @ \cup Range(screen.shown)]
    /\ UNCHANGED <<cpu, fence, available, queue, request>>

Resize ==
    /\ ~screen.resized
    /\ screen' = [screen EXCEPT !.resized = TRUE]
    /\ UNCHANGED <<cpu, fence, available, finished, queue, request>>

Draws ==
    \/ WaitForFence \/ Close \/ AcquireResized \/ (\E i \in Image : Acquire(i))
    \/ (\E t \in Texture : AskForBake(t))
    \/ Drawn \/ Submit \/ Present \/ Shutdown \/ Gone \/ GpuRuns \/ Show \/ Resize

\* The panels act while the frame is drawn.
Panels ==
    /\ cpu.at = "draw" /\ (Rescan \/ InvalidateStale \/ ClearCache)
    /\ UNCHANGED frameVars

Writes == (\E t \in Texture, v \in Version : Edit(t, v)) /\ UNCHANGED frameVars

FrameNext ==
    \/ Draws /\ UNCHANGED thumbnailVars
    \/ StartBake \/ EndBake \/ Panels \/ Writes

-----------------------------------------------------------------------------
(* Properties *)

Pending(f) == \E n \in DOMAIN queue : queue[n].frame = f

\* While the main thread writes a frame the GPU reads nothing of that frame, no
\* semaphore is handed out while its last signal is still to be waited for, and
\* a fence that is waited for is signalled or will be (onFrame 4525-4688, and the
\* comment of initFrameSync 2286-2289).
FramesDoNotCollide ==
    /\ cpu.at \in {"draw", "bake", "baking", "record"} => ~Pending(cpu.frame)
    /\ cpu.at = "acquire" => ~available[cpu.frame]
    /\ cpu.at = "record" => finished[FinishedSemaphore(cpu.frame, cpu.image)] = "clear"
    /\ cpu.at = "wait" => fence[cpu.frame] \/ Pending(cpu.frame)
=============================================================================
