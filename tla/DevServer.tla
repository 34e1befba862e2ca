----------------------------- MODULE DevServer ------------------------------
(****************************************************************************)
(* The debug server of the engine (DevServer.cpp): one thread accepts a TCP *)
(* client at a time and answers it; what writes is queued for the main      *)
(* thread, a screenshot is asked of it and written by a thread of its own.  *)
(* EngineLoop says when the main thread polls, captures and stops.          *)
(*                                                                          *)
(* A step is what happens under m_mutex. Waits time out at any time. A job  *)
(* is what one client sends: a command, or a batch of them. A command is    *)
(* its own path when it is a screenshot.                                    *)
(****************************************************************************)
EXTENDS Naturals, Sequences, FiniteSets

CONSTANTS
    Shot, WriteCommand, Query,  \* commands: screenshots, queued, answered at once
    Idle                        \* no command

ASSUME CommandAssumption ==
    Shot \cap WriteCommand = {} /\ Shot \cap Query = {} /\ WriteCommand \cap Query = {}

VARIABLES
    running,   \* m_running
    socket,    \* m_listenSocket: "none", "open", "closed"
    server,    \* the server thread: at, the commands of its client
    jobs,      \* of the clients that have not connected
    pending,   \* m_pendingCommands
    taken,     \* swapped out by pollCommands
    promised,  \* commands whose promise is set
    shot,      \* m_screenshotPending, Done, Ok and Path
    captured,  \* takeScreenshot has returned true, the path is not read
    writers,   \* threads that write a screenshot
    \* history
    executed,  \* commands, in order
    answer,    \* what a command was answered
    written    \* screenshots that are on disk

serverVars == <<running, socket, server, jobs, pending, taken, promised, shot, captured,
                writers, executed, answer, written>>

Command == Shot \cup WriteCommand \cup Query

ServerInit(j) ==
    /\ running = FALSE /\ socket = "none"
    /\ server = [at |-> "none", job |-> <<>>]
    /\ jobs = j
    /\ pending = <<>> /\ taken = <<>> /\ promised = {}
    /\ shot = [pending |-> FALSE, done |-> FALSE, ok |-> FALSE, path |-> Idle]
    /\ captured = FALSE
    /\ writers = {}
    /\ executed = <<>> /\ answer = [c \in Command |-> "none"] /\ written = {}

queueVars == <<pending, taken, promised, executed>>
shotVars  == <<captured, writers, written>>

-----------------------------------------------------------------------------
(* The server thread. *)

\* start
StartServer ==
    /\ running' = TRUE /\ server' = [server EXCEPT !.at = "bind"]
    /\ UNCHANGED <<socket, jobs, queueVars, shot, shotVars, answer>>

Bind ==
    /\ server.at = "bind"
    /\ \/ socket' = "open" /\ server' = [server EXCEPT !.at = "test"]
       \/ server' = [server EXCEPT !.at = "done"] /\ UNCHANGED socket
    /\ UNCHANGED <<running, jobs, queueVars, shot, shotVars, answer>>

\* The loop of serverLoop.
Test ==
    /\ server.at = "test"
    /\ server' = [server EXCEPT !.at = IF running THEN "accept" ELSE "done"]
    /\ UNCHANGED <<running, socket, jobs, queueVars, shot, shotVars, answer>>

\* accept returns with a client, or because the socket was closed.
Accept ==
    /\ server.at = "accept"
    /\ \/ /\ socket = "open"
          /\ \E j \in jobs : /\ jobs' = jobs \ {j}
                             /\ server' = [at |-> "read", job |-> j]
       \/ /\ socket = "closed"
          /\ server' = [server EXCEPT !.at = "test"] /\ UNCHANGED jobs
    /\ UNCHANGED <<running, socket, queueVars, shot, shotVars, answer>>

\* handleClient reads a line, or gives up.
Read ==
    /\ server.at = "read"
    /\ server' \in {[server EXCEPT !.at = "command"], [at |-> "test", job |-> <<>>]}
    /\ UNCHANGED <<running, socket, jobs, queueVars, shot, shotVars, answer>>

Current == Head(server.job)

\* The command is answered; the client is, after the last one.
Answered(what) ==
    /\ answer' = [answer EXCEPT ![Current] = what]
    /\ server' = [at |-> IF Len(server.job) = 1 THEN "test" ELSE "command",
                  job |-> Tail(server.job)]

AnswerQuery ==
    /\ server.at = "command" /\ Current \in Query
    /\ Answered("ok")
    /\ UNCHANGED <<running, socket, jobs, queueVars, shot, shotVars>>

\* A screenshot is asked for; whether the last one went well is not reset.
Asks(c)      == shot' = [shot EXCEPT !.pending = TRUE, !.done = FALSE, !.path = c]
AsksAgain(c) == shot' = [shot EXCEPT !.pending = TRUE, !.path = c]
Asked(c) == Asks(c)

AskShot ==
    /\ server.at = "command" /\ Current \in Shot
    /\ Asked(Current)
    /\ server' = [server EXCEPT !.at = "shot"]
    /\ UNCHANGED <<running, socket, jobs, queueVars, shotVars, answer>>

\* wait_for returns when it is done, or after five seconds.
AnswerShot ==
    /\ server.at = "shot"
    /\ Answered(IF shot.done /\ shot.ok THEN "ok"
                ELSE IF shot.done THEN "failed" ELSE "timed out")
    /\ UNCHANGED <<running, socket, jobs, queueVars, shot, shotVars>>

Enqueue ==
    /\ server.at = "command" /\ Current \in WriteCommand
    /\ pending' = Append(pending, Current)
    /\ server' = [server EXCEPT !.at = "future"]
    /\ UNCHANGED <<running, socket, jobs, taken, promised, executed, shot, shotVars, answer>>

AnswerWrite ==
    /\ server.at = "future"
    /\ Answered(IF Current \in promised THEN "ok" ELSE "timed out")
    /\ UNCHANGED <<running, socket, jobs, queueVars, shot, shotVars>>

Server == Bind \/ Test \/ Accept \/ Read \/ AnswerQuery \/ AskShot \/ AnswerShot
          \/ Enqueue \/ AnswerWrite

-----------------------------------------------------------------------------
(* The main thread's side. *)

\* pollCommands swaps the queue out ...
Swaps     == taken' = pending /\ pending' = <<>>
SwapsCopy == taken' = pending /\ UNCHANGED pending
SwapOut == Swaps

Poll ==
    /\ SwapOut
    /\ UNCHANGED <<running, socket, server, jobs, promised, executed, shot, shotVars, answer>>

\* ... and executes one command after the other. Arguments have the types it reads:
\* one of another type throws out of the main loop, where nobody catches it, and ends
\* the process.
Execute ==
    /\ taken # <<>>
    /\ executed' = Append(executed, Head(taken))
    /\ promised' = promised \cup {Head(taken)}
    /\ taken' = Tail(taken)
    /\ UNCHANGED <<running, socket, server, jobs, pending, shot, shotVars, answer>>

\* takeScreenshot, then screenshotPath
TakeFlag ==
    /\ shot.pending /\ ~captured
    /\ shot' = [shot EXCEPT !.pending = FALSE]
    /\ captured' = TRUE
    /\ UNCHANGED <<running, socket, server, jobs, queueVars, writers, written, answer>>

\* screenshotDone
Done(ok) == shot' = [shot EXCEPT !.pending = FALSE, !.done = TRUE, !.ok = ok]

\* writeScreenshot: the staging buffer cannot be mapped, or a thread takes over.
Capture ==
    /\ captured /\ captured' = FALSE
    /\ \/ Done(FALSE) /\ UNCHANGED writers
       \/ writers' = writers \cup {shot.path} /\ UNCHANGED shot
    /\ UNCHANGED <<running, socket, server, jobs, queueVars, written, answer>>

WriterDone(c) ==
    /\ c \in writers
    /\ writers' = writers \ {c}
    /\ \/ written' = written \cup {c} /\ Done(TRUE)
       \/ UNCHANGED written /\ Done(FALSE)
    /\ UNCHANGED <<running, socket, server, jobs, queueVars, captured, answer>>

\* stop: no more turns, ...
StopRunning ==
    /\ running' = FALSE
    /\ UNCHANGED <<socket, server, jobs, queueVars, shot, shotVars, answer>>

\* ... accept returns, ...
Unblocks     == socket' = IF socket = "open" THEN "closed" ELSE socket
UnblocksNone == UNCHANGED socket
Unblock == Unblocks

CloseSocket ==
    /\ Unblock
    /\ UNCHANGED <<running, server, jobs, queueVars, shot, shotVars, answer>>

\* ... a screenshot is waited for no longer, and the thread is joined.
WakeShot ==
    /\ shot' = [shot EXCEPT !.done = TRUE]
    /\ UNCHANGED <<running, socket, server, jobs, queueVars, shotVars, answer>>

Joined == server.at \in {"none", "done"}

-----------------------------------------------------------------------------
\* A queued command is executed at most once, by the main thread, before its
\* client is told so; one that timed out may still be executed later
\* (DevServer.cpp 117-125, 652-672).
CommandsRunOnce ==
    /\ \A i, j \in DOMAIN executed : executed[i] = executed[j] => i = j
    /\ \A c \in WriteCommand : answer[c] = "ok" => \E i \in DOMAIN executed : executed[i] = c

\* A screenshot that is answered "ok" is on disk, unless an earlier one timed
\* out and was answered late, or the server was stopped while it waited
\* (DevServer.cpp 85-91, 104-115, 592-617).
ShotsAreTaken ==
    \A c \in Shot : answer[c] = "ok" =>
        \/ c \in written
        \/ \E d \in Shot \ {c} : answer[d] = "timed out"
        \/ ~running

\* What a client of the server is told was done was done, once, and before it was
\* told (DevServer.cpp 85-125, 592-672).
AnswersAreTrue == CommandsRunOnce /\ ShotsAreTaken
=============================================================================
