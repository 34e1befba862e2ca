----------------------------- MODULE EngineLoop -----------------------------
(****************************************************************************)
(* EngineBase::run: the main thread brings up the services, polls them once *)
(* a frame and takes them down, while the thread of the debug server, the   *)
(* screenshot writers and whoever writes the files go on. The game's part   *)
(* is external: it loads the plugins when it starts, calls checkReload and  *)
(* takes screenshots in its frame, and says when to leave.                  *)
(*                                                                          *)
(* Bound: a behaviour follows one of the Workloads: which services the game *)
(* asked for, the jobs that clients of the debug server bring and how often *)
(* each file is written.                                                    *)
(****************************************************************************)
EXTENDS HotReload, DevServer

CONSTANT Workloads  \* [files, port: BOOLEAN, jobs, writes]

\* A command is told from every other, of its own job and of the others.
ASSUME WorkloadsAssumption ==
    \A w \in Workloads :
        /\ w.jobs \subseteq Seq(Command) \ {<<>>}
        /\ \A j, k \in w.jobs : \A m \in DOMAIN j, n \in DOMAIN k :
              j[m] = k[n] => j = k /\ m = n

VARIABLES
    main,    \* where the main thread is
    stamp,   \* the stamp Config::checkReload has read
    setup    \* m_configPath and m_pluginDLLPath, m_devServerPort are given

vars == <<filesVars, serverVars, main, stamp, setup>>

Init ==
    /\ \E w \in Workloads : ServerInit(w.jobs) /\ setup = w
    /\ FilesInit /\ (~setup.files => disk = [f \in File |-> 0])
    /\ main = (IF setup.files THEN "parse" ELSE "serve") /\ stamp = None

Goes(from, to) == main = from /\ main' = to
onFiles  == UNCHANGED <<serverVars, setup>>
onServer == UNCHANGED <<filesVars, stamp, setup>>

-----------------------------------------------------------------------------
\* initServices, and the game's onInit
InitServices ==
    \/ Goes("parse", "stamp") /\ ParseConfig /\ onFiles /\ UNCHANGED stamp
    \/ Goes("stamp", "watch") /\ StampConfig /\ onFiles /\ UNCHANGED stamp
    \/ Goes("watch", "watchPlugin") /\ Watch("config") /\ onFiles /\ UNCHANGED stamp
    \/ Goes("watchPlugin", "serve") /\ Watch("plugin") /\ onFiles /\ UNCHANGED stamp
    \/ Goes("serve", "init") /\ onServer
       /\ IF setup.port THEN StartServer ELSE UNCHANGED serverVars
    \/ Goes("init", "check") /\ setup.files /\ (Load \/ LoadFails) /\ onFiles /\ UNCHANGED stamp
    \/ Goes("init", "check") /\ ~setup.files /\ onServer /\ UNCHANGED serverVars
    \/ Goes("init", "unload") /\ onServer /\ UNCHANGED serverVars

\* The services, once a frame: AssetWatcher::checkAll with its callbacks, ...
CheckFiles ==
    /\ \/ Goes("check", IF Due THEN "config" ELSE "poll") /\ CheckAll /\ UNCHANGED stamp
       \/ Goes("config", "plugin") /\ ~Changed("config") /\ UNCHANGED <<filesVars, stamp>>
       \/ Goes("config", "readStamp") /\ Changed("config") /\ Notice("config") /\ UNCHANGED stamp
       \/ Goes("readStamp", "reparse") /\ stamp' = disk["config"] /\ UNCHANGED filesVars
       \/ /\ Goes("reparse", "plugin")
          /\ IF stamp = config.stamp THEN UNCHANGED filesVars ELSE Reparse(stamp)
          /\ stamp' = None
       \/ Goes("plugin", "poll") /\ UNCHANGED stamp
          /\ IF Changed("plugin") THEN Notice("plugin") ELSE UNCHANGED filesVars
    /\ onFiles

\* ... and DevServer::pollCommands.
PollCommands ==
    /\ \/ Goes("poll", "execute") /\ Poll
       \/ Goes("execute", "execute") /\ Execute
       \/ Goes("execute", "reload") /\ taken = <<>> /\ UNCHANGED serverVars
    /\ onServer

\* The game's frame.
Frame ==
    \/ Goes("reload", "load") /\ plugin.pending /\ Unload /\ onFiles /\ UNCHANGED stamp
    \/ Goes("reload", "capture") /\ ~plugin.pending /\ onServer /\ UNCHANGED serverVars
    \/ Goes("load", "capture") /\ (Load \/ LoadFails) /\ onFiles /\ UNCHANGED stamp
    \/ Goes("capture", "path") /\ TakeFlag /\ onServer
    \/ Goes("path", "test") /\ Capture /\ onServer
    \/ Goes("capture", "test") /\ ~shot.pending /\ onServer /\ UNCHANGED serverVars
    \/ /\ main = "test" /\ main' \in {"check", "unload"}
       /\ onServer /\ UNCHANGED serverVars

\* shutdownServices
ShutdownServices ==
    \/ Goes("unload", "stop") /\ Shutdown /\ onFiles /\ UNCHANGED stamp
    \/ Goes("stop", "close") /\ StopRunning /\ onServer
    \/ Goes("close", "wake") /\ CloseSocket /\ onServer
    \/ Goes("wake", "join") /\ WakeShot /\ onServer
    \/ Goes("join", "clear") /\ Joined /\ onServer /\ UNCHANGED serverVars
    \/ Goes("clear", "over") /\ Forget /\ onFiles /\ UNCHANGED stamp

Main == InitServices \/ CheckFiles \/ PollCommands \/ Frame \/ ShutdownServices

ServerThread == Server /\ onServer /\ UNCHANGED main
Writer(c)    == WriterDone(c) /\ onServer /\ UNCHANGED main
Writes(f)    == setup.files /\ disk[f] < 2 * setup.writes /\ Write(f) /\ onFiles /\ UNCHANGED <<main, stamp>>

Next == Main \/ ServerThread \/ (\E c \in Shot : Writer(c)) \/ \E f \in File : Writes(f)

\* Every thread of the process runs; a wait of the server thread has a time
\* limit. Who writes a file, and who connects, owes nothing.
Fairness == WF_vars(Main) /\ WF_vars(ServerThread) /\ \A c \in Shot : WF_vars(Writer(c))

Spec == Init /\ [][Next]_vars /\ Fairness

-----------------------------------------------------------------------------
\* shutdownServices returns, whatever the server thread waits for, a command of
\* the main thread included (EngineBase.cpp 138-145, DevServer.cpp 75-94).
StopReturns == main = "stop" ~> main = "over"

Leaving == main \in {"unload", "stop", "close", "wake", "join", "clear", "over"}

\* While the engine runs it ends up with the files as they were last written,
\* although it also reads them half written: the configuration unless it
\* changed before it was watched, the plugins unless the library was refused or
\* is watched in the wrong place (AssetWatcher.cpp 55-70, Config.cpp 144-165,
\* DLLLoader.cpp 75-93).
FilesFollow ==
    /\ <>[](~Leaving /\ ~Half("config") /\ entries["config"] # None /\ ~missed)
          => <>[](config.data = Version("config"))
    /\ <>[](~Leaving /\ ~Half("plugin") /\ entries["plugin"] # None /\ outcome # "refused")
          => <>[]<>(plugin.version = Version("plugin"))
=============================================================================
