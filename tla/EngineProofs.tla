---------------------------- MODULE EngineProofs ----------------------------
(****************************************************************************)
(* Theorems about EngineLoop, for all workloads, commands and builds: what  *)
(* the debug server answers is true, and a reload gives every system its    *)
(* own state back.                                                          *)
(*                                                                          *)
(* A command is at one place on its way from a client to the main thread,   *)
(* and has no answer before it gets there. A screenshot is a command of the *)
(* server thread only, and as long as none timed out the one that is asked  *)
(* for is the only one that the flags and the writers can be about.         *)
(****************************************************************************)
EXTENDS EngineLoop, SequenceTheorems, TLAPS

-----------------------------------------------------------------------------
(* Reload *)

\* The systems that run have their own states, and so have the saved ones.
Kept ==
    outcome = "kept" =>
        /\ \A i \in DOMAIN systems : systems[i].state \in {Fresh, systems[i].name}
        /\ \A i \in DOMAIN saved : saved[i].state = saved[i].name

LEMMA UnloadKeeps == ASSUME Kept, Unload PROVE Kept'
<1>1. /\ outcome' = outcome /\ DOMAIN systems' = {}
      /\ saved' = [i \in DOMAIN systems |->
                    [name |-> systems[i].name,
                     state |-> IF systems[i].state = Fresh THEN systems[i].name
                               ELSE systems[i].state]]
  BY DEF Unload
<1>2. \A i \in DOMAIN saved' :
          /\ i \in DOMAIN systems /\ saved'[i].name = systems[i].name
          /\ saved'[i].state = IF systems[i].state = Fresh THEN systems[i].name ELSE systems[i].state
  BY <1>1
<1> QED BY <1>1, <1>2 DEF Kept

\* With the systems of the load before, the place of a state is the place of the
\* system that gave it.
LEMMA LoadKeeps == ASSUME Kept, Load PROVE Kept'
<1> DEFINE accepted == Accepted(Version("plugin"))
<1>1. PICK inits \in SUBSET (DOMAIN accepted) : systems' = Restored(accepted, inits)
  BY DEF Load, Systems
<1>2. /\ outcome' = "kept" => \/ saved = <<>>
                              \/ outcome = "kept" /\ Names(saved) = Names(accepted)
      /\ saved' = <<>>
  BY DEF Load
<1> HIDE DEF accepted
<1>3. ASSUME outcome' = "kept", NEW i \in DOMAIN systems'
      PROVE  systems'[i].state \in {Fresh, systems'[i].name}
  <2>1. PICK x : systems'[i] = [name |-> accepted[x].name,
                                state |-> IF x \in DOMAIN saved THEN saved[x].state ELSE Fresh]
    BY <1>1, <1>3 DEF Restored
  <2>2. ASSUME x \in DOMAIN saved PROVE saved[x].state = accepted[x].name
    <3>1. outcome = "kept" /\ Names(saved) = Names(accepted)
      BY <1>2, <1>3, <2>2
    <3>2. saved[x].name = accepted[x].name
      BY <2>2, <3>1 DEF Names
    <3> QED BY <2>2, <3>1, <3>2 DEF Kept
  <2> QED BY <2>1, <2>2
<1> QED BY <1>2, <1>3 DEF Kept

\* The rest of the engine leaves the systems and what was saved of them alone.
LEMMA FilesStep ==
    ASSUME Next
    PROVE  Load \/ LoadFails \/ Unload \/ Shutdown \/ UNCHANGED <<systems, saved, outcome>>
<1>1. CASE InitServices
  BY <1>1 DEF InitServices, ParseConfig, StampConfig, Watch, onServer, filesVars
<1>2. CASE CheckFiles
  BY <1>2 DEF CheckFiles, CheckAll, Notice, Reparse, filesVars
<1>3. CASE PollCommands \/ ServerThread \/ \E c \in Shot : Writer(c)
  BY <1>3 DEF PollCommands, ServerThread, Writer, onServer, filesVars
<1>4. CASE Frame
  BY <1>4 DEF Frame, onServer, filesVars
<1>5. CASE ShutdownServices
  BY <1>5 DEF ShutdownServices, Forget, onServer, filesVars
<1>6. CASE \E f \in File : Writes(f)
  BY <1>6 DEF Writes, Write
<1> QED BY <1>1, <1>2, <1>3, <1>4, <1>5, <1>6 DEF Next, Main

\* As long as reloads find the systems that ran, none gets another's state, for
\* all versions of a plugin and whichever systems fail to init, through loads
\* that were refused in between (DLLLoader.cpp 101-109, 175-203).
THEOREM StatesStayOwn == Spec => []OwnStates
<1>1. Init => Kept
  BY DEF Init, FilesInit, Kept
<1>2. Kept /\ [Next]_vars => Kept'
  <2> SUFFICES ASSUME Kept, [Next]_vars PROVE Kept'
    OBVIOUS
  <2>1. CASE UNCHANGED <<systems, saved, outcome>>
    BY <2>1 DEF Kept
  <2>2. CASE LoadFails
    BY <2>2 DEF LoadFails, Kept
  <2>3. CASE Shutdown
    BY <2>3 DEF Shutdown, Kept
  <2>4. CASE UNCHANGED vars
    BY <2>1, <2>4 DEF vars, filesVars
  <2> QED BY <2>1, <2>2, <2>3, <2>4, FilesStep, LoadKeeps, UnloadKeeps
<1>3. Kept => OwnStates
  BY DEF Kept, OwnStates
<1> QED BY <1>1, <1>2, <1>3, PTL DEF Spec

-----------------------------------------------------------------------------
(* Commands *)

Cmds(s) == {s[n] : n \in DOMAIN s}
Distinct(s) == \A m, n \in DOMAIN s : s[m] = s[n] => m = n

LEMMA CmdsType == \A s \in Seq(Command) : Cmds(s) \subseteq Command
<1> SUFFICES ASSUME NEW s \in Seq(Command), NEW n \in DOMAIN s PROVE s[n] \in Command
  BY DEF Cmds
<1> QED BY DEF Command

LEMMA TailOf ==
    ASSUME NEW s \in Seq(Command), s # <<>>, Distinct(s)
    PROVE  /\ Tail(s) \in Seq(Command) /\ Head(s) \in Command
           /\ Head(s) \in Cmds(s) /\ Cmds(Tail(s)) = Cmds(s) \ {Head(s)} /\ Distinct(Tail(s))
           /\ (Tail(s) = <<>> <=> Len(s) = 1)
<1>1. /\ Tail(s) \in Seq(Command) /\ Head(s) \in Command /\ Head(s) = s[1] /\ 1 \in DOMAIN s
      /\ \A n \in DOMAIN Tail(s) : n \in Nat \ {0} /\ n + 1 \in DOMAIN s /\ Tail(s)[n] = s[n + 1]
      /\ \A n \in DOMAIN s : n = 1 \/ (n - 1 \in DOMAIN Tail(s) /\ Tail(s)[n - 1] = s[n])
  OBVIOUS
<1>5. Tail(s) = <<>> <=> Len(s) = 1
  <2>1. Len(Tail(s)) = Len(s) - 1 /\ Len(s) \in Nat
    OBVIOUS
  <2>2. Tail(s) = <<>> <=> Len(Tail(s)) = 0
    BY <1>1, EmptySeq
  <2> QED BY <2>1, <2>2
<1>2. Distinct(Tail(s))
  <2> SUFFICES ASSUME NEW m \in DOMAIN Tail(s), NEW n \in DOMAIN Tail(s), Tail(s)[m] = Tail(s)[n]
               PROVE  m = n
    BY DEF Distinct
  <2>1. m + 1 = n + 1
    BY <1>1 DEF Distinct
  <2> QED BY <1>1, <2>1
<1>3. Cmds(Tail(s)) \subseteq Cmds(s) \ {Head(s)}
  <2> SUFFICES ASSUME NEW n \in DOMAIN Tail(s) PROVE Tail(s)[n] \in Cmds(s) /\ Tail(s)[n] # Head(s)
    BY DEF Cmds
  <2>1. n + 1 \in DOMAIN s /\ n + 1 # 1 /\ Tail(s)[n] = s[n + 1]
    BY <1>1
  <2> QED BY <1>1, <2>1 DEF Cmds, Distinct
<1>4. Cmds(s) \ {Head(s)} \subseteq Cmds(Tail(s))
  <2> SUFFICES ASSUME NEW n \in DOMAIN s, s[n] # Head(s) PROVE s[n] \in Cmds(Tail(s))
    BY DEF Cmds
  <2>1. n - 1 \in DOMAIN Tail(s) /\ Tail(s)[n - 1] = s[n]
    BY <1>1
  <2> QED BY <2>1 DEF Cmds
<1>6. Head(s) \in Cmds(s)
  BY <1>1 DEF Cmds
<1> QED BY <1>1, <1>2, <1>3, <1>4, <1>5, <1>6

LEMMA AppendTo ==
    ASSUME NEW s \in Seq(Command), NEW c \in Command
    PROVE  /\ Append(s, c) \in Seq(Command) /\ Cmds(Append(s, c)) = Cmds(s) \cup {c}
           /\ Distinct(s) /\ c \notin Cmds(s) => Distinct(Append(s, c))
<1>1. /\ Append(s, c) \in Seq(Command) /\ Len(s) + 1 \notin DOMAIN s
      /\ DOMAIN Append(s, c) = DOMAIN s \cup {Len(s) + 1} /\ Append(s, c)[Len(s) + 1] = c
      /\ \A n \in DOMAIN s : Append(s, c)[n] = s[n]
  OBVIOUS
<1> QED BY <1>1 DEF Cmds, Distinct

\* The commands in the hands of the main thread.
Queued == Cmds(pending) \cup Cmds(taken) \cup Cmds(executed)

Shaped ==
    /\ jobs \subseteq Seq(Command) \ {<<>>}
    /\ server = [at |-> server.at, job |-> server.job] /\ server.job \in Seq(Command)
    /\ server.at \in {"read", "command", "shot", "future"} => server.job # <<>>
    /\ server.at = "shot" => Current \in Shot
    /\ server.at = "future" => Current \in WriteCommand
    /\ shot = [pending |-> shot.pending, done |-> shot.done, ok |-> shot.ok, path |-> shot.path]
    /\ answer \in [Command -> {"none", "ok", "failed", "timed out"}]
    /\ pending \in Seq(Command) /\ taken \in Seq(Command) /\ executed \in Seq(Command)

\* What is still to come was neither answered nor queued, but for the command the
\* server thread waits for.
ToCome ==
    /\ \A j \in jobs : Distinct(j) /\ Cmds(j) \cap (Cmds(server.job) \cup Queued) = {}
    /\ \A j, k \in jobs : j # k => Cmds(j) \cap Cmds(k) = {}
    /\ \A j \in jobs : \A c \in Cmds(j) : answer[c] = "none"
    /\ Distinct(server.job) /\ \A c \in Cmds(server.job) : answer[c] = "none"
    /\ \A c \in Cmds(server.job) \cap Queued : server.at = "future" /\ c = Current

\* A queued command is at one place, once; it is promised when it was executed.
InOnePlace ==
    /\ Distinct(pending) /\ Distinct(taken) /\ Distinct(executed)
    /\ Cmds(pending) \cap Cmds(taken) = {}
    /\ (Cmds(pending) \cup Cmds(taken)) \cap Cmds(executed) = {}
    /\ promised \subseteq Cmds(executed)
    /\ \A c \in WriteCommand : answer[c] = "ok" => c \in Cmds(executed)

InTurn == Shaped /\ ToCome /\ InOnePlace

\* What the server thread needs not to know to answer.
LEMMA AnsweringKeeps ==
    ASSUME InTurn, NEW what \in {"ok", "failed", "timed out"}, Answered(what),
           server.at \in {"command", "shot", "future"},
           server.at = "command" => Current \in Query,
           server.at = "future" /\ what = "ok" => Current \in promised,
           UNCHANGED <<jobs, queueVars>>, shot' = shot
    PROVE  InTurn'
<1>1. server.job \in Seq(Command) /\ server.job # <<>> /\ Distinct(server.job)
  BY DEF InTurn, Shaped, ToCome
<1>2. /\ Current \in Command /\ Current \in Cmds(server.job)
      /\ Tail(server.job) \in Seq(Command) /\ Distinct(Tail(server.job))
      /\ Cmds(Tail(server.job)) = Cmds(server.job) \ {Current}
      /\ (Tail(server.job) = <<>> <=> Len(server.job) = 1)
  BY <1>1, TailOf DEF Current
<1>3. /\ answer' = [answer EXCEPT ![Current] = what] /\ jobs' = jobs /\ queueVars' = queueVars
      /\ server'.at = (IF Len(server.job) = 1 THEN "test" ELSE "command")
      /\ server'.job = Tail(server.job)
      /\ server' = [at |-> server'.at, job |-> server'.job]
  BY DEF Answered
<1>4. /\ pending' = pending /\ taken' = taken /\ executed' = executed /\ promised' = promised
      /\ Queued' = Queued
  BY <1>3 DEF queueVars, Queued
<1>5. answer' \in [Command -> {"none", "ok", "failed", "timed out"}]
      /\ \A c \in Command \ {Current} : answer'[c] = answer[c]
  BY <1>2, <1>3 DEF InTurn, Shaped
<1>6. Shaped'
  BY <1>2, <1>3, <1>4, <1>5 DEF InTurn, Shaped
<1>7. ToCome'
  <2>1. \A j \in jobs : Current \notin Cmds(j) /\ Cmds(j) \subseteq Command
    BY <1>2, CmdsType DEF InTurn, ToCome, Shaped
  <2>2. Cmds(server.job) \subseteq Command
    BY <1>1, CmdsType
  <2>3. \A c \in Cmds(Tail(server.job)) : c \notin Queued
    BY <1>2 DEF InTurn, ToCome
  <2>4. Cmds(server.job)' = Cmds(server.job) \ {Current}
    BY <1>2, <1>3 DEF Cmds
  <2>5. \A j \in jobs : \A c \in Cmds(j) : answer'[c] = "none"
    BY <1>5, <2>1 DEF InTurn, ToCome
  <2>6. \A c \in Cmds(server.job) \ {Current} : answer'[c] = "none" /\ c \notin Queued
    BY <1>2, <1>5, <2>2, <2>3 DEF InTurn, ToCome
  <2>7. /\ \A j \in jobs : Distinct(j) /\ Cmds(j) \cap ((Cmds(server.job) \ {Current}) \cup Queued) = {}
        /\ \A j, k \in jobs : j # k => Cmds(j) \cap Cmds(k) = {}
    BY DEF InTurn, ToCome
  <2>8. Distinct(server.job)'
    BY <1>2, <1>3 DEF Distinct
  <2>9. \A c \in Cmds(server.job)' \cap Queued' : server'.at = "future" /\ c = Current'
    BY <1>4, <2>4, <2>6
  <2> QED BY <1>3, <1>4, <2>4, <2>5, <2>6, <2>7, <2>8, <2>9 DEF ToCome
<1>8. InOnePlace'
  <2>1. WriteCommand \subseteq Command
    BY DEF Command
  <2>2. Current \in WriteCommand /\ what = "ok" => Current \in Cmds(executed)
    BY CommandAssumption DEF InTurn, Shaped, InOnePlace
  <2>3. \A c \in WriteCommand : answer'[c] = "ok" => c \in Cmds(executed)
    BY <1>2, <1>3, <1>5, <2>1, <2>2 DEF InTurn, InOnePlace, Shaped
  <2> QED BY <1>4, <2>3 DEF InTurn, InOnePlace
<1> QED BY <1>6, <1>7, <1>8 DEF InTurn

\* Another place of the server thread, with the same client or none.
LEMMA MovingKeeps ==
    ASSUME InTurn, UNCHANGED <<jobs, queueVars, answer>>,
           server' = [at |-> server'.at, job |-> server'.job],
           server'.job = server.job \/ server'.job = <<>>,
           server.at # "future", server'.at # "future",
           server'.at \in {"read", "command", "shot"} => server.job # <<>> /\ server'.job = server.job,
           server'.at = "shot" => Current \in Shot,
           shot' = [pending |-> shot'.pending, done |-> shot'.done, ok |-> shot'.ok, path |-> shot'.path]
    PROVE  InTurn'
<1>1. /\ pending' = pending /\ taken' = taken /\ executed' = executed /\ promised' = promised
      /\ jobs' = jobs /\ answer' = answer
  BY DEF queueVars
<1>2. Queued' = Queued
  BY <1>1 DEF Queued
<1>3. server'.job \in Seq(Command) /\ (server'.at = "shot" => Current' \in Shot)
  <2>1. server'.job \in Seq(Command)
    <3>1. server.job \in Seq(Command)
      BY DEF InTurn, Shaped
    <3>2. <<>> \in Seq(Command)
      OBVIOUS
    <3> QED BY <3>1, <3>2
  <2>2. server'.at = "shot" => Current' = Current
    BY DEF Current
  <2> QED BY <2>1, <2>2
<1>4. Shaped'
  <2>1. server'.at \in {"read", "command", "shot"} => server'.job # <<>>
    OBVIOUS
  <2>2. /\ jobs' \subseteq Seq(Command) \ {<<>>}
        /\ answer' \in [Command -> {"none", "ok", "failed", "timed out"}]
        /\ pending' \in Seq(Command) /\ taken' \in Seq(Command) /\ executed' \in Seq(Command)
    BY <1>1 DEF InTurn, Shaped
  <2> QED BY <1>3, <2>1, <2>2 DEF Shaped
<1>5. Cmds(server.job)' \subseteq Cmds(server.job) /\ Distinct(server.job)'
  BY DEF InTurn, ToCome, Cmds, Distinct
<1>6. Cmds(server.job) \cap Queued = {}
  BY DEF InTurn, ToCome
<1>7. ToCome'
  <2>1. /\ \A j \in jobs : Distinct(j) /\ Cmds(j) \cap (Cmds(server.job)' \cup Queued) = {}
        /\ \A j, k \in jobs : j # k => Cmds(j) \cap Cmds(k) = {}
        /\ \A j \in jobs : \A c \in Cmds(j) : answer[c] = "none"
    BY <1>5 DEF InTurn, ToCome
  <2>2. \A c \in Cmds(server.job)' : answer[c] = "none" /\ c \notin Queued
    BY <1>5, <1>6 DEF InTurn, ToCome
  <2> QED BY <1>1, <1>2, <1>5, <2>1, <2>2 DEF ToCome
<1>8. InOnePlace'
  BY <1>1 DEF InTurn, InOnePlace
<1> QED BY <1>4, <1>7, <1>8 DEF InTurn

LEMMA AcceptKeeps == ASSUME InTurn, Accept PROVE InTurn'
<1>1. /\ UNCHANGED <<queueVars, answer, shot>> /\ server.at = "accept"
      /\ \/ \E j \in jobs : jobs' = jobs \ {j} /\ server' = [at |-> "read", job |-> j]
         \/ server' = [server EXCEPT !.at = "test"] /\ jobs' = jobs
  BY DEF Accept
<1>2. CASE server' = [server EXCEPT !.at = "test"] /\ jobs' = jobs
  <2>1. server' = [at |-> "test", job |-> server.job]
    BY <1>2 DEF InTurn, Shaped
  <2> QED BY <1>1, <1>2, <2>1, MovingKeeps DEF InTurn, Shaped
<1>3. ASSUME NEW j \in jobs, jobs' = jobs \ {j}, server' = [at |-> "read", job |-> j]
      PROVE  InTurn'
  <2>1. /\ pending' = pending /\ taken' = taken /\ executed' = executed /\ promised' = promised
        /\ answer' = answer /\ shot' = shot /\ server'.at = "read" /\ server'.job = j
    BY <1>1, <1>3 DEF queueVars
  <2>2. Queued' = Queued
    BY <2>1 DEF Queued
  <2>3. Shaped'
    BY <1>3, <2>1 DEF InTurn, Shaped
  <2>4. Cmds(server.job)' = Cmds(j) /\ (Distinct(server.job)' <=> Distinct(j))
    BY <2>1 DEF Cmds, Distinct
  <2>5. /\ Distinct(j) /\ Cmds(j) \cap Queued = {} /\ \A c \in Cmds(j) : answer[c] = "none"
        /\ \A k \in jobs \ {j} : /\ Distinct(k) /\ Cmds(k) \cap (Cmds(j) \cup Queued) = {}
                                 /\ \A c \in Cmds(k) : answer[c] = "none"
        /\ \A k, l \in jobs \ {j} : k # l => Cmds(k) \cap Cmds(l) = {}
    BY DEF InTurn, ToCome
  <2>6. ToCome'
    BY <1>3, <2>1, <2>2, <2>4, <2>5 DEF ToCome
  <2>7. InOnePlace'
    BY <2>1 DEF InTurn, InOnePlace
  <2> QED BY <2>3, <2>6, <2>7 DEF InTurn
<1> QED BY <1>1, <1>2, <1>3

LEMMA EnqueueKeeps == ASSUME InTurn, Enqueue PROVE InTurn'
<1>1. /\ server.at = "command" /\ Current \in WriteCommand /\ pending' = Append(pending, Current)
      /\ server' = [server EXCEPT !.at = "future"]
      /\ UNCHANGED <<jobs, taken, executed, promised, answer, shot>>
  BY DEF Enqueue
<1>2. Current \in Command /\ server.job # <<>> /\ server.job \in Seq(Command)
  BY <1>1 DEF InTurn, Shaped, Command
<1>3. Current \in Cmds(server.job)
  BY <1>2, TailOf DEF InTurn, ToCome, Current
<1>4. Current \notin Queued
  BY <1>1, <1>3 DEF InTurn, ToCome
<1>5. /\ pending' \in Seq(Command) /\ Cmds(pending)' = Cmds(pending) \cup {Current}
      /\ Distinct(pending)'
  <2>1. pending \in Seq(Command) /\ Distinct(pending) /\ Current \notin Cmds(pending)
    BY <1>4 DEF InTurn, Shaped, InOnePlace, Queued
  <2>2. /\ Append(pending, Current) \in Seq(Command)
        /\ Cmds(Append(pending, Current)) = Cmds(pending) \cup {Current}
        /\ Distinct(Append(pending, Current))
    BY <1>2, <2>1, AppendTo
  <2> QED BY <1>1, <2>2 DEF Cmds, Distinct
<1>6. server' = [at |-> "future", job |-> server.job]
  BY <1>1 DEF InTurn, Shaped
<1>7. Cmds(taken)' = Cmds(taken) /\ Cmds(executed)' = Cmds(executed)
      /\ (Distinct(taken)' <=> Distinct(taken)) /\ (Distinct(executed)' <=> Distinct(executed))
  BY <1>1 DEF Cmds, Distinct
<1>8. Queued' = Queued \cup {Current}
  BY <1>5, <1>7 DEF Queued
<1>9. Current' = Current /\ server'.at = "future" /\ server'.job = server.job
  BY <1>6 DEF Current
<1>10. Shaped'
  BY <1>1, <1>2, <1>5, <1>6, <1>9 DEF InTurn, Shaped
<1>11. ToCome'
  <2>1. Cmds(server.job)' = Cmds(server.job) /\ (Distinct(server.job)' <=> Distinct(server.job))
    BY <1>9 DEF Cmds, Distinct
  <2>2. \A c \in Cmds(server.job) : answer[c] = "none" /\ c \notin Queued
    BY <1>1 DEF InTurn, ToCome
  <2>3. \A j \in jobs : Distinct(j) /\ Cmds(j) \cap (Cmds(server.job) \cup Queued \cup {Current}) = {}
    BY <1>3 DEF InTurn, ToCome
  <2> QED BY <1>1, <1>8, <1>9, <2>1, <2>2, <2>3 DEF InTurn, ToCome
<1>12. InOnePlace'
  <2>1. (Cmds(pending) \cup {Current}) \cap Cmds(taken) = {}
        /\ ((Cmds(pending) \cup {Current}) \cup Cmds(taken)) \cap Cmds(executed) = {}
    BY <1>4 DEF InTurn, InOnePlace, Queued
  <2> QED BY <1>1, <1>5, <1>7, <2>1 DEF InTurn, InOnePlace
<1> QED BY <1>10, <1>11, <1>12 DEF InTurn

\* What the main thread swaps out and executes was queued before.
LEMMA MainKeeps ==
    ASSUME InTurn, UNCHANGED <<jobs, server, answer, shot>>,
           pending' \in Seq(Command), taken' \in Seq(Command), executed' \in Seq(Command),
           Queued' \subseteq Queued, InOnePlace'
    PROVE  InTurn'
<1>1. Shaped' /\ Current' = Current /\ server'.at = server.at
  <2>1. server' = server /\ Current' = Current
    BY DEF Current
  <2> QED BY <2>1 DEF InTurn, Shaped
<1>2. ToCome'
  BY <1>1 DEF InTurn, ToCome
<1> QED BY <1>1, <1>2 DEF InTurn

LEMMA PollKeeps == ASSUME InTurn, Poll PROVE InTurn'
<1>1. taken' = pending /\ pending' = <<>> /\ UNCHANGED <<jobs, server, answer, shot, promised, executed>>
  BY DEF Poll, SwapOut, Swaps
<1>2. /\ Cmds(pending)' = {} /\ Cmds(taken)' = Cmds(pending) /\ Cmds(executed)' = Cmds(executed)
      /\ Distinct(pending)' /\ (Distinct(taken)' <=> Distinct(pending))
      /\ (Distinct(executed)' <=> Distinct(executed))
  BY <1>1 DEF Cmds, Distinct
<1>3. Queued' \subseteq Queued
  BY <1>2 DEF Queued
<1>4. InOnePlace'
  BY <1>1, <1>2 DEF InTurn, InOnePlace
<1>5. pending' \in Seq(Command) /\ taken' \in Seq(Command) /\ executed' \in Seq(Command)
  <2>1. pending \in Seq(Command) /\ executed \in Seq(Command)
    BY DEF InTurn, Shaped
  <2>2. <<>> \in Seq(Command)
    OBVIOUS
  <2> QED BY <1>1, <2>1, <2>2
<1> QED BY <1>1, <1>3, <1>4, <1>5, MainKeeps

LEMMA ExecuteKeeps == ASSUME InTurn, Execute PROVE InTurn'
<1> DEFINE c == Head(taken)
<1>1. /\ taken # <<>> /\ executed' = Append(executed, c) /\ promised' = promised \cup {c}
      /\ taken' = Tail(taken) /\ UNCHANGED <<jobs, server, answer, shot, pending>>
  BY DEF Execute
<1>2. /\ Tail(taken) \in Seq(Command) /\ c \in Command /\ c \in Cmds(taken)
      /\ Cmds(Tail(taken)) = Cmds(taken) \ {c} /\ Distinct(Tail(taken))
  BY <1>1, TailOf DEF InTurn, Shaped, InOnePlace
<1>3. c \notin Cmds(executed) /\ c \notin Cmds(pending)
  BY <1>2 DEF InTurn, InOnePlace
<1>4. /\ Append(executed, c) \in Seq(Command)
      /\ Cmds(Append(executed, c)) = Cmds(executed) \cup {c} /\ Distinct(Append(executed, c))
  BY <1>2, <1>3, AppendTo DEF InTurn, Shaped, InOnePlace
<1> HIDE DEF c
<1>5. /\ Cmds(pending)' = Cmds(pending) /\ Cmds(taken)' = Cmds(taken) \ {c}
      /\ Cmds(executed)' = Cmds(executed) \cup {c}
      /\ Distinct(taken)' /\ Distinct(executed)' /\ (Distinct(pending)' <=> Distinct(pending))
  BY <1>1, <1>2, <1>4 DEF Cmds, Distinct
<1>6. Queued' \subseteq Queued
  BY <1>2, <1>5 DEF Queued
<1>7. InOnePlace'
  BY <1>1, <1>3, <1>5 DEF InTurn, InOnePlace
<1>8. pending' \in Seq(Command) /\ taken' \in Seq(Command) /\ executed' \in Seq(Command)
  BY <1>1, <1>2, <1>4 DEF InTurn, Shaped
<1> QED BY <1>1, <1>6, <1>7, <1>8, MainKeeps

LEMMA ServerKeepsTurn == ASSUME InTurn, Server PROVE InTurn'
<1>1. CASE Bind \/ Test \/ Read \/ AskShot
  <2>5. /\ server = [at |-> server.at, job |-> server.job]
        /\ shot = [pending |-> shot.pending, done |-> shot.done, ok |-> shot.ok, path |-> shot.path]
        /\ server.at \in {"read", "command"} => server.job # <<>>
    BY DEF InTurn, Shaped
  <2>6. \/ \E at \in {"test", "done", "accept"} : server' = [server EXCEPT !.at = at]
        \/ server.at = "read" /\ server' \in {[server EXCEPT !.at = "command"], [at |-> "test", job |-> <<>>]}
        \/ server.at = "command" /\ server' = [server EXCEPT !.at = "shot"]
    <3>1. CASE Bind
      BY <3>1 DEF Bind
    <3>2. CASE Test
      <4>1. CASE running
        BY <3>2, <4>1 DEF Test
      <4>2. CASE ~running
        BY <3>2, <4>2 DEF Test
      <4> QED BY <4>1, <4>2
    <3>3. CASE Read
      BY <3>3 DEF Read
    <3>4. CASE AskShot
      BY <3>4 DEF AskShot
    <3> QED BY <1>1, <3>1, <3>2, <3>3, <3>4
  <2>1. /\ UNCHANGED <<jobs, queueVars, answer>> /\ server.at \in {"bind", "test", "read", "command"}
        /\ server.at = "command" => Current \in Shot
    BY <1>1 DEF Bind, Test, Read, AskShot
  <2>2. server' = [at |-> server'.at, job |-> server'.job]
    BY <2>5, <2>6
  <2>7. /\ server.at # "future" /\ server'.at # "future"
        /\ server'.job = server.job \/ server'.job = <<>>
        /\ server'.at = "shot" => Current \in Shot
    BY <2>1, <2>5, <2>6
  <2>3. server'.at \in {"read", "command", "shot"} => server.job # <<>> /\ server'.job = server.job
    BY <2>5, <2>6
  <2>4. shot' = [pending |-> shot'.pending, done |-> shot'.done, ok |-> shot'.ok, path |-> shot'.path]
    BY <1>1, <2>5 DEF Bind, Test, Read, AskShot, Asked, Asks
  <2> QED BY <2>1, <2>2, <2>3, <2>4, <2>7, MovingKeeps
<1>2. CASE AnswerQuery
  BY <1>2, AnsweringKeeps DEF AnswerQuery
<1>3. CASE AnswerShot
  BY <1>3, AnsweringKeeps DEF AnswerShot
<1>4. CASE AnswerWrite
  BY <1>4, AnsweringKeeps DEF AnswerWrite
<1> QED BY <1>1, <1>2, <1>3, <1>4, AcceptKeeps, EnqueueKeeps DEF Server

-----------------------------------------------------------------------------
(* Screenshots *)

Early == {"parse", "stamp", "watch", "watchPlugin", "serve"}
Late == {"close", "wake", "join", "clear", "over"}

Quiet == ~shot.pending /\ ~captured /\ writers = {}

\* The screenshot that the server thread waits for is asked, taken, written or done.
Underway ==
    /\ shot.path = Current
    /\ \/ shot.pending /\ ~captured /\ writers = {} /\ ~shot.done
       \/ ~shot.pending /\ captured /\ writers = {} /\ ~shot.done
       \/ ~shot.pending /\ ~captured /\ writers = {Current} /\ ~shot.done
       \/ Quiet /\ shot.done /\ (shot.ok => Current \in written)

InTime == running /\ \A d \in Shot : answer[d] # "timed out"

Excused(c) == ~running \/ \E d \in Shot \ {c} : answer[d] = "timed out"

Shooting ==
    /\ main \in Early => server.at = "none" /\ Quiet /\ \A c \in Shot : answer[c] = "none"
    /\ main \in Late => ~running
    /\ InTime => IF server.at = "shot" THEN Underway ELSE Quiet
    /\ \A c \in Shot : answer[c] = "ok" => c \in written \/ Excused(c)

\* What the main thread does that has nothing to do with the debug server.
LEMMA MainMoves ==
    ASSUME Main
    PROVE  \/ main = "serve" /\ main' = "init" /\ StartServer
           \/ /\ main' \notin Early /\ main' \notin Late
              /\ Poll \/ Execute \/ TakeFlag \/ Capture
           \/ main = "stop" /\ main' = "close" /\ StopRunning
           \/ main = "close" /\ main' = "wake" /\ CloseSocket
           \/ main = "wake" /\ main' = "join" /\ WakeShot
           \/ /\ main' \in Early => main \in Early
              /\ main' \in Late => main \in Late
              /\ UNCHANGED serverVars
<1>1. CASE InitServices
  BY <1>1 DEF InitServices, Goes, onFiles, Early, Late
<1>2. CASE CheckFiles
  BY <1>2 DEF CheckFiles, Goes, onFiles, Early, Late
<1>3. CASE PollCommands
  BY <1>3 DEF PollCommands, Goes, Early, Late
<1>4. CASE Frame
  BY <1>4 DEF Frame, Goes, onFiles, Early, Late
<1>5. CASE ShutdownServices
  BY <1>5 DEF ShutdownServices, Goes, onFiles, Early, Late
<1> QED BY <1>1, <1>2, <1>3, <1>4, <1>5 DEF Main

\* What leaves the screenshots and their answers alone keeps them.
LEMMA OthersKeepShots ==
    ASSUME Shooting, UNCHANGED <<running, shot, shotVars>>, \A c \in Shot : answer'[c] = answer[c],
           main' \in Early => main \in Early /\ server' = server,
           main' \in Late => main \in Late,
           server' = server \/ (server.at # "shot" /\ server'.at # "shot")
    PROVE  Shooting'
<1>1. /\ running' = running /\ shot' = shot /\ captured' = captured /\ writers' = writers
      /\ written' = written /\ Early' = Early /\ Late' = Late
  BY DEF shotVars, Early, Late
<1>2. (Quiet' <=> Quiet) /\ (InTime' <=> InTime) /\ \A c \in Shot : Excused(c)' <=> Excused(c)
  <2>1. Quiet' <=> Quiet
    BY <1>1 DEF Quiet
  <2>2. InTime' <=> InTime
    <3>1. (\A d \in Shot : answer'[d] # "timed out") <=> (\A d \in Shot : answer[d] # "timed out")
      OBVIOUS
    <3>2. running' <=> running
      BY <1>1
    <3> QED BY <3>1, <3>2 DEF InTime
  <2>3. \A c \in Shot : Excused(c)' <=> Excused(c)
    <3> SUFFICES ASSUME NEW c \in Shot PROVE Excused(c)' <=> Excused(c)
      OBVIOUS
    <3>1. (\E d \in Shot \ {c} : answer'[d] = "timed out") <=> (\E d \in Shot \ {c} : answer[d] = "timed out")
      OBVIOUS
    <3>2. running' <=> running
      BY <1>1
    <3> QED BY <3>1, <3>2 DEF Excused
  <2> QED BY <2>1, <2>2, <2>3
<1>3. main' \in Early => server'.at = "none" /\ Quiet /\ \A c \in Shot : answer'[c] = "none"
  BY DEF Shooting
<1>4. \A c \in Shot : answer'[c] = "ok" => c \in written \/ Excused(c)
  BY DEF Shooting
<1>5. CASE server' = server
  <2>1. Current' = Current
    BY <1>5 DEF Current
  <2>2. Underway' <=> Underway
    BY <1>1, <1>2, <2>1 DEF Underway
  <2> QED BY <1>1, <1>2, <1>3, <1>4, <1>5, <2>2 DEF Shooting
<1>6. CASE server.at # "shot" /\ server'.at # "shot"
  <2>1. InTime => Quiet
    BY <1>6 DEF Shooting
  <2> QED BY <1>1, <1>2, <1>3, <1>4, <1>6, <2>1 DEF Shooting
<1> QED BY <1>5, <1>6

LEMMA AskKeepsShots == ASSUME Shaped, Shooting, AskShot PROVE (main' = main => Shooting')
<1> SUFFICES ASSUME main' = main PROVE Shooting'
  OBVIOUS
<1>1. /\ server.at = "command" /\ shot' = [shot EXCEPT !.pending = TRUE, !.done = FALSE, !.path = Current]
      /\ server' = [server EXCEPT !.at = "shot"]
      /\ UNCHANGED <<running, captured, writers, written, answer>>
  BY DEF AskShot, Asked, Asks, shotVars
<1>2. /\ server = [at |-> server.at, job |-> server.job]
      /\ shot = [pending |-> shot.pending, done |-> shot.done, ok |-> shot.ok, path |-> shot.path]
  BY DEF Shaped
<1>3. server'.at = "shot" /\ server'.job = server.job
  BY <1>1, <1>2
<1>4. Current' = Current
  BY <1>3 DEF Current
<1>5. shot'.pending = TRUE /\ shot'.done = FALSE /\ shot'.path = Current
  BY <1>1, <1>2
<1>6. main \notin Early /\ (InTime => Quiet)
  BY <1>1 DEF Shooting
<1>7. (InTime' <=> InTime) /\ (\A c \in Shot : Excused(c)' <=> Excused(c)) /\ Early' = Early /\ Late' = Late
  BY <1>1 DEF InTime, Excused, Early, Late
<1>8. InTime' => Underway'
  BY <1>1, <1>4, <1>5, <1>6, <1>7 DEF Quiet, Underway
<1> QED BY <1>1, <1>3, <1>6, <1>7, <1>8 DEF Shooting

LEMMA AnswerKeepsShots ==
    ASSUME InTurn, Shooting, AnswerShot, main' = main PROVE Shooting'
<1> DEFINE what == IF shot.done /\ shot.ok THEN "ok"
                   ELSE IF shot.done THEN "failed" ELSE "timed out"
<1>1. /\ server.at = "shot" /\ UNCHANGED <<running, shot, captured, writers, written>>
      /\ answer' = [answer EXCEPT ![Current] = what]
      /\ server'.at # "shot"
  BY DEF AnswerShot, Answered, shotVars
<1>2. Current \in Shot /\ Current \in Command /\ answer \in [Command -> {"none", "ok", "failed", "timed out"}]
      /\ Shot \subseteq Command
  BY <1>1 DEF InTurn, Shaped, Command
<1>3. answer[Current] = "none"
  <2>1. server.job \in Seq(Command) /\ server.job # <<>> /\ Distinct(server.job)
    BY <1>1 DEF InTurn, Shaped, ToCome
  <2>2. Current \in Cmds(server.job)
    BY <2>1, TailOf DEF Current
  <2> QED BY <2>2 DEF InTurn, ToCome
<1>4. answer'[Current] = what /\ \A c \in Shot \ {Current} : answer'[c] = answer[c]
  BY <1>1, <1>2
<1>5. Early' = Early /\ Late' = Late /\ main \notin Early
  BY <1>1 DEF Shooting, Early, Late
<1>6. InTime' => InTime /\ shot.done
  <2>1. InTime' => InTime
    BY <1>1, <1>3, <1>4 DEF InTime
  <2>2. InTime' => what # "timed out"
    BY <1>2, <1>4 DEF InTime
  <2> QED BY <2>1, <2>2
<1>7. InTime' => Quiet
  <2>1. InTime => Underway
    BY <1>1 DEF Shooting
  <2> QED BY <1>6, <2>1 DEF Underway
<1>8. Quiet' = Quiet
  BY <1>1 DEF Quiet
<1>9. \A c \in Shot : Excused(c) => Excused(c)'
  BY <1>1, <1>3, <1>4 DEF Excused
<1>10. ASSUME NEW c \in Shot, answer'[c] = "ok" PROVE c \in written \/ Excused(c)'
  <2>1. CASE c # Current
    BY <1>4, <1>9, <1>10, <2>1 DEF Shooting
  <2>2. CASE c = Current
    <3>1. shot.done /\ shot.ok
      BY <1>4, <1>10, <2>2
    <3>2. InTime => c \in written
      BY <1>1, <2>2, <3>1 DEF Shooting, Underway
    <3>3. ~InTime => Excused(c)
      BY <1>3, <2>2 DEF InTime, Excused
    <3> QED BY <1>9, <3>2, <3>3
  <2> QED BY <2>1, <2>2
<1> QED BY <1>1, <1>5, <1>7, <1>8, <1>10 DEF Shooting

LEMMA ServerKeepsShots ==
    ASSUME InTurn, Shooting, Server, main' = main PROVE Shooting'
<1>1. server.at # "none" /\ main \notin Early
  <2>1. server.at # "none"
    BY DEF Server, Bind, Test, Accept, Read, AnswerQuery, AskShot, AnswerShot, Enqueue, AnswerWrite
  <2> QED BY <2>1 DEF Shooting
<1>2. CASE Bind \/ Test \/ Accept \/ Read \/ Enqueue
  <2>1. UNCHANGED <<running, shot, shotVars, answer>> /\ server.at # "shot" /\ server'.at # "shot"
    <3>1. server = [at |-> server.at, job |-> server.job]
      BY DEF InTurn, Shaped
    <3>2. CASE Test
      BY <3>1, <3>2 DEF Test
    <3>3. CASE Bind
      BY <3>1, <3>3 DEF Bind
    <3>4. CASE Accept
      BY <3>1, <3>4 DEF Accept
    <3>5. CASE Read
      BY <3>1, <3>5 DEF Read
    <3>6. CASE Enqueue
      BY <3>1, <3>6 DEF Enqueue
    <3> QED BY <1>2, <3>2, <3>3, <3>4, <3>5, <3>6
  <2> QED BY <1>1, <2>1, OthersKeepShots
<1>3. ASSUME NEW what, Answered(what), UNCHANGED <<running, shot, shotVars>>, server.at # "shot",
             Current \notin Shot
      PROVE  Shooting'
  <2>1. answer' = [answer EXCEPT ![Current] = what] /\ server'.at # "shot"
    BY <1>3 DEF Answered
  <2>2. \A c \in Shot : c \in Command /\ answer'[c] = answer[c]
    BY <1>3, <2>1 DEF InTurn, Shaped, Command
  <2> QED BY <1>1, <1>3, <2>1, <2>2, OthersKeepShots
<1>4. CASE AnswerQuery
  BY <1>3, <1>4, CommandAssumption DEF AnswerQuery
<1>5. CASE AnswerWrite
  <2>1. Current \notin Shot
    BY <1>5, CommandAssumption DEF AnswerWrite, InTurn, Shaped
  <2> QED BY <1>3, <1>5, <2>1 DEF AnswerWrite
<1> QED BY <1>2, <1>4, <1>5, AskKeepsShots, AnswerKeepsShots DEF Server, InTurn

LEMMA StartKeepsShots ==
    ASSUME Shooting, main = "serve", main' = "init", StartServer PROVE Shooting'
<1>1. /\ server.at = "none" /\ Quiet /\ \A c \in Shot : answer[c] = "none"
  BY DEF Shooting, Early
<1>2. /\ UNCHANGED <<shot, captured, writers, written, answer>> /\ server' = [server EXCEPT !.at = "bind"]
  BY DEF StartServer, shotVars
<1>3. server'.at # "shot"
  BY <1>1, <1>2
<1>4. Quiet' /\ \A c \in Shot : answer'[c] # "ok"
  BY <1>1, <1>2 DEF Quiet
<1>5. main' \notin Early' /\ main' \notin Late'
  BY DEF Early, Late
<1> QED BY <1>3, <1>4, <1>5 DEF Shooting

LEMMA TakeKeepsShots ==
    ASSUME Shaped, Shooting, main' \notin Early, main' \notin Late, TakeFlag PROVE Shooting'
<1>1. /\ shot.pending /\ ~captured /\ captured' = TRUE /\ shot' = [shot EXCEPT !.pending = FALSE]
      /\ UNCHANGED <<running, server, writers, written, answer>>
  BY DEF TakeFlag
<1>2. shot = [pending |-> shot.pending, done |-> shot.done, ok |-> shot.ok, path |-> shot.path]
  BY DEF Shaped
<1>3. shot'.pending = FALSE /\ shot'.done = shot.done /\ shot'.path = shot.path
  BY <1>1, <1>2
<1>4. (InTime' <=> InTime) /\ (\A c \in Shot : Excused(c)' <=> Excused(c)) /\ Early' = Early /\ Late' = Late
  BY <1>1 DEF InTime, Excused, Early, Late
<1>5. InTime => server.at = "shot" /\ Underway
  BY <1>1 DEF Shooting, Quiet
<1>6. Current' = Current
  BY <1>1 DEF Current
<1>7. InTime => Underway'
  BY <1>1, <1>3, <1>5, <1>6 DEF Underway, Quiet
<1> QED BY <1>1, <1>4, <1>5, <1>7 DEF Shooting

LEMMA CaptureKeepsShots ==
    ASSUME Shaped, Shooting, main' \notin Early, main' \notin Late, Capture PROVE Shooting'
<1>1. /\ captured /\ captured' = FALSE
      /\ \/ shot' = [shot EXCEPT !.pending = FALSE, !.done = TRUE, !.ok = FALSE] /\ writers' = writers
         \/ writers' = writers \cup {shot.path} /\ shot' = shot
      /\ UNCHANGED <<running, server, written, answer>>
  BY DEF Capture, Done
<1>2. shot = [pending |-> shot.pending, done |-> shot.done, ok |-> shot.ok, path |-> shot.path]
  BY DEF Shaped
<1>3. (InTime' <=> InTime) /\ (\A c \in Shot : Excused(c)' <=> Excused(c)) /\ Early' = Early /\ Late' = Late
  BY <1>1 DEF InTime, Excused, Early, Late
<1>4. InTime => server.at = "shot" /\ Underway
  BY <1>1 DEF Shooting, Quiet
<1>5. Current' = Current
  BY <1>1 DEF Current
<1>6. InTime => shot.path = Current /\ ~shot.pending /\ writers = {} /\ ~shot.done
  BY <1>1, <1>4 DEF Underway, Quiet
<1>7. InTime => Underway'
  <2>1. CASE shot' = [shot EXCEPT !.pending = FALSE, !.done = TRUE, !.ok = FALSE] /\ writers' = writers
    <3>1. ~shot'.pending /\ shot'.done /\ ~shot'.ok /\ shot'.path = shot.path
      BY <1>2, <2>1
    <3> QED BY <1>1, <1>5, <1>6, <2>1, <3>1 DEF Underway, Quiet
  <2>2. CASE writers' = writers \cup {shot.path} /\ shot' = shot
    BY <1>1, <1>5, <1>6, <2>2 DEF Underway, Quiet
  <2> QED BY <1>1, <2>1, <2>2
<1> QED BY <1>1, <1>3, <1>4, <1>7 DEF Shooting

LEMMA WriterKeepsShots ==
    ASSUME Shaped, Shooting, NEW c \in Shot, WriterDone(c), main' = main PROVE Shooting'
<1>1. PICK ok \in BOOLEAN :
          shot' = [shot EXCEPT !.pending = FALSE, !.done = TRUE, !.ok = ok] /\ (ok => c \in written')
  BY DEF WriterDone, Done
<1>2. /\ c \in writers /\ writers' = writers \ {c} /\ written \subseteq written'
      /\ UNCHANGED <<running, server, captured, answer>>
  BY DEF WriterDone
<1>3. shot = [pending |-> shot.pending, done |-> shot.done, ok |-> shot.ok, path |-> shot.path]
  BY DEF Shaped
<1>4. ~shot'.pending /\ shot'.done /\ shot'.ok = ok /\ shot'.path = shot.path
  BY <1>1, <1>3
<1>5. (InTime' <=> InTime) /\ (\A d \in Shot : Excused(d)' <=> Excused(d)) /\ Early' = Early /\ Late' = Late
  BY <1>2 DEF InTime, Excused, Early, Late
<1>6. (InTime => server.at = "shot" /\ Underway) /\ main \notin Early
  BY <1>2 DEF Shooting, Quiet
<1>7. Current' = Current
  BY <1>2 DEF Current
<1>8. InTime => writers = {Current} /\ ~captured /\ shot.path = Current
  BY <1>2, <1>6 DEF Underway, Quiet
<1>9. InTime => Underway'
  BY <1>1, <1>2, <1>4, <1>7, <1>8 DEF Underway, Quiet
<1> QED BY <1>2, <1>5, <1>6, <1>9 DEF Shooting

\* Stopped or stopping, the server has no screenshot in time.
LEMMA StoppedKeepsShots ==
    ASSUME Shooting, main' \notin Early, ~running' PROVE Shooting'
<1>1. ~InTime' /\ \A c \in Shot : Excused(c)'
  BY DEF InTime, Excused
<1>2. main' \notin Early'
  BY DEF Early
<1> QED BY <1>1, <1>2 DEF Shooting

LEMMA NothingKeepsTurn ==
    ASSUME InTurn, UNCHANGED <<server, jobs, pending, taken, promised, shot, executed, answer>>
    PROVE  InTurn'
<1>1. Current' = Current
  BY DEF Current
<1>2. Queued' = Queued
  BY DEF Queued
<1>3. Shaped'
  BY <1>1 DEF InTurn, Shaped
<1>4. InOnePlace'
  BY DEF InTurn, InOnePlace
<1>5. ToCome'
  BY <1>1, <1>2 DEF InTurn, ToCome
<1> QED BY <1>3, <1>4, <1>5 DEF InTurn

LEMMA EngineStep == ASSUME InTurn, Shooting, Next PROVE InTurn' /\ Shooting'
<1>1. ASSUME UNCHANGED serverVars PROVE InTurn'
  <2>1. UNCHANGED <<server, jobs, pending, taken, promised, shot, executed, answer>>
    BY <1>1 DEF serverVars
  <2> QED BY <2>1, NothingKeepsTurn
<1>2. ASSUME UNCHANGED <<jobs, queueVars, answer, server>>,
             shot' = [pending |-> shot'.pending, done |-> shot'.done, ok |-> shot'.ok, path |-> shot'.path]
      PROVE  InTurn'
  <2>1. UNCHANGED <<server, jobs, pending, taken, promised, executed, answer>>
    BY <1>2 DEF queueVars
  <2>2. Current' = Current
    BY <2>1 DEF Current
  <2>3. Queued' = Queued
    BY <2>1 DEF Queued
  <2>4. Shaped'
    BY <1>2, <2>1, <2>2 DEF InTurn, Shaped
  <2>5. InOnePlace'
    BY <2>1 DEF InTurn, InOnePlace
  <2>6. ToCome'
    BY <2>1, <2>2, <2>3 DEF InTurn, ToCome
  <2> QED BY <2>4, <2>5, <2>6 DEF InTurn
<1>3. shot = [pending |-> shot.pending, done |-> shot.done, ok |-> shot.ok, path |-> shot.path]
  BY DEF InTurn, Shaped
<1>4. CASE main = "serve" /\ main' = "init" /\ StartServer
  <2>1. server.at = "none" /\ server = [at |-> server.at, job |-> server.job]
    BY <1>4 DEF Shooting, Early, InTurn, Shaped
  <2>2. server' = [server EXCEPT !.at = "bind"] /\ UNCHANGED <<jobs, queueVars, answer, shot>>
    BY <1>4 DEF StartServer
  <2>3. /\ server' = [at |-> server'.at, job |-> server'.job]
        /\ server'.at = "bind" /\ server'.job = server.job
    BY <2>1, <2>2
  <2>4. InTurn'
    BY <1>3, <2>1, <2>2, <2>3, MovingKeeps
  <2> QED BY <1>4, <2>4, StartKeepsShots
<1>5. CASE /\ main' \notin Early /\ main' \notin Late
           /\ Poll \/ Execute \/ TakeFlag \/ Capture
  <2>1. CASE Poll \/ Execute
    <3>1. UNCHANGED <<running, server, shot, shotVars, answer>>
      BY <2>1 DEF Poll, Execute
    <3> QED BY <1>5, <2>1, <3>1, PollKeeps, ExecuteKeeps, OthersKeepShots
  <2>2. CASE TakeFlag
    <3>1. InTurn'
      BY <1>2, <1>3, <2>2 DEF TakeFlag
    <3> QED BY <1>5, <2>2, <3>1, TakeKeepsShots DEF InTurn
  <2>3. CASE Capture
    <3>1. InTurn'
      BY <1>2, <1>3, <2>3 DEF Capture, Done
    <3> QED BY <1>5, <2>3, <3>1, CaptureKeepsShots DEF InTurn
  <2> QED BY <1>5, <2>1, <2>2, <2>3
<1>6. CASE \/ main = "stop" /\ main' = "close" /\ StopRunning
           \/ main = "close" /\ main' = "wake" /\ CloseSocket
           \/ main = "wake" /\ main' = "join" /\ WakeShot
  <2>1. ~running' /\ main' \notin Early
    BY <1>6 DEF StopRunning, CloseSocket, WakeShot, Shooting, Late, Early
  <2>2. InTurn'
    BY <1>2, <1>3, <1>6 DEF StopRunning, CloseSocket, WakeShot
  <2> QED BY <2>1, <2>2, StoppedKeepsShots
<1>7. CASE /\ main' \in Early => main \in Early
           /\ main' \in Late => main \in Late
           /\ UNCHANGED serverVars
  <2>1. UNCHANGED <<running, shot, shotVars, server, answer>>
    BY <1>7 DEF serverVars, shotVars
  <2> QED BY <1>1, <1>7, <2>1, OthersKeepShots
<1>8. CASE ServerThread
  BY <1>8, ServerKeepsTurn, ServerKeepsShots DEF ServerThread
<1>9. ASSUME NEW c \in Shot, Writer(c) PROVE InTurn' /\ Shooting'
  <2>1. WriterDone(c) /\ main' = main
    BY <1>9 DEF Writer
  <2>2. InTurn'
    BY <1>2, <1>3, <2>1 DEF WriterDone, Done
  <2> QED BY <2>1, <2>2, WriterKeepsShots DEF InTurn
<1>10. ASSUME NEW f \in File, Writes(f) PROVE InTurn' /\ Shooting'
  <2>1. UNCHANGED serverVars /\ main' = main
    BY <1>10 DEF Writes, onFiles
  <2> QED BY <1>7, <2>1
<1> QED BY <1>4, <1>5, <1>6, <1>7, <1>8, <1>9, <1>10, MainMoves DEF Next

\* No client of the debug server is told of a command that was not executed or a
\* screenshot that is not on disk, and none runs twice, for all jobs, batches and
\* interleavings of the server thread, the main thread, the writers and stop, but
\* for what a time limit or stop excuses (DevServer.cpp 85-125, 592-672).
THEOREM AnswersStayTrue == Spec => []AnswersAreTrue
<1>1. Init => InTurn /\ Shooting
  <2> SUFFICES ASSUME Init PROVE InTurn /\ Shooting
    OBVIOUS
  <2>1. PICK w \in Workloads : ServerInit(w.jobs)
    BY DEF Init
  <2>2. /\ w.jobs \subseteq Seq(Command) \ {<<>>}
        /\ \A j, k \in w.jobs : \A m \in DOMAIN j, n \in DOMAIN k : j[m] = k[n] => j = k /\ m = n
    BY WorkloadsAssumption
  <2>3. /\ jobs = w.jobs /\ server = [at |-> "none", job |-> <<>>] /\ pending = <<>> /\ taken = <<>>
        /\ promised = {} /\ shot = [pending |-> FALSE, done |-> FALSE, ok |-> FALSE, path |-> Idle]
        /\ captured = FALSE /\ writers = {} /\ executed = <<>> /\ answer = [c \in Command |-> "none"]
        /\ running = FALSE
    BY <2>1 DEF ServerInit
  <2>4. Cmds(server.job) = {} /\ Queued = {} /\ Distinct(server.job)
        /\ Cmds(pending) = {} /\ Cmds(taken) = {} /\ Cmds(executed) = {}
        /\ Distinct(pending) /\ Distinct(taken) /\ Distinct(executed)
    BY <2>3 DEF Queued, Cmds, Distinct
  <2>5. Shaped
    BY <2>2, <2>3 DEF Shaped
  <2>6. \A j \in jobs : \A c \in Cmds(j) : answer[c] = "none"
    BY <2>2, <2>3, CmdsType
  <2>7. /\ \A j \in jobs : Distinct(j)
        /\ \A j, k \in jobs : j # k => Cmds(j) \cap Cmds(k) = {}
    BY <2>2, <2>3 DEF Distinct, Cmds
  <2>8. ToCome
    BY <2>4, <2>6, <2>7 DEF ToCome
  <2>9. WriteCommand \subseteq Command /\ Shot \subseteq Command
    BY DEF Command
  <2>10. InOnePlace
    BY <2>3, <2>4, <2>9 DEF InOnePlace
  <2>11. main \notin Late
    BY DEF Init, Late
  <2>12. Shooting
    BY <2>3, <2>9, <2>11 DEF Shooting, Quiet, InTime
  <2> QED BY <2>5, <2>8, <2>10, <2>12 DEF InTurn
<1>2. (InTurn /\ Shooting) /\ [Next]_vars => (InTurn /\ Shooting)'
  <2> SUFFICES ASSUME InTurn, Shooting, UNCHANGED vars PROVE InTurn' /\ Shooting'
    BY EngineStep
  <2>1. UNCHANGED <<server, jobs, pending, taken, promised, shot, executed, answer>>
        /\ UNCHANGED <<running, shotVars, main>>
    BY DEF vars, serverVars, shotVars
  <2>2. Shooting'
    BY <2>1, OthersKeepShots
  <2> QED BY <2>1, <2>2, NothingKeepsTurn
<1>3. InTurn /\ Shooting => AnswersAreTrue
  <2> SUFFICES ASSUME InTurn, Shooting PROVE AnswersAreTrue
    OBVIOUS
  <2>1. CommandsRunOnce
    BY DEF InTurn, InOnePlace, Distinct, Cmds, CommandsRunOnce
  <2>2. ShotsAreTaken
    BY DEF Shooting, Excused, ShotsAreTaken
  <2> QED BY <2>1, <2>2 DEF AnswersAreTrue
<1> QED BY <1>1, <1>2, <1>3, PTL DEF Spec
=============================================================================
