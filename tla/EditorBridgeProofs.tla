-------------------------- MODULE EditorBridgeProofs --------------------------
(****************************************************************************)
(* What the threads of the bridge owe each other, for every number of       *)
(* editors, entities, requests and chunks: readers are joined before their  *)
(* Client goes (ReadersAreJoined), editors are shown what is cached         *)
(* (EditorsUpToDate), and uploads nobody fell into arrive (UploadsArrive).  *)
(****************************************************************************)
EXTENDS EditorBridge, TLAPS

Frames == {Hello} \cup [type : {"EntityState", "EntityGone"}, entity : Entity]

ViewsTypeOK ==
    /\ peer \in [Editor -> {"away", "waiting", "connected", "left"}]
    /\ shown \in [Editor -> SUBSET Entity]
    /\ greeted \in [Editor -> {"none", "unset", "set"}]
    /\ overtaken \in [Editor -> SUBSET Frames]
    /\ cache \in SUBSET Entity /\ hello \in {"unset", "set"} /\ entities \in SUBSET Entity

ClientsTypeOK ==
    /\ clients \in SUBSET Editor /\ reapedEarly \in SUBSET Editor
    /\ alive \in [Editor -> BOOLEAN]
    /\ sock \in [Editor -> {"none", "open", "closed"}]
    /\ reader \in [Editor -> {"none", "testing", "receiving", "over", "joined"}]

ListenerTypeOK ==
    listener \in
        [at : {"none", "accept", "push", "snapshot", "greet", "catchUp", "over"},
         who : Editor \cup {Nobody}, hello : {"unset", "set"}, entities : SUBSET Entity]

MainTypeOK ==
    main \in
        [at : {"inbox", "setHello", "hello", "state", "gone", "publish", "join", "pump",
               "stopListener", "stopReaders", "stopped"},
         frame : Frames, locked : BOOLEAN, to : SUBSET Editor,
         entities : SUBSET Entity, dead : SUBSET Editor, pump : Nat]

BTypeOK == ViewsTypeOK /\ ClientsTypeOK /\ ListenerTypeOK /\ MainTypeOK

-----------------------------------------------------------------------------
(* Invariants *)

\* The client the listener is at has no reader yet, and is in the vector, or
\* was, once it was pushed.
Greeting ==
    /\ listener.who = Nobody <=> listener.at \in {"none", "accept", "over"}
    /\ listener.who \in Editor => reader[listener.who] = "none" /\ sock[listener.who] # "none"
    /\ listener.at = "push" => /\ sock[listener.who] = "open"
                               /\ listener.who \notin clients \cup main.dead
    /\ listener.at \in {"snapshot", "greet", "catchUp"} =>
          \/ listener.who \in clients \cup main.dead
          \/ listener.who \in reapedEarly /\ sock[listener.who] = "closed"

\* Where the main thread keeps the clients it lets go of.
Joining ==
    /\ main.dead # {} => main.at \in {"join", "stopReaders"}
    /\ main.dead \cap clients = {}
    /\ main.at = "join" => \A c \in main.dead : reader[c] = "none" => c \in reapedEarly
    /\ main.at \in {"stopReaders", "stopped"} => clients = {} /\ listener.at = "over"

\* Which clients have a socket, and who answers for it.
Sockets ==
    /\ \A c \in Editor : sock[c] = "none" => reader[c] = "none" /\ c \notin clients \cup main.dead
    /\ \A c \in clients : sock[c] = "open"
    /\ \A c \in Editor : sock[c] = "open" => c \in clients \cup main.dead \cup {listener.who}
    /\ main.at \in {"stopReaders", "stopped"} => \A c \in Editor : sock[c] # "open"

\* Who is nobody's any more was joined, or reaped without a reader.
Accounted ==
    \A c \in Editor :
        sock[c] # "none" /\ c \notin clients \cup main.dead \cup {listener.who} =>
            reader[c] = "joined" \/ c \in reapedEarly

\* The lock of the vector is held for the length of a broadcast.
LockHeld == main.locked => Broadcasting

Threads == BTypeOK /\ LockHeld /\ Greeting /\ Joining /\ Sockets /\ Accounted

\* A broadcast under way, and to whom it is still to go.
Sending ==
    /\ main.locked => main.to \subseteq clients
    /\ main.at = "hello" => main.frame = Hello
    /\ main.at = "state" => \E e \in cache : main.frame = State(e)
    /\ main.at = "gone"  => \E e \in Entity \ cache : main.frame = Gone(e)

ToCome(c, f) == Broadcasting /\ main.frame = f /\ (main.locked => c \in main.to)

\* What the editor of client c was shown, will be shown or was told past.
Shown(c) ==
    /\ \A e \in cache : \/ e \in shown[c] \/ ToCome(c, State(e))
                        \/ listener.who = c /\ (listener.at = "snapshot" \/ e \in listener.entities)
    /\ \A e \in shown[c] \ cache : Gone(e) \in overtaken[c] \/ ToCome(c, Gone(e))
    /\ listener.who = c => \A e \in listener.entities \ cache : Gone(e) \in overtaken[c]

Greeted(c) ==
    /\ \/ greeted[c] = hello
       \/ Hello \in overtaken[c]
       \/ ToCome(c, Hello)
       \/ listener.who = c /\ listener.at \in {"snapshot", "greet"}
    /\ listener.who = c /\ listener.at = "greet" =>
          listener.hello = hello \/ Hello \in overtaken[c]

Seeing == \A c \in clients : alive[c] /\ peer[c] = "connected" => Shown(c) /\ Greeted(c)

\* Nothing is sent before a client is pushed, or from a snapshot not taken yet.
Unsent ==
    /\ listener.at \in {"none", "accept", "push", "snapshot", "over"} => listener.entities = {}
    /\ \A c \in Editor : sock[c] = "none" \/ (listener.who = c /\ listener.at = "push") =>
          shown[c] = {}

Views == Threads /\ Sending /\ Unsent /\ Seeing

\* What became of the upload of an editor nobody fell into.
Turns(c) == {i \in DOMAIN asked["asset"] : asked["asset"][i] = c}

UploadOf(c) ==
    /\ upload[c] <= ChunkCount => Turns(c) = {}
    /\ upload[c] \in 1 .. ChunkCount /\ main.at # "stopped" =>
          receiver.begun /\ receiver.chunks = 0 .. upload[c] - 2
    /\ upload[c] = ChunkCount + 1 => \E i : Turns(c) = {i}

UploadsKept ==
    /\ Threads
    /\ upload \in [Editor -> 0 .. ChunkCount + 1]
    /\ asked \in [Kinds -> Seq(Editor)]
    /\ "asset" \notin Kinds => \A c \in Editor : upload[c] = 0
    /\ "asset" \in Kinds => \A c \in Editor \ overlapped : UploadOf(c)

-----------------------------------------------------------------------------
(* Threads *)

LEMMA FramesType ==
    /\ Hello \in Frames
    /\ \A e \in Entity : State(e) \in Frames /\ Gone(e) \in Frames
BY DEF Hello, State, Gone, Frames

LEMMA ThreadsInit == Init => Threads
<1> SUFFICES ASSUME Init PROVE Threads
  OBVIOUS
<1> USE NobodyAssumption DEF Init, NoListener
<1>1. BTypeOK
  BY FramesType DEF BTypeOK, ViewsTypeOK, ClientsTypeOK, ListenerTypeOK, MainTypeOK
<1>2. LockHeld /\ Greeting /\ Joining /\ Sockets /\ Accounted
  BY DEF LockHeld, Greeting, Joining, Sockets, Accounted
<1> QED BY <1>1, <1>2 DEF Threads

\* What a send may change.
LEMMA SendType ==
    ASSUME BTypeOK, NEW c \in Editor, NEW f, NEW h \in {"unset", "set"},
           f.type # "Hello" => f.entity \in Entity, Send(c, f, h)
    PROVE  /\ shown' \in [Editor -> SUBSET Entity]
           /\ greeted' \in [Editor -> {"none", "unset", "set"}]
           /\ alive' \in [Editor -> BOOLEAN]
           /\ \A d \in Editor \ {c} : alive'[d] = alive[d]
<1> USE DEF BTypeOK, ViewsTypeOK, ClientsTypeOK
<1>1. CASE UNCHANGED viewVars /\ alive' \in {alive, [alive EXCEPT ![c] = FALSE]}
  BY <1>1 DEF viewVars
<1>2. CASE Seen(c, f, h) /\ UNCHANGED alive
  <2>1. CASE f.type = "EntityState"
    BY <1>2, <2>1 DEF Seen
  <2>2. CASE f.type = "EntityGone"
    BY <1>2, <2>2 DEF Seen
  <2>3. CASE f.type \notin {"EntityState", "EntityGone"}
    BY <1>2, <2>3 DEF Seen
  <2> QED BY <2>1, <2>2, <2>3
<1> QED BY <1>1, <1>2 DEF Send

LEMMA ViewsType ==
    ASSUME BTypeOK, Greeting, Next
    PROVE  ViewsTypeOK'
<1> USE FramesType DEF ViewsTypeOK, historyVars, viewVars, stateVars, worldVars, editorVars
<1> USE DEF mainOnly
<1>0. ViewsTypeOK
  BY DEF BTypeOK
<1>1. ASSUME NEW c \in Editor, Connect(c) \/ Leave(c) \/ Stall(c) \/ Resume(c) \/ Accept(c)
      PROVE  ViewsTypeOK'
  BY <1>0, <1>1 DEF Connect, Leave, Stall, Resume, Accept
<1>2. CASE AcceptFails \/ PushClient \/ Snapshot \/ StartReader
  BY <1>0, <1>2 DEF AcceptFails, PushClient, Snapshot, StartReader
<1>3. CASE Greet
  <2>1. listener.who \in Editor /\ listener.hello \in {"unset", "set"}
    BY <1>3 DEF Greet, Greeting, BTypeOK, ListenerTypeOK
  <2> QED BY <1>0, <1>3, <2>1, SendType DEF Greet, Hello
<1>4. CASE CatchUp
  <2>1. /\ listener.who \in Editor /\ listener.hello \in {"unset", "set"}
        /\ listener.entities \in SUBSET Entity
    BY <1>4 DEF CatchUp, Greeting, BTypeOK, ListenerTypeOK
  <2>2. PICK e \in listener.entities : Send(listener.who, State(e), listener.hello)
    BY <1>4 DEF CatchUp
  <2> QED BY <1>0, <1>4, <2>1, <2>2, SendType DEF CatchUp, State
<1>5. ASSUME NEW c \in Editor, Reader(c) PROVE ViewsTypeOK'
  BY <1>0, <1>5 DEF Reader, Test, ReceiveFails, ReceiveAsset, Receive
<1>6. CASE Start \/ EndInbox \/ LockClients \/ Reap \/ Pump \/ CloseClients \/ Stopped
           \/ Stop \/ Halt
  BY <1>0, <1>6 DEF Start, EndInbox, LockClients, Reap, Pump, CloseClients, Stopped, Stop,
                    Halt, vars
<1>7. CASE SetHello
  BY <1>0, <1>7 DEF SetHello, Announce
<1>8. ASSUME NEW e \in Entity, Publish(e) \/ Spawn(e) PROVE ViewsTypeOK'
  BY <1>0, <1>8 DEF Publish, Spawn
<1>9. ASSUME NEW e \in Entity, Despawn(e) PROVE ViewsTypeOK'
  BY <1>0, <1>9 DEF Despawn, Announce, Uncache
<1>10. CASE SendNext
  <2>1. PICK c \in main.to : Send(c, main.frame, hello)
    BY <1>10 DEF SendNext
  <2>2. c \in Editor /\ main.frame \in Frames /\ hello \in {"unset", "set"}
    BY <1>0, <2>1 DEF BTypeOK, MainTypeOK
  <2>3. main.frame.type # "Hello" => main.frame.entity \in Entity
    BY <2>2 DEF Frames, Hello
  <2> QED BY <1>0, <1>10, <2>1, <2>2, <2>3, SendType DEF SendNext
<1>11. ASSUME NEW c \in Editor, CloseDead(c) \/ JoinDead(c) \/ JoinReader(c)
       PROVE  ViewsTypeOK'
  BY <1>0, <1>11 DEF CloseDead, JoinDead, JoinReader
<1> QED BY <1>1, <1>2, <1>3, <1>4, <1>5, <1>6, <1>7, <1>8, <1>9, <1>10, <1>11
        DEF Next, Listener, Main

LEMMA ClientsType ==
    ASSUME BTypeOK, Greeting, Next
    PROVE  ClientsTypeOK'
<1> USE DEF ClientsTypeOK, clientVars, historyVars, mainOnly
<1>0. ClientsTypeOK
  BY DEF BTypeOK
<1>1. ASSUME NEW c \in Editor, Connect(c) \/ Leave(c) \/ Stall(c) \/ Resume(c) \/ Accept(c)
      PROVE  ClientsTypeOK'
  BY <1>0, <1>1 DEF Connect, Leave, Stall, Resume, Accept
<1>2. CASE AcceptFails \/ PushClient \/ Snapshot \/ StartReader
  <2>1. PushClient \/ StartReader => listener.who \in Editor
    BY DEF PushClient, StartReader, Greeting, BTypeOK, ListenerTypeOK
  <2> QED BY <1>0, <1>2, <2>1 DEF AcceptFails, PushClient, Snapshot, StartReader
<1>3. CASE Greet
  <2>1. listener.who \in Editor /\ listener.hello \in {"unset", "set"}
    BY <1>3 DEF Greet, Greeting, BTypeOK, ListenerTypeOK
  <2> QED BY <1>0, <1>3, <2>1, SendType DEF Greet, Hello
<1>4. CASE CatchUp
  <2>1. /\ listener.who \in Editor /\ listener.hello \in {"unset", "set"}
        /\ listener.entities \in SUBSET Entity
    BY <1>4 DEF CatchUp, Greeting, BTypeOK, ListenerTypeOK
  <2>2. PICK e \in listener.entities : Send(listener.who, State(e), listener.hello)
    BY <1>4 DEF CatchUp
  <2> QED BY <1>0, <1>4, <2>1, <2>2, SendType DEF CatchUp, State
<1>5. ASSUME NEW c \in Editor, Reader(c) PROVE ClientsTypeOK'
  BY <1>0, <1>5 DEF Reader, Test, ReceiveFails, ReceiveAsset, Receive, Dies
<1>6. CASE Start \/ SetHello \/ EndInbox \/ LockClients \/ Pump \/ Stopped \/ Stop \/ Halt
  BY <1>0, <1>6 DEF Start, SetHello, EndInbox, LockClients, Pump, Stopped, Stop, Halt, vars
<1>7. CASE Reap \/ CloseClients
  BY <1>0, <1>7 DEF Reap, CloseClients, Closed
<1>8. ASSUME NEW e \in Entity, Publish(e) \/ Spawn(e) \/ Despawn(e) PROVE ClientsTypeOK'
  BY <1>0, <1>8 DEF Publish, Spawn, Despawn
<1>9. CASE SendNext
  <2>1. PICK c \in main.to : Send(c, main.frame, hello)
    BY <1>9 DEF SendNext
  <2>2. c \in Editor /\ main.frame \in Frames /\ hello \in {"unset", "set"}
    BY <2>1 DEF BTypeOK, MainTypeOK, ViewsTypeOK
  <2>3. main.frame.type # "Hello" => main.frame.entity \in Entity
    BY <2>2 DEF Frames, Hello
  <2> QED BY <1>0, <1>9, <2>1, <2>2, <2>3, SendType DEF SendNext
<1>10. ASSUME NEW c \in Editor, CloseDead(c) \/ JoinDead(c) \/ JoinReader(c)
       PROVE  ClientsTypeOK'
  BY <1>0, <1>10 DEF CloseDead, JoinDead, JoinReader
<1> QED BY <1>1, <1>2, <1>3, <1>4, <1>5, <1>6, <1>7, <1>8, <1>9, <1>10
        DEF Next, Listener, Main

LEMMA ListenerType ==
    ASSUME BTypeOK, Next
    PROVE  ListenerTypeOK'
<1>0. listener \in [at : {"none", "accept", "push", "snapshot", "greet", "catchUp", "over"},
         who : Editor \cup {Nobody}, hello : {"unset", "set"}, entities : SUBSET Entity]
  BY DEF BTypeOK, ListenerTypeOK
<1>1. CASE UNCHANGED listener
  BY <1>0, <1>1 DEF ListenerTypeOK
<1>2. ASSUME NEW c \in Editor, Accept(c) PROVE ListenerTypeOK'
  BY <1>0, <1>2 DEF Accept, ListenerTypeOK
<1>3. CASE AcceptFails \/ PushClient \/ Greet
  BY <1>0, <1>3 DEF AcceptFails, PushClient, Greet, ListenerTypeOK
<1>4. CASE Snapshot \/ CatchUp
  <2>1. hello \in {"unset", "set"} /\ cache \in SUBSET Entity
    BY DEF BTypeOK, ViewsTypeOK
  <2> QED BY <1>0, <1>4, <2>1 DEF Snapshot, CatchUp, ListenerTypeOK
<1>5. CASE StartReader \/ Start
  BY <1>5 DEF StartReader, Start, NoListener, Begins, ListenerTypeOK
<1> QED BY <1>1, <1>2, <1>3, <1>4, <1>5
        DEF Next, Listener, Main, Reader, Connect, Leave, Stall, Resume, Test, ReceiveFails,
            ReceiveAsset, Receive, SetHello, EndInbox, Publish, LockClients, SendNext, Reap,
            Pump, CloseClients, Stopped, CloseDead, JoinDead, JoinReader, Spawn, Despawn, Stop,
            Halt, vars, mainOnly

LEMMA MainType ==
    ASSUME BTypeOK, Next
    PROVE  MainTypeOK'
<1> USE FramesType
<1>0. /\ main \in [at : {"inbox", "setHello", "hello", "state", "gone", "publish", "join", "pump",
                         "stopListener", "stopReaders", "stopped"},
                   frame : Frames, locked : BOOLEAN, to : SUBSET Editor,
                   entities : SUBSET Entity, dead : SUBSET Editor, pump : Nat]
      /\ clients \in SUBSET Editor /\ entities \in SUBSET Entity
  BY DEF BTypeOK, MainTypeOK, ClientsTypeOK, ViewsTypeOK
<1>1. CASE UNCHANGED main
  BY <1>0, <1>1 DEF MainTypeOK
<1>2. CASE Start \/ EndInbox
  BY <1>0, <1>2 DEF Start, EndInbox, MainTypeOK
<1>3. ASSUME NEW at \in {"hello", "gone"}, NEW f \in Frames, Announce(at, f)
      PROVE  MainTypeOK'
  BY <1>0, <1>3 DEF Announce, MainTypeOK
<1>4. CASE SetHello
  BY <1>3, <1>4 DEF SetHello
<1>5. ASSUME NEW e \in Entity, Despawn(e) PROVE MainTypeOK'
  BY <1>1, <1>3, <1>5 DEF Despawn
<1>6. ASSUME NEW e \in Entity, Publish(e) PROVE MainTypeOK'
  BY <1>0, <1>6 DEF Publish, MainTypeOK
<1>7. ASSUME NEW to \in SUBSET Editor, Sends(to) PROVE MainTypeOK'
  BY <1>0, <1>7 DEF Sends, After, MainTypeOK
<1>8. CASE LockClients \/ SendNext
  <2>1. CASE LockClients
    <3>1. Sends(clients)
      BY <2>1 DEF LockClients
    <3> QED BY <1>0, <1>7, <3>1
  <2>2. CASE SendNext
    <3>1. PICK c \in main.to : Sends(main.to \ {c})
      BY <2>2 DEF SendNext
    <3>2. main.to \ {c} \in SUBSET Editor
      BY <1>0
    <3> QED BY <1>7, <3>1, <3>2
  <2> QED BY <1>8, <2>1, <2>2
<1>9. CASE Reap
  BY <1>0, <1>9 DEF Reap, MainTypeOK
<1>10. CASE Stop \/ CloseClients \/ Stopped
  BY <1>0, <1>10 DEF Stop, CloseClients, Stopped, MainTypeOK
<1>11. CASE Pump
  <2>1. Len(Kind) \in Nat
    BY RequestAssumption
  <2>2. CASE main.pump < Len(Kind)
    <3>1. main' = [main EXCEPT !.pump = main.pump + 1] /\ main.pump + 1 \in Nat
      BY <1>0, <1>11, <2>2 DEF Pump
    <3> QED BY <1>0, <3>1 DEF MainTypeOK
  <2>3. CASE ~(main.pump < Len(Kind))
    BY <1>0, <1>11, <2>3 DEF Pump, MainTypeOK
  <2> QED BY <2>2, <2>3
<1>12. ASSUME NEW c \in Editor, JoinDead(c) \/ JoinReader(c) PROVE MainTypeOK'
  BY <1>0, <1>12 DEF JoinDead, JoinReader, MainTypeOK
<1> QED BY <1>1, <1>2, <1>4, <1>5, <1>6, <1>8, <1>9, <1>10, <1>11, <1>12
        DEF Next, Listener, Main, Connect, Leave, Stall, Resume, Accept, AcceptFails, PushClient,
            Snapshot, Greet, CatchUp, StartReader, Reader, Test, ReceiveFails, ReceiveAsset,
            Receive, CloseDead, Spawn, Halt, vars

LEMMA LockNext ==
    ASSUME MainTypeOK, LockHeld, [Next]_vars
    PROVE  LockHeld'
<1> USE DEF LockHeld, Broadcasting
<1>0. main = [at |-> main.at, frame |-> main.frame, locked |-> main.locked, to |-> main.to,
              entities |-> main.entities, dead |-> main.dead, pump |-> main.pump]
  BY DEF MainTypeOK
<1>1. CASE UNCHANGED main
  BY <1>1
<1>2. ASSUME main.at \notin {"hello", "state", "gone"}, main'.locked = main.locked
      PROVE  LockHeld'
  BY <1>2
<1>3. CASE LockClients \/ SendNext
  <2>1. PICK to : Sends(to)
    BY <1>3 DEF LockClients, SendNext
  <2>2. Broadcasting
    BY <1>3 DEF LockClients, SendNext
  <2>3. CASE to # {}
    <3>1. main'.at = main.at
      BY <1>0, <2>1, <2>3 DEF Sends
    <3> QED BY <2>2, <3>1
  <2>4. CASE to = {}
    <3>1. main' = [main EXCEPT !.at = After(main.at), !.frame = Hello, !.locked = FALSE, !.to = {}]
      BY <2>1, <2>4 DEF Sends
    <3>2. main'.locked = FALSE
      BY <1>0, <3>1
    <3> QED BY <3>2
  <2> QED BY <2>3, <2>4
<1>4. CASE Start \/ SetHello \/ EndInbox
  BY <1>0, <1>2, <1>4 DEF Start, SetHello, EndInbox, Announce
<1>5. ASSUME NEW e \in Entity, Despawn(e) \/ Publish(e) PROVE LockHeld'
  BY <1>0, <1>1, <1>2, <1>5 DEF Despawn, Publish, Announce
<1>6. CASE Reap \/ Pump \/ Stop \/ CloseClients \/ Stopped
  BY <1>0, <1>2, <1>6 DEF Reap, Pump, Stop, CloseClients, Stopped
<1>7. ASSUME NEW c \in Editor, JoinDead(c) \/ JoinReader(c) PROVE LockHeld'
  BY <1>0, <1>2, <1>7 DEF JoinDead, JoinReader
<1> QED BY <1>1, <1>3, <1>4, <1>5, <1>6, <1>7
        DEF Next, Listener, Main, Connect, Leave, Stall, Resume, Accept, AcceptFails, PushClient,
            Snapshot, Greet, CatchUp, StartReader, Reader, Test, ReceiveFails, ReceiveAsset,
            Receive, CloseDead, Spawn, Halt, vars, mainOnly

\* Steps that hand no client on.
Keeps ==
    /\ UNCHANGED <<clients, sock, reapedEarly>>
    /\ main'.dead = main.dead /\ listener'.who = listener.who
    /\ listener'.at = "push" <=> listener.at = "push"
    /\ listener'.at \in {"none", "accept", "over"} <=> listener.at \in {"none", "accept", "over"}
    /\ listener.at = "over" => listener'.at = "over"
    /\ main'.at = main.at \/ main.dead = {}
    /\ main'.at \in {"stopReaders", "stopped"} => main.at \in {"stopReaders", "stopped"}
    /\ \A c \in Editor : /\ reader'[c] = "none" <=> reader[c] = "none"
                         /\ reader[c] = "joined" => reader'[c] = "joined"

LEMMA KeepingThreads ==
    ASSUME Threads, Keeps, BTypeOK', LockHeld'
    PROVE  Threads'
<1> USE DEF Keeps, Threads, BTypeOK, ListenerTypeOK, MainTypeOK
<1>1. Greeting'
  BY NobodyAssumption DEF Greeting
<1>2. Joining'
  BY DEF Joining
<1>3. Sockets'
  BY DEF Sockets, ClientsTypeOK
<1>4. Accounted'
  BY DEF Accounted
<1> QED BY <1>1, <1>2, <1>3, <1>4

LEMMA ThreadsNext == Threads /\ [Next]_vars => Threads'
<1> SUFFICES ASSUME Threads, [Next]_vars PROVE Threads'
  OBVIOUS
<1>0. LockHeld'
  BY LockNext DEF Threads, BTypeOK
<1>1. CASE UNCHANGED vars
  <2>1. BTypeOK'
    BY <1>1 DEF vars, Threads, BTypeOK, ViewsTypeOK, ClientsTypeOK, ListenerTypeOK, MainTypeOK,
                editorVars, viewVars, clientVars, stateVars, worldVars, historyVars
  <2> QED BY <1>0, <1>1, <2>1, KeepingThreads DEF vars, Keeps, clientVars, historyVars
<1> SUFFICES ASSUME Next PROVE Threads'
  BY <1>1
<1>2. BTypeOK /\ BTypeOK' /\ LockHeld'
  BY <1>0, ViewsType, ClientsType, ListenerType, MainType DEF Threads, BTypeOK
<1>3. /\ Greeting /\ Joining /\ Sockets /\ Accounted
      /\ ListenerTypeOK /\ MainTypeOK /\ ClientsTypeOK
  BY DEF Threads, BTypeOK
<1>4. ASSUME NEW c \in Editor, Connect(c) \/ Leave(c) \/ Stall(c) \/ Resume(c) PROVE Threads'
  BY <1>2, <1>4, KeepingThreads DEF Connect, Leave, Stall, Resume, Keeps, clientVars, historyVars
<1>5. CASE AcceptFails \/ Snapshot \/ Greet \/ CatchUp
  <2>1. Keeps
    BY <1>3, <1>5 DEF AcceptFails, Snapshot, Greet, CatchUp, Keeps, clientVars, historyVars,
                      ListenerTypeOK
  <2> QED BY <1>2, <2>1, KeepingThreads
<1>6. ASSUME NEW c \in Editor, Reader(c) PROVE Threads'
  <2>1. Keeps
    BY <1>3, <1>6 DEF Reader, Test, ReceiveFails, ReceiveAsset, Receive, Receiving, Keeps,
                      historyVars, ClientsTypeOK
  <2> QED BY <1>2, <2>1, KeepingThreads
<1>7. CASE Start
  <2>1. Keeps
    BY <1>3, <1>7 DEF Start, NoListener, Begins, Keeps, clientVars, historyVars, Joining,
                      Greeting, ListenerTypeOK, MainTypeOK
  <2> QED BY <1>2, <2>1, KeepingThreads
<1>8. ASSUME NEW at \in {"hello", "gone"}, NEW f, Announce(at, f),
             UNCHANGED <<clients, sock, reapedEarly, reader, listener>>, main.at \in {"inbox", "setHello"}
      PROVE  Threads'
  <2>1. Keeps
    BY <1>3, <1>8 DEF Announce, Keeps, Joining, MainTypeOK
  <2> QED BY <1>2, <2>1, KeepingThreads
<1>9. CASE SetHello
  BY <1>8, <1>9 DEF SetHello, mainOnly
<1>10. ASSUME NEW e \in Entity, Spawn(e) \/ Despawn(e) PROVE Threads'
  <2>1. CASE UNCHANGED main
    <3>1. Keeps
      BY <1>10, <2>1 DEF Spawn, Despawn, mainOnly, Keeps, historyVars
    <3> QED BY <1>2, <3>1, KeepingThreads
  <2> QED BY <1>8, <1>10, <2>1 DEF Spawn, Despawn, mainOnly
<1>11. ASSUME NEW e \in Entity, Publish(e) PROVE Threads'
  <2>1. Keeps
    BY <1>3, <1>11 DEF Publish, mainOnly, Keeps, historyVars, Joining, MainTypeOK
  <2> QED BY <1>2, <2>1, KeepingThreads
<1>12. CASE EndInbox \/ Pump \/ Stop \/ Stopped \/ Halt
  <2>1. Keeps
    BY <1>3, <1>12 DEF EndInbox, Pump, Stop, Stopped, Halt, vars, mainOnly, Keeps, historyVars,
                       clientVars, Joining, MainTypeOK
  <2> QED BY <1>2, <2>1, KeepingThreads
<1>13. CASE LockClients \/ SendNext
  <2>1. PICK to : Sends(to)
    BY <1>13 DEF LockClients, SendNext
  <2>2. Broadcasting
    BY <1>13 DEF LockClients, SendNext, Threads, LockHeld
  <2>3. main.dead = {} /\ main'.dead = main.dead /\ main'.at \notin {"stopReaders", "stopped"}
    BY <1>3, <2>1, <2>2 DEF Sends, After, MainTypeOK, Joining, Broadcasting
  <2>4. Keeps
    BY <1>3, <1>13, <2>2, <2>3 DEF LockClients, SendNext, mainOnly, Keeps, historyVars
  <2> QED BY <1>2, <2>4, KeepingThreads
<1> USE DEF ClientsTypeOK, ListenerTypeOK, MainTypeOK
<1>14. ASSUME NEW c \in Editor, Accept(c) PROVE Threads'
  <2>1. /\ sock' = [sock EXCEPT ![c] = "open"] /\ sock[c] = "none" /\ listener.at = "accept"
        /\ listener'.at = "push" /\ listener'.who = c
        /\ UNCHANGED <<clients, reader, main, reapedEarly>>
    BY <1>3, <1>14 DEF Accept, historyVars
  <2>2. listener.who = Nobody
    BY <1>3, <2>1 DEF Greeting
  <2>3. Greeting' /\ Joining'
    BY <1>3, <2>1, NobodyAssumption DEF Greeting, Joining, Sockets
  <2>4. Sockets' /\ Accounted'
    BY <1>3, <2>1, <2>2, NobodyAssumption DEF Sockets, Accounted, Joining
  <2> QED BY <1>2, <2>3, <2>4 DEF Threads
<1>15. CASE PushClient
  <2>1. /\ listener.at = "push" /\ listener'.at = "snapshot" /\ listener'.who = listener.who
        /\ clients' = clients \cup {listener.who}
        /\ UNCHANGED <<sock, reader, main, reapedEarly>>
    BY <1>3, <1>15 DEF PushClient, clientVars, historyVars
  <2>2. listener.who \in Editor /\ sock[listener.who] = "open" /\ listener.who \notin main.dead
    BY <1>3, <2>1 DEF Greeting
  <2>3. Greeting' /\ Joining'
    BY <1>3, <2>1, <2>2, NobodyAssumption DEF Greeting, Joining
  <2>4. Sockets' /\ Accounted'
    BY <1>3, <2>1, <2>2 DEF Sockets, Accounted, Joining
  <2> QED BY <1>2, <2>3, <2>4 DEF Threads
<1>16. CASE StartReader
  <2>1. /\ listener.at = "catchUp" /\ listener'.at \in {"accept", "over"} /\ listener'.who = Nobody
        /\ reader' = [reader EXCEPT ![listener.who] = "testing"]
        /\ UNCHANGED <<clients, sock, main, reapedEarly>>
    BY <1>3, <1>16 DEF StartReader, NoListener, historyVars
  <2>2. /\ listener.who \in Editor /\ reader[listener.who] = "none" /\ sock[listener.who] # "none"
        /\ \/ listener.who \in clients \cup main.dead
           \/ listener.who \in reapedEarly /\ sock[listener.who] = "closed"
    BY <1>3, <2>1 DEF Greeting
  <2>3. Greeting'
    BY <2>1, NobodyAssumption DEF Greeting
  <2>4. Joining'
    <3>1. \A c \in Editor : reader'[c] = "none" => reader[c] = "none"
      BY <1>3, <2>1, <2>2
    <3>2. main.at \notin {"stopReaders", "stopped"}
      BY <1>3, <2>1 DEF Joining
    <3> QED BY <1>3, <2>1, <3>1, <3>2 DEF Joining
  <2>5. Sockets' /\ Accounted'
    BY <1>3, <2>1, <2>2 DEF Sockets, Accounted, Joining
  <2> QED BY <1>2, <2>3, <2>4, <2>5 DEF Threads
<1>17. CASE Reap
  <2>1. PICK dead : dead = {c \in clients : ~alive[c]}
    OBVIOUS
  <2>2. /\ main.at = "publish" /\ main'.dead = dead /\ clients' = clients \ dead
        /\ main'.at = IF dead = {} THEN "pump" ELSE "join"
        /\ reapedEarly' = reapedEarly \cup {c \in dead : reader[c] = "none"}
        /\ UNCHANGED <<listener, sock, reader>>
    BY <1>3, <1>17, <2>1 DEF Reap, mainOnly
  <2>3. dead \subseteq clients /\ main.dead = {}
    BY <1>3, <2>1, <2>2 DEF Joining
  <2>4. Greeting' /\ Joining'
    BY <1>3, <2>2, <2>3 DEF Greeting, Joining
  <2>5. Sockets' /\ Accounted'
    BY <1>3, <2>2, <2>3 DEF Sockets, Accounted
  <2> QED BY <1>2, <2>4, <2>5 DEF Threads
<1>18. ASSUME NEW c \in Editor, CloseDead(c) PROVE Threads'
  <2>1. /\ main.at = "join" /\ c \in main.dead /\ sock[c] = "open"
        /\ sock' = [sock EXCEPT ![c] = "closed"]
        /\ UNCHANGED <<clients, reader, main, reapedEarly, listener>>
    BY <1>18 DEF CloseDead, historyVars
  <2>2. Greeting' /\ Joining'
    BY <1>3, <2>1 DEF Greeting, Joining
  <2>3. Sockets' /\ Accounted'
    BY <1>3, <2>1 DEF Sockets, Accounted, Joining
  <2> QED BY <1>2, <2>2, <2>3 DEF Threads
<1>19. ASSUME NEW c \in Editor, JoinDead(c) PROVE Threads'
  <2>1. /\ main.at = "join" /\ c \in main.dead /\ sock[c] = "closed" /\ reader[c] \in {"none", "over"}
        /\ reader' = IF reader[c] = "over" THEN [reader EXCEPT ![c] = "joined"] ELSE reader
        /\ main'.dead = main.dead \ {c} /\ main'.at = IF main.dead = {c} THEN "pump" ELSE "join"
        /\ UNCHANGED <<clients, sock, reapedEarly, listener>>
    BY <1>3, <1>19 DEF JoinDead, Joins, historyVars
  <2>2. c \notin clients /\ (reader[c] = "none" => c \in reapedEarly)
    BY <1>3, <2>1 DEF Joining
  <2>3. Greeting' /\ Joining'
    BY <1>3, <2>1, <2>2 DEF Greeting, Joining
  <2>4. Sockets' /\ Accounted'
    BY <1>3, <2>1, <2>2 DEF Sockets, Accounted
  <2> QED BY <1>2, <2>3, <2>4 DEF Threads
<1>20. CASE CloseClients
  <2>1. /\ main.at = "stopListener" /\ listener.at = "over" /\ main'.at = "stopReaders"
        /\ \A c \in Editor : sock'[c] = IF c \in clients THEN "closed" ELSE sock[c]
        /\ main'.dead = clients /\ clients' = {}
        /\ UNCHANGED <<reader, reapedEarly, listener>>
    BY <1>3, <1>20 DEF CloseClients, Closed, historyVars
  <2>2. main.dead = {} /\ listener.who = Nobody
    BY <1>3, <2>1 DEF Joining, Greeting
  <2>3. Greeting' /\ Joining'
    BY <1>3, <2>1, <2>2, NobodyAssumption DEF Greeting, Joining
  <2>4. Sockets' /\ Accounted'
    BY <1>3, <2>1, <2>2, NobodyAssumption DEF Sockets, Accounted
  <2> QED BY <1>2, <2>3, <2>4 DEF Threads
<1>21. ASSUME NEW c \in Editor, JoinReader(c) PROVE Threads'
  <2>1. /\ main.at = "stopReaders" /\ c \in main.dead /\ reader[c] = "over"
        /\ reader' = [reader EXCEPT ![c] = "joined"]
        /\ main'.dead = main.dead \ {c} /\ main'.at = main.at
        /\ UNCHANGED <<clients, sock, reapedEarly, listener>>
    BY <1>3, <1>21 DEF JoinReader, historyVars
  <2>2. Greeting' /\ Joining'
    BY <1>3, <2>1 DEF Greeting, Joining
  <2>3. Sockets' /\ Accounted'
    BY <1>3, <2>1 DEF Sockets, Accounted
  <2> QED BY <1>2, <2>2, <2>3 DEF Threads
<1> QED BY <1>4, <1>5, <1>6, <1>7, <1>9, <1>10, <1>11, <1>12, <1>13, <1>14, <1>15, <1>16, <1>17,
           <1>18, <1>19, <1>20, <1>21
        DEF Next, Listener, Main

\* A Client goes only with its reader joined, but one reaped before it had a reader
\* (reapDeadClients 596-624, stop 342-417).
THEOREM ReadersJoined == Spec => []ReadersAreJoined
<1>1. Threads => ReadersAreJoined
  BY DEF Threads, Accounted, ReadersAreJoined, Destroyed
<1> QED BY <1>1, ThreadsInit, ThreadsNext, PTL DEF Spec

-----------------------------------------------------------------------------
(* Views *)

LEMMA ViewsInit == Init => Views
<1> SUFFICES ASSUME Init PROVE Views
  OBVIOUS
<1>1. Sending /\ Unsent /\ Seeing
  BY DEF Init, NoListener, Sending, Unsent, Seeing, Broadcasting
<1> QED BY <1>1, ThreadsInit DEF Views

\* Steps between broadcasts, or of others during one, that send nothing.
Unseen ==
    /\ UNCHANGED <<shown, greeted, overtaken, cache, hello, listener>>
    /\ clients' \subseteq clients
    /\ \A c \in Editor : alive'[c] => alive[c]
    /\ \A c \in Editor : sock'[c] = "none" => sock[c] = "none"
    /\ \A c \in clients' : peer'[c] = "connected" => peer[c] = "connected"
    /\ \/ main' = main /\ clients' = clients
       \/ main.at \notin {"hello", "state", "gone"} /\ main'.at \notin {"hello", "state", "gone"}

LEMMA NothingSeen ==
    ASSUME Views, Threads', Unseen
    PROVE  Views'
<1> USE DEF Unseen
<1>1. clients' \subseteq Editor /\ (main.locked => Broadcasting) /\ (main'.locked => Broadcasting')
  BY DEF Views, Threads, BTypeOK, ClientsTypeOK, LockHeld
<1>2. \A c, f : ToCome(c, f)' = ToCome(c, f)
  BY DEF ToCome, Broadcasting
<1>3. Sending'
  BY <1>1 DEF Views, Sending, Broadcasting
<1>4. Unsent'
  BY DEF Views, Unsent
<1>5. Seeing'
  BY <1>1, <1>2 DEF Views, Seeing, Shown, Greeted
<1> QED BY <1>3, <1>4, <1>5 DEF Views

\* A connected client that is sent a frame has it seen.
LEMMA SentIsSeen ==
    ASSUME BTypeOK, NEW c \in Editor, NEW f, NEW h, Send(c, f, h), sock[c] = "open",
           alive'[c], peer[c] = "connected"
    PROVE  Seen(c, f, h)
<1> USE DEF BTypeOK, ViewsTypeOK, ClientsTypeOK, Send
<1> QED OBVIOUS

LEMMA SentByOther ==
    ASSUME BTypeOK, NEW c \in Editor, NEW f, NEW h, Send(c, f, h)
    PROVE  /\ \A d \in Editor : alive'[d] => alive[d]
           /\ \A d \in Editor \ {c} : shown'[d] = shown[d] /\ greeted'[d] = greeted[d]
<1> USE DEF BTypeOK, ViewsTypeOK, ClientsTypeOK
<1>1. CASE Seen(c, f, h) /\ UNCHANGED alive
  BY <1>1 DEF Seen
<1>2. CASE UNCHANGED viewVars /\ alive' \in {alive, [alive EXCEPT ![c] = FALSE]}
  BY <1>2 DEF viewVars
<1> QED BY <1>1, <1>2 DEF Send

\* What the editor has seen after a frame.
LEMMA SeenAfter ==
    ASSUME BTypeOK, NEW c \in Editor, NEW f, NEW h, Seen(c, f, h)
    PROVE  /\ f.type = "EntityState" => shown'[c] = shown[c] \cup {f.entity}
           /\ f.type = "EntityGone" => shown'[c] = shown[c] \ {f.entity}
           /\ f.type = "Hello" => shown'[c] = shown[c] /\ greeted'[c] = h
           /\ f.type # "Hello" => greeted'[c] = greeted[c]
BY DEF BTypeOK, ViewsTypeOK, Seen

LEMMA ViewsListener ==
    ASSUME Views, Threads', Listener
    PROVE  Views'
<1> USE DEF BTypeOK, ListenerTypeOK, ClientsTypeOK, historyVars, viewVars, stateVars, editorVars
<1>1. /\ BTypeOK /\ BTypeOK' /\ Greeting /\ Greeting' /\ Sockets /\ Sending /\ Unsent /\ Seeing
      /\ main.locked => Broadcasting
  BY DEF Views, Threads, LockHeld
<1>2. UNCHANGED <<main, cache, hello, overtaken>>
  BY DEF Listener, Accept, AcceptFails, PushClient, Snapshot, Greet, CatchUp, StartReader
<1>3. (\A c, f : ToCome(c, f)' = ToCome(c, f)) /\ Broadcasting' = Broadcasting
  BY <1>2 DEF ToCome, Broadcasting
<1>4. ASSUME NEW c \in Editor, Accept(c) PROVE Views'
  <2>1. /\ c \notin clients /\ listener.who = Nobody /\ listener.entities = {}
        /\ shown[c] = {} /\ listener'.who = c /\ listener'.at = "push" /\ listener'.entities = {}
        /\ \A d \in Editor \ {c} : peer'[d] = peer[d] /\ sock'[d] = sock[d]
        /\ UNCHANGED <<clients, alive, shown, greeted>>
    BY <1>1, <1>4 DEF Accept, Greeting, Sockets, Unsent, ViewsTypeOK
  <2>2. Unsent'
    BY <1>1, <2>1 DEF Unsent
  <2>3. Seeing'
    BY <1>1, <1>2, <1>3, <2>1, NobodyAssumption DEF Seeing, Shown, Greeted
  <2> QED BY <1>1, <1>2, <1>3, <2>1, <2>2, <2>3 DEF Views, Sending
<1>5. CASE AcceptFails
  <2>1. /\ listener'.who = listener.who /\ listener.who = Nobody /\ listener'.entities = {}
        /\ listener.at = "accept" /\ listener'.at = "over"
        /\ UNCHANGED <<clients, alive, shown, greeted, peer, sock>>
    BY <1>1, <1>5 DEF AcceptFails, Greeting, Unsent, clientVars
  <2>2. Unsent' /\ Seeing'
    BY <1>1, <1>2, <1>3, <2>1, NobodyAssumption DEF Unsent, Seeing, Shown, Greeted
  <2> QED BY <1>1, <1>2, <1>3, <2>1, <2>2 DEF Views, Sending
<1>6. CASE PushClient
  <2>1. /\ listener'.who = listener.who /\ listener.who \in Editor /\ listener.entities = {}
        /\ listener'.entities = {} /\ shown[listener.who] = {}
        /\ listener.at = "push" /\ listener'.at = "snapshot"
        /\ clients' = clients \cup {listener.who} /\ listener.who \notin clients
        /\ UNCHANGED <<alive, shown, greeted, peer, sock>>
    BY <1>1, <1>6 DEF PushClient, Greeting, Unsent, clientVars
  <2>2. Unsent'
    BY <1>1, <2>1 DEF Unsent
  <2>3. Seeing'
    BY <1>1, <1>2, <1>3, <2>1 DEF Seeing, Shown, Greeted
  <2>4. Sending'
    BY <1>1, <1>2, <1>3, <2>1 DEF Sending
  <2> QED BY <2>2, <2>3, <2>4 DEF Views
<1>7. CASE Snapshot
  <2>1. /\ listener'.who = listener.who /\ listener.at = "snapshot" /\ listener'.at = "greet"
        /\ listener'.entities = cache /\ listener'.hello = hello
        /\ UNCHANGED <<clients, alive, shown, greeted, peer, sock>>
    BY <1>1, <1>7 DEF Snapshot, clientVars
  <2>2. Unsent' /\ Seeing'
    BY <1>1, <1>2, <1>3, <2>1 DEF Unsent, Seeing, Shown, Greeted
  <2> QED BY <1>1, <1>2, <1>3, <2>1, <2>2 DEF Views, Sending
<1>8. CASE Greet
  <2>1. /\ listener'.who = listener.who /\ listener.at = "greet" /\ listener'.at = "catchUp"
        /\ listener'.entities = listener.entities /\ listener.who \in Editor
        /\ UNCHANGED <<clients, peer, sock>> /\ Send(listener.who, Hello, listener.hello)
    BY <1>1, <1>8 DEF Greet, Greeting
  <2>2. Sending'
    BY <1>1, <1>2, <1>3, <2>1 DEF Sending
  <2>3. Unsent'
    BY <1>1, <2>1, SentByOther DEF Unsent, Greeting
  <2>4. Seeing'
    <3> SUFFICES ASSUME NEW d \in clients, alive'[d], peer[d] = "connected"
                 PROVE  Shown(d)' /\ Greeted(d)'
      BY <2>1 DEF Seeing
    <3>1. alive[d] /\ Shown(d) /\ Greeted(d)
      BY <1>1, <2>1, SentByOther DEF Seeing
    <3>2. CASE d = listener.who
      <4>1. Seen(d, Hello, listener.hello)
        BY <1>1, <2>1, <3>2, SentIsSeen DEF Sockets
      <4>2. shown'[d] = shown[d] /\ greeted'[d] = listener.hello
        BY <1>1, <4>1, SeenAfter DEF Hello
      <4> QED BY <1>2, <1>3, <2>1, <3>1, <3>2, <4>2 DEF Shown, Greeted
    <3>3. CASE d # listener.who
      <4>1. shown'[d] = shown[d] /\ greeted'[d] = greeted[d]
        BY <1>1, <2>1, <3>3, SentByOther
      <4> QED BY <1>2, <1>3, <2>1, <3>1, <3>3, <4>1 DEF Shown, Greeted
    <3> QED BY <3>2, <3>3
  <2> QED BY <2>2, <2>3, <2>4 DEF Views
<1>9. CASE CatchUp
  <2>1. PICK e \in listener.entities :
           /\ Send(listener.who, State(e), listener.hello)
           /\ listener' = [listener EXCEPT !.entities = @ \ {e}]
    BY <1>9 DEF CatchUp
  <2>2. /\ listener'.who = listener.who /\ listener.at = "catchUp" /\ listener'.at = "catchUp"
        /\ listener'.entities = listener.entities \ {e} /\ listener.who \in Editor
        /\ UNCHANGED <<clients, peer, sock>>
    BY <1>1, <1>9, <2>1 DEF CatchUp, Greeting
  <2>3. Sending'
    BY <1>1, <1>2, <1>3, <2>2 DEF Sending
  <2>4. Unsent'
    BY <1>1, <2>1, <2>2, SentByOther DEF Unsent, Greeting
  <2>5. Seeing'
    <3> SUFFICES ASSUME NEW d \in clients, alive'[d], peer[d] = "connected"
                 PROVE  Shown(d)' /\ Greeted(d)'
      BY <2>2 DEF Seeing
    <3>1. alive[d] /\ Shown(d) /\ Greeted(d)
      BY <1>1, <2>1, <2>2, SentByOther DEF Seeing
    <3>2. CASE d = listener.who
      <4>1. Seen(d, State(e), listener.hello)
        BY <1>1, <2>1, <2>2, <3>2, SentIsSeen DEF Sockets
      <4>2. shown'[d] = shown[d] \cup {e} /\ greeted'[d] = greeted[d]
        BY <1>1, <4>1, SeenAfter DEF State
      <4> QED BY <1>2, <1>3, <2>2, <3>1, <3>2, <4>2 DEF Shown, Greeted
    <3>3. CASE d # listener.who
      <4>1. shown'[d] = shown[d] /\ greeted'[d] = greeted[d]
        BY <1>1, <2>1, <2>2, <3>3, SentByOther
      <4> QED BY <1>2, <1>3, <2>2, <3>1, <3>3, <4>1 DEF Shown, Greeted
    <3> QED BY <3>2, <3>3
  <2> QED BY <2>3, <2>4, <2>5 DEF Views
<1>10. CASE StartReader
  <2>1. /\ listener.at = "catchUp" /\ listener.entities = {}
        /\ listener'.who = Nobody /\ listener'.entities = {}
        /\ UNCHANGED <<clients, alive, shown, greeted, peer, sock>>
    BY <1>10 DEF StartReader, NoListener
  <2>2. Unsent' /\ Seeing'
    BY <1>1, <1>2, <1>3, <2>1, NobodyAssumption DEF Unsent, Seeing, Shown, Greeted
  <2> QED BY <1>1, <1>2, <1>3, <2>1, <2>2 DEF Views, Sending
<1> QED BY <1>4, <1>5, <1>6, <1>7, <1>8, <1>9, <1>10 DEF Listener

\* What a broadcast is about is on its way to everybody.
LEMMA ViewsAnnounce ==
    ASSUME Views, Threads', NEW e,
           SetHello \/ (e \in Entity /\ Publish(e)) \/ (e \in Entity /\ Despawn(e) /\ running)
    PROVE  Views'
<1> USE DEF BTypeOK, ClientsTypeOK
<1>1. /\ BTypeOK /\ Sending /\ Unsent /\ Seeing /\ (main.locked => Broadcasting)
      /\ main.at \notin {"hello", "state", "gone"}
      /\ clients \subseteq Editor
  BY DEF Views, Threads, LockHeld, SetHello, Publish, Despawn
<1>2. UNCHANGED <<clients, alive, sock, peer, shown, greeted, listener>>
  BY DEF SetHello, Publish, Despawn, mainOnly, viewVars, editorVars
<1>3. /\ main'.locked = main.locked
      /\ \/ /\ main'.at = "hello" /\ main'.frame = Hello /\ cache' = cache
         \/ /\ main'.at = "state" /\ main'.frame = State(e) /\ cache' = cache \cup {e}
            /\ hello' = hello
         \/ /\ main'.at = "gone" /\ main'.frame = Gone(e) /\ cache' = cache \ {e}
            /\ hello' = hello /\ e \in Entity
  BY <1>1 DEF SetHello, Publish, Despawn, Announce, MainTypeOK, Uncache
<1>4. /\ \A c \in Editor : overtaken[c] \subseteq overtaken'[c]
      /\ \A c \in Editor : listener.who = c /\ listener.at \in {"greet", "catchUp"}
            /\ main'.at # "state" => main'.frame \in overtaken'[c]
  <2>1. CASE Publish(e)
    BY <1>1, <2>1 DEF Publish, MainTypeOK, historyVars
  <2>2. ASSUME NEW at, NEW f, Announce(at, f)
        PROVE  /\ \A c \in Editor : overtaken[c] \subseteq overtaken'[c]
               /\ \A c \in Editor : listener.who = c /\ listener.at \in {"greet", "catchUp"} =>
                     f \in overtaken'[c]
               /\ main'.frame = f
    BY <1>1, <2>2 DEF Announce, MainTypeOK, ViewsTypeOK
  <2>3. CASE ~Publish(e)
    BY <2>2, <2>3 DEF SetHello, Despawn
  <2> QED BY <2>1, <2>3
<1>5. ~main'.locked /\ Broadcasting' /\ ~Broadcasting
  BY <1>1, <1>3 DEF Broadcasting
<1>6. /\ \A c, f : ~ToCome(c, f)
      /\ \A c : ToCome(c, main.frame)'
  BY <1>5 DEF ToCome
<1>7. Sending'
  BY <1>3, <1>5 DEF Sending
<1>8. Unsent'
  BY <1>1, <1>2 DEF Unsent
<1>9. Seeing'
  <2> SUFFICES ASSUME NEW c \in clients, alive[c], peer[c] = "connected"
               PROVE  Shown(c)' /\ Greeted(c)'
    BY <1>2 DEF Seeing
  <2>1. Shown(c) /\ Greeted(c) /\ c \in Editor
    BY <1>1 DEF Seeing
  <2>2. CASE main'.at = "hello"
    BY <1>2, <1>3, <1>4, <1>6, <2>1, <2>2 DEF Shown, Greeted
  <2>3. CASE main'.at = "state"
    BY <1>2, <1>3, <1>4, <1>6, <2>1, <2>3 DEF Shown, Greeted
  <2>4. CASE main'.at = "gone"
    <3>1. listener.entities # {} => listener.at \in {"greet", "catchUp"}
      BY <1>1 DEF Unsent, ListenerTypeOK
    <3>2. main'.frame = Gone(e) /\ cache' = cache \ {e} /\ hello' = hello
      BY <1>3, <2>4
    <3>3. Shown(c)'
      BY <1>2, <1>4, <1>6, <2>1, <2>4, <3>1, <3>2 DEF Shown
    <3>4. Greeted(c)'
      BY <1>2, <1>4, <1>6, <2>1, <3>2 DEF Greeted
    <3> QED BY <3>3, <3>4
  <2> QED BY <1>3, <2>2, <2>3, <2>4
<1> QED BY <1>7, <1>8, <1>9 DEF Views

LEMMA ViewsBroadcast ==
    ASSUME Views, Threads', LockClients \/ SendNext
    PROVE  Views'
<1> USE DEF BTypeOK, ClientsTypeOK
<1>1. /\ BTypeOK /\ Sockets /\ Sending /\ Unsent /\ Seeing /\ clients \subseteq Editor
      /\ Greeting /\ Broadcasting /\ MainTypeOK
  BY DEF Views, Threads, LockHeld, LockClients, SendNext
<1>2. UNCHANGED <<clients, sock, peer, listener, cache, hello, overtaken>>
  BY DEF LockClients, SendNext, mainOnly, editorVars, stateVars, historyVars
<1>3. ASSUME NEW to \in SUBSET clients, Sends(to)
      PROVE  /\ Sending'
             /\ \A c \in to : \A f : ToCome(c, f) => ToCome(c, f)'
  <2>1. CASE to # {}
    <3>1. /\ main'.at = main.at /\ main'.frame = main.frame /\ main'.to = to
      BY <1>1, <1>3, <2>1 DEF Sends, MainTypeOK
    <3> QED BY <1>1, <1>2, <1>3, <3>1 DEF Sending, ToCome, Broadcasting
  <2>2. CASE to = {}
    <3>1. main'.at = After(main.at)
      BY <1>1, <1>3, <2>2 DEF Sends, MainTypeOK
    <3>2. (main'.locked = FALSE) /\ main'.at \in {"inbox", "publish"}
      BY <1>1, <1>3, <2>2, <3>1 DEF Sends, MainTypeOK, After
    <3> QED BY <2>2, <3>2 DEF Sending
  <2> QED BY <2>1, <2>2
<1>4. CASE LockClients
  <2>1. UNCHANGED <<alive, shown, greeted>> /\ Sends(clients)
    BY <1>4 DEF LockClients, viewVars
  <2>2. Sending' /\ \A c \in clients : \A f : ToCome(c, f) => ToCome(c, f)'
    BY <1>3, <2>1
  <2>3. Unsent' /\ Seeing'
    BY <1>1, <1>2, <2>1, <2>2 DEF Unsent, Seeing, Shown, Greeted
  <2> QED BY <2>2, <2>3 DEF Views
<1>5. CASE SendNext
  <2>1. PICK c \in main.to : Send(c, main.frame, hello) /\ Sends(main.to \ {c})
    BY <1>5 DEF SendNext
  <2>2. c \in clients /\ c \in Editor /\ sock[c] = "open" /\ main.to \subseteq clients
    BY <1>1, <1>5, <2>1 DEF Sending, Sockets, SendNext
  <2>3. Sending' /\ \A d \in main.to \ {c} : \A f : ToCome(d, f) => ToCome(d, f)'
    <3>1. main.to \ {c} \in SUBSET clients
      BY <2>2
    <3> QED BY <1>3, <2>1, <3>1
  <2>4. \A d \in Editor \ {c} : \A f : ToCome(d, f) => ToCome(d, f)'
    BY <1>5, <2>3 DEF SendNext, ToCome
  <2>5. /\ \A d \in Editor : alive'[d] => alive[d]
        /\ \A d \in Editor \ {c} : shown'[d] = shown[d] /\ greeted'[d] = greeted[d]
    BY <1>1, <2>1, <2>2, SentByOther
  <2>6. Unsent'
    BY <1>1, <1>2, <2>2, <2>5 DEF Unsent, Greeting
  <2>7. Seeing'
    <3> SUFFICES ASSUME NEW d \in clients, alive'[d], peer[d] = "connected"
                 PROVE  Shown(d)' /\ Greeted(d)'
      BY <1>2 DEF Seeing
    <3>1. alive[d] /\ Shown(d) /\ Greeted(d)
      BY <1>1, <2>5 DEF Seeing
    <3>2. CASE d # c
      BY <1>1, <1>2, <2>4, <2>5, <3>1, <3>2 DEF Shown, Greeted
    <3>3. CASE d = c
      <4>1. Seen(c, main.frame, hello)
        BY <1>1, <2>1, <2>2, <3>3, SentIsSeen
      <4>2. \A f : ToCome(c, f) => f = main.frame
        BY DEF ToCome
      <4>3. CASE main.at = "hello"
        <5>1. main.frame = Hello /\ shown'[c] = shown[c] /\ greeted'[c] = hello
          BY <1>1, <2>2, <4>1, <4>3, SeenAfter DEF Sending, Hello
        <5>2. \A e : State(e) # Hello /\ Gone(e) # Hello
          BY DEF Hello, State, Gone
        <5> QED BY <1>2, <3>1, <3>3, <4>2, <5>1, <5>2 DEF Shown, Greeted
      <4>4. CASE main.at = "state"
        <5>1. PICK e \in cache : main.frame = State(e)
          BY <1>1, <4>4 DEF Sending
        <5>2. shown'[c] = shown[c] \cup {e} /\ greeted'[c] = greeted[c]
          BY <1>1, <2>2, <4>1, <5>1, SeenAfter DEF State
        <5>3. \A x : (State(x) = State(e) => x = e) /\ Gone(x) # State(e) /\ Hello # State(e)
          BY DEF Hello, State, Gone
        <5> QED BY <1>2, <3>1, <3>3, <4>2, <5>1, <5>2, <5>3 DEF Shown, Greeted
      <4>5. CASE main.at = "gone"
        <5>1. PICK e \in Entity \ cache : main.frame = Gone(e)
          BY <1>1, <4>5 DEF Sending
        <5>2. shown'[c] = shown[c] \ {e} /\ greeted'[c] = greeted[c]
          BY <1>1, <2>2, <4>1, <5>1, SeenAfter DEF Gone
        <5>3. \A x : (Gone(x) = Gone(e) => x = e) /\ State(x) # Gone(e) /\ Hello # Gone(e)
          BY DEF Hello, State, Gone
        <5> QED BY <1>2, <3>1, <3>3, <4>2, <5>1, <5>2, <5>3 DEF Shown, Greeted
      <4> QED BY <1>1, <4>3, <4>4, <4>5 DEF Broadcasting
    <3> QED BY <3>2, <3>3
  <2> QED BY <2>3, <2>6, <2>7 DEF Views
<1> QED BY <1>4, <1>5

LEMMA ViewsNext == Views /\ [Next]_vars => Views'
<1> SUFFICES ASSUME Views, [Next]_vars PROVE Views'
  OBVIOUS
<1> USE DEF historyVars, clientVars, viewVars, stateVars, editorVars, mainOnly
<1>1. Threads /\ Threads'
  BY ThreadsNext DEF Views
<1>2. /\ BTypeOK /\ Greeting /\ Sockets /\ Joining /\ ClientsTypeOK /\ ListenerTypeOK /\ MainTypeOK
      /\ Unsent /\ (main.locked => Broadcasting) /\ (main'.locked => Broadcasting')
  BY <1>1 DEF Threads, BTypeOK, Views, LockHeld
<1>3. CASE Halt \/ UNCHANGED vars
  <2>1. Unseen
    BY <1>3 DEF Halt, vars, Unseen
  <2> QED BY <1>1, <2>1, NothingSeen
<1>4. ASSUME NEW c \in Editor, Connect(c) \/ Leave(c) \/ Stall(c) \/ Resume(c) PROVE Views'
  <2>1. \A d \in Editor : peer'[d] = "connected" => peer[d] = "connected"
    BY <1>2, <1>4 DEF Connect, Leave, Stall, Resume, BTypeOK, ViewsTypeOK
  <2>2. Unseen
    BY <1>2, <1>4, <2>1 DEF Connect, Leave, Stall, Resume, Unseen, ClientsTypeOK
  <2> QED BY <1>1, <2>2, NothingSeen
<1>5. ASSUME NEW c \in Editor, Reader(c) PROVE Views'
  <2>1. Unseen
    BY <1>2, <1>5 DEF Reader, Test, ReceiveFails, ReceiveAsset, Receive, Dies, Unseen, ClientsTypeOK
  <2> QED BY <1>1, <2>1, NothingSeen
<1>6. CASE EndInbox \/ Pump \/ Stop \/ Reap
  <2>1. main'.at \notin {"hello", "state", "gone"}
    BY <1>2, <1>6 DEF EndInbox, Pump, Stop, Reap, MainTypeOK
  <2>2. Unseen
    BY <1>6, <2>1 DEF EndInbox, Pump, Stop, Reap, Unseen
  <2> QED BY <1>1, <2>2, NothingSeen
<1>7. ASSUME NEW c \in Editor, CloseDead(c) \/ JoinDead(c) \/ JoinReader(c) PROVE Views'
  <2>1. main.at \notin {"hello", "state", "gone"} /\ main'.at \notin {"hello", "state", "gone"}
    BY <1>2, <1>7 DEF CloseDead, JoinDead, JoinReader, MainTypeOK
  <2>2. Unseen
    BY <1>2, <1>7, <2>1 DEF CloseDead, JoinDead, JoinReader, Unseen, ClientsTypeOK
  <2> QED BY <1>1, <2>2, NothingSeen
<1>8. CASE CloseClients
  <2>1. main.at = "stopListener" /\ main'.at = "stopReaders"
    BY <1>2, <1>8 DEF CloseClients, MainTypeOK
  <2>2. Unseen
    BY <1>2, <1>8, <2>1 DEF CloseClients, Closed, Unseen, ClientsTypeOK
  <2> QED BY <1>1, <2>2, NothingSeen
<1>9. ASSUME NEW e \in Entity, Spawn(e) \/ (Despawn(e) /\ ~running) PROVE Views'
  <2>1. Unseen
    BY <1>9 DEF Spawn, Despawn, Unseen
  <2> QED BY <1>1, <2>1, NothingSeen
<1>10. CASE Start
  <2>1. /\ UNCHANGED <<clients, alive, sock, peer, shown, greeted, cache, hello, overtaken>>
        /\ listener.at = "none" /\ listener'.at = "accept" /\ listener'.who = Nobody
        /\ listener'.entities = {} /\ main.at = "inbox" /\ main'.at = "setHello"
    BY <1>2, <1>10 DEF Start, NoListener, Begins, MainTypeOK
  <2>2. listener.who = Nobody /\ \A c, f : ~(ToCome(c, f)') /\ ~ToCome(c, f)
    BY <1>2, <2>1 DEF Greeting, ToCome, Broadcasting
  <2>3. Sending' /\ Unsent'
    BY <1>2, <2>1, <2>2, NobodyAssumption DEF Sending, Unsent, Broadcasting
  <2>4. Seeing'
    <3> SUFFICES ASSUME NEW d \in clients, alive[d], peer[d] = "connected"
                 PROVE  Shown(d)' /\ Greeted(d)'
      BY <2>1 DEF Seeing
    <3>1. Shown(d) /\ Greeted(d) /\ d # Nobody
      BY <1>2, NobodyAssumption DEF Views, Seeing, ClientsTypeOK
    <3> QED BY <2>1, <2>2, <3>1 DEF Shown, Greeted
  <2> QED BY <1>1, <2>3, <2>4 DEF Views
<1>11. CASE Stopped
  <2>1. clients' = {} /\ main'.at = "stopped" /\ UNCHANGED <<listener, sock, shown>>
    BY <1>2, <1>11 DEF Stopped, Joining, MainTypeOK
  <2>2. Sending' /\ Unsent' /\ Seeing'
    BY <1>2, <2>1 DEF Sending, Unsent, Seeing, Broadcasting
  <2> QED BY <1>1, <2>2 DEF Views
<1>12. ASSUME NEW e, SetHello \/ (e \in Entity /\ Publish(e)) \/ (e \in Entity /\ Despawn(e) /\ running)
       PROVE  Views'
  BY <1>1, <1>12, ViewsAnnounce
<1>13. CASE Listener \/ LockClients \/ SendNext
  BY <1>1, <1>13, ViewsListener, ViewsBroadcast
<1> QED BY <1>3, <1>4, <1>5, <1>6, <1>7, <1>8, <1>9, <1>10, <1>11, <1>12, <1>13 DEF Next, Main

\* Between broadcasts an editor that is caught up has been shown what is cached and
\* nothing else, but for what overtook its snapshot (bringClientUpToDate, broadcastFrame).
THEOREM EditorsSeeTheCache == Spec => []EditorsUpToDate
<1>1. Views => EditorsUpToDate
  BY DEF Views, Seeing, Shown, Greeted, ToCome, EditorsUpToDate
<1> QED BY <1>1, ViewsInit, ViewsNext, PTL DEF Spec

-----------------------------------------------------------------------------
(* Uploads *)

LEMMA UploadsInit == Init => UploadsKept
<1> SUFFICES ASSUME Init PROVE UploadsKept
  OBVIOUS
<1> USE RequestAssumption
<1>1. upload = [c \in Editor |-> 0] /\ asked = [k \in Kinds |-> <<>>]
  BY DEF Init
<1>2. "asset" \in Kinds => DOMAIN asked["asset"] = {}
  BY <1>1
<1>3. "asset" \in Kinds => \A c \in Editor : UploadOf(c)
  BY <1>1, <1>2 DEF UploadOf, Turns
<1>4. 0 \in 0 .. ChunkCount + 1
  OBVIOUS
<1> QED BY <1>1, <1>3, <1>4, ThreadsInit DEF UploadsKept

\* A bridge that stopped does not start again, and nobody is received from.
LEMMA StoppedStays ==
    ASSUME Threads, [Next]_vars, main.at = "stopped"
    PROVE  main'.at = "stopped" /\ \A c \in Editor : ~Receiving(c)
<1>1. /\ main.dead = {} /\ ~main.locked /\ \A c \in Editor : ~Receiving(c)
  BY DEF Threads, Joining, Sockets, Receiving, LockHeld, Broadcasting
<1> QED BY <1>1
        DEF Next, Listener, Main, Connect, Leave, Stall, Resume, Accept, AcceptFails, PushClient,
            Snapshot, Greet, CatchUp, StartReader, Reader, Test, ReceiveFails, ReceiveAsset,
            Receive, Start, SetHello, EndInbox, Publish, LockClients, SendNext, Reap, Pump,
            CloseClients, Stopped, CloseDead, JoinDead, JoinReader, Spawn, Despawn, Stop, Halt,
            vars, mainOnly, Broadcasting

\* What is asked of the pump, once one more editor asked.
LEMMA Asking ==
    ASSUME asked \in [Kinds -> Seq(Editor)], "asset" \in Kinds, NEW c \in Editor,
           asked' = [asked EXCEPT !["asset"] = Append(@, c)], NEW d \in Editor
    PROVE  /\ d # c => Turns(d)' = Turns(d)
           /\ d = c /\ Turns(d) = {} => \E i : Turns(d)' = {i}
<1>1. PICK s \in Seq(Editor) : s = asked["asset"]
  OBVIOUS
<1>2. PICK n \in Nat : n = Len(s) /\ DOMAIN s = 1 .. n
  BY <1>1
<1>3. asked'["asset"] = Append(s, c)
  BY <1>1
<1>4. /\ DOMAIN asked'["asset"] = 1 .. n + 1 /\ asked'["asset"][n + 1] = c
      /\ \A i \in 1 .. n : asked'["asset"][i] = s[i]
  BY <1>1, <1>2, <1>3
<1>5. 1 .. (n + 1) = (1 .. n) \cup {n + 1} /\ (n + 1) \notin (1 .. n)
  OBVIOUS
<1>6. Turns(d) = {i \in 1 .. n : s[i] = d}
  BY <1>1, <1>2 DEF Turns
<1>7. PICK t, m, D : t = asked'["asset"] /\ m = n + 1 /\ D = 1 .. n
  OBVIOUS
<1>8. Turns(d)' = {i \in D \cup {m} : t[i] = d}
  BY <1>4, <1>5, <1>7 DEF Turns
<1>9. t[m] = c /\ m \notin D /\ \A i \in D : t[i] = s[i]
  BY <1>4, <1>5, <1>7
<1>10. d # c => Turns(d)' = Turns(d)
  BY <1>6, <1>7, <1>8, <1>9
<1>11. d = c /\ Turns(d) = {} => Turns(d)' = {m}
  BY <1>6, <1>7, <1>8, <1>9
<1> QED BY <1>10, <1>11

\* Steps that ask for nothing that is uploaded leave the uploads as they are.
LEMMA UploadsUntouched ==
    ASSUME UploadsKept, Threads', UNCHANGED <<upload, overlapped>>,
           asked' \in [Kinds -> Seq(Editor)],
           "asset" \in Kinds => asked'["asset"] = asked["asset"],
           main'.at # "stopped" => main.at # "stopped" /\ receiver' = receiver
    PROVE  UploadsKept'
<1>1. "asset" \notin Kinds => \A c \in Editor : upload'[c] = 0
  BY DEF UploadsKept
<1>2. ASSUME "asset" \in Kinds, NEW c \in Editor \ overlapped PROVE UploadOf(c)'
  <2>1. UploadOf(c)
    BY <1>2 DEF UploadsKept
  <2>2. asked'["asset"] = asked["asset"] /\ upload'[c] = upload[c]
    BY <1>2
  <2>3. Turns(c)' = Turns(c)
    BY <2>2 DEF Turns
  <2> QED BY <2>1, <2>2, <2>3 DEF UploadOf
<1>3. upload' \in [Editor -> 0 .. ChunkCount + 1] /\ overlapped' = overlapped
  BY DEF UploadsKept
<1> QED BY <1>1, <1>2, <1>3 DEF UploadsKept

\* The next frame of an upload. Whoever is in the middle of another one has been
\* fallen into now.
LEMMA UploadGoesOn ==
    ASSUME UploadsKept, [Next]_vars, Threads', NEW c \in Editor, ReceiveAsset(c)
    PROVE  UploadsKept'
<1> USE RequestAssumption
<1> DEFINE others == {d \in Editor \ {c} : upload[d] \in 1 .. ChunkCount}
           i == upload[c] - 1
<1>1. /\ "asset" \in Kinds /\ upload[c] <= ChunkCount /\ UNCHANGED main
      /\ upload' = [upload EXCEPT ![c] = @ + 1]
      /\ overlapped' = IF others = {} THEN overlapped ELSE overlapped \cup others \cup {c}
      /\ upload \in [Editor -> 0 .. ChunkCount + 1] /\ asked \in [Kinds -> Seq(Editor)]
      /\ \A d \in Editor \ overlapped : UploadOf(d)
  BY DEF UploadsKept, ReceiveAsset
<1>2. main.at # "stopped"
  BY StoppedStays DEF UploadsKept, ReceiveAsset
<1>3. upload' \in [Editor -> 0 .. ChunkCount + 1] /\ upload'[c] = upload[c] + 1
      /\ \A d \in Editor \ {c} : upload'[d] = upload[d]
  BY <1>1
<1>4. \/ UNCHANGED asked
      \/ asked' = [asked EXCEPT !["asset"] = Append(@, c)]
  BY <1>1 DEF ReceiveAsset, Queue
<1>5. asked' \in [Kinds -> Seq(Editor)]
  <2>1. Append(asked["asset"], c) \in Seq(Editor)
    BY <1>1
  <2> QED BY <1>1, <1>4, <2>1
<1>6. ASSUME NEW d \in Editor \ overlapped', d # c PROVE UploadOf(d)'
  <2>1. d \notin overlapped /\ upload[d] \notin 1 .. ChunkCount /\ UploadOf(d)
    BY <1>1, <1>6
  <2>2. Turns(d)' = Turns(d)
    <3>1. CASE UNCHANGED asked
      BY <3>1 DEF Turns
    <3>2. CASE asked' = [asked EXCEPT !["asset"] = Append(@, c)]
      BY <1>1, <1>6, <3>2, Asking
    <3> QED BY <1>4, <3>1, <3>2
  <2> QED BY <1>3, <1>6, <2>1, <2>2 DEF UploadOf
<1>7. ASSUME c \notin overlapped' PROVE UploadOf(c)'
  <2>1. UploadOf(c) /\ upload[c] \in 0 .. ChunkCount /\ Turns(c) = {}
    BY <1>1, <1>7 DEF UploadOf
  <2>2. CASE upload[c] = 0
    <3>1. receiver' = [begun |-> TRUE, chunks |-> {}] /\ UNCHANGED asked
      BY <2>2 DEF ReceiveAsset
    <3>2. 0 .. upload'[c] - 2 = {} /\ upload'[c] = 1
      BY <1>3, <2>2
    <3> QED BY <2>1, <3>1, <3>2 DEF UploadOf, Turns
  <2>3. CASE upload[c] \in 1 .. ChunkCount
    <3>1. receiver.begun /\ receiver.chunks = 0 .. upload[c] - 2 /\ i \notin receiver.chunks
      BY <1>2, <2>1, <2>3 DEF UploadOf
    <3>2. IF Deposits(i).chunks = Index
          THEN receiver' = NoReceiver /\ Queue(c, "asset")
          ELSE receiver' = Deposits(i) /\ UNCHANGED <<pending, asked>>
      BY <2>3, <3>1 DEF ReceiveAsset
    <3>3. Deposits(i).chunks = 0 .. i /\ Deposits(i).begun
      BY <2>3, <3>1 DEF Deposits
    <3>4. CASE upload[c] = ChunkCount
      <4>1. asked' = [asked EXCEPT !["asset"] = Append(@, c)]
        BY <3>2, <3>3, <3>4 DEF Index, Queue
      <4>2. \E x : Turns(c)' = {x}
        BY <1>1, <2>1, <4>1, Asking
      <4>3. upload'[c] = ChunkCount + 1 /\ ~(ChunkCount + 1 <= ChunkCount)
            /\ ChunkCount + 1 \notin 1 .. ChunkCount
        BY <1>3, <3>4
      <4> QED BY <4>2, <4>3 DEF UploadOf
    <3>5. CASE upload[c] < ChunkCount
      <4>1. Deposits(i).chunks # Index
        <5>1. ChunkCount - 1 \in Index /\ ChunkCount - 1 \notin 0 .. i
          BY <2>3, <3>5 DEF Index
        <5> QED BY <3>3, <5>1
      <4>2. receiver' = Deposits(i) /\ UNCHANGED asked
        BY <3>2, <4>1
      <4> QED BY <1>3, <2>1, <2>3, <3>3, <3>5, <4>2 DEF UploadOf, Turns
    <3> QED BY <2>3, <3>4, <3>5
  <2> QED BY <2>1, <2>2, <2>3
<1> QED BY <1>1, <1>3, <1>5, <1>6, <1>7 DEF UploadsKept

LEMMA UploadsNext == UploadsKept /\ [Next]_vars => UploadsKept'
<1> SUFFICES ASSUME UploadsKept, [Next]_vars PROVE UploadsKept'
  OBVIOUS
<1>1. Threads /\ Threads' /\ asked \in [Kinds -> Seq(Editor)] /\ MainTypeOK
  BY ThreadsNext DEF UploadsKept, Threads, BTypeOK
<1>2. main.at = "stopped" => main'.at = "stopped"
  BY <1>1, StoppedStays
<1>3. CASE UNCHANGED requestVars
  BY <1>1, <1>2, <1>3, UploadsUntouched DEF requestVars, askVars
<1>4. CASE Pump \/ Stopped
  <2>1. main'.at # "stopped" => receiver' = receiver
    BY <1>1, <1>4 DEF Pump, Stopped, MainTypeOK
  <2> QED BY <1>1, <1>2, <1>4, <2>1, UploadsUntouched DEF Pump, Stopped, askVars
<1>5. ASSUME NEW c \in Editor, NEW k \in Kinds, Receive(c, k) PROVE UploadsKept'
  <2>1. asked' = [asked EXCEPT ![k] = Append(@, c)] /\ k # "asset"
        /\ UNCHANGED <<upload, receiver, overlapped>>
    BY <1>5 DEF Receive, Queue
  <2>2. asked' \in [Kinds -> Seq(Editor)] /\ ("asset" \in Kinds => asked'["asset"] = asked["asset"])
    BY <1>1, <2>1
  <2> QED BY <1>1, <1>2, <2>1, <2>2, UploadsUntouched
<1>6. ASSUME NEW c \in Editor, ReceiveAsset(c) PROVE UploadsKept'
  BY <1>1, <1>6, UploadGoesOn
<1> QED BY <1>3, <1>4, <1>5, <1>6
        DEF Next, Listener, Main, Connect, Leave, Stall, Resume, Accept, AcceptFails, PushClient,
            Snapshot, Greet, CatchUp, StartReader, Reader, Test, ReceiveFails,
            Start, SetHello, EndInbox, Publish, LockClients, SendNext, Reap,
            CloseClients, CloseDead, JoinDead, JoinReader, Spawn, Despawn, Stop, Halt,
            vars, mainOnly

\* An upload nobody else sent frames of in the meantime is handed to the server once
\* and whole, whatever its length, and whoever else uploads before and after.
THEOREM LoneUploadsArrive == Spec => []UploadsArrive
<1>1. UploadsKept => UploadsArrive
  <2> SUFFICES ASSUME UploadsKept, NEW c \in Editor,
                      upload[c] = ChunkCount + 1, c \notin overlapped
               PROVE  \E i \in DOMAIN asked["asset"] :
                          \A j \in DOMAIN asked["asset"] : asked["asset"][j] = c <=> j = i
    BY DEF UploadsArrive
  <2>1. "asset" \in Kinds
    BY RequestAssumption DEF UploadsKept
  <2>2. PICK i : Turns(c) = {i}
    BY <2>1 DEF UploadsKept, UploadOf
  <2> QED BY <2>2 DEF Turns
<1> QED BY <1>1, UploadsInit, UploadsNext, PTL DEF Spec
=============================================================================
