---------------------------- MODULE EditorBridge -----------------------------
(****************************************************************************)
(* The bridge between external editors and the lab client (EditorBridge.cpp *)
(* and the bridge pumps of lab/skinned_test/main.cpp): a listener thread    *)
(* that accepts editors and brings them up to date, a reader thread for     *)
(* each, and the main thread, which publishes the replicated entities once  *)
(* a frame, forwards what the readers queued, reaps dead clients and stops  *)
(* the bridge.                                                              *)
(*                                                                          *)
(* A step is what happens under one mutex, or one frame sent. TCP delivers  *)
(* in order, so a frame counts as seen by the editor once sent; an editor   *)
(* that does not read stalls the sender when the socket buffer is full, and *)
(* may leave at any time. Closing a socket releases who is blocked in it    *)
(* (the bridge builds on Windows only). setServerState has no caller; the   *)
(* state travels with the Hello here. An entity's pose is left out: it is   *)
(* published again every frame. Bounds: every editor connects once, every   *)
(* entity spawns once; MaxRequests.                                         *)
(****************************************************************************)
EXTENDS Naturals, Sequences, FiniteSets

CONSTANTS
    Editor, Entity,
    Nobody,
    Kind,         \* kinds of request an editor sends, in the order of the pumps
    MaxRequests,  \* of one editor, uploads apart
    ChunkCount    \* chunks of the asset every editor may upload once

ASSUME RequestAssumption ==
    /\ Kind \in Seq(STRING)
    /\ MaxRequests \in Nat /\ ChunkCount \in Nat \ {0}
ASSUME NobodyAssumption == Nobody \notin Editor \cup Entity

Kinds == {Kind[i] : i \in 1 .. Len(Kind)}
Index == 0 .. ChunkCount - 1

VARIABLES
    \* the editor's end
    peer,      \* "away", "waiting" in the backlog, "connected", "left"
    stalled,   \* does not read, and its buffer is full
    requests,  \* made so far
    upload,    \* frames of its upload sent: the Announce, then the chunks in order
    shown,     \* entities it was told of and not told gone
    greeted,   \* the Hello it had last
    \* EditorBridge
    running, listening,
    clients,   \* m_clients
    alive, sock,   \* of each Client
    reader,    \* of each Client: none, testing, receiving, over, joined
    cache,     \* m_entityCache
    hello,     \* m_hello*
    pending,   \* m_pendingMoves and its siblings: who asked
    receiver,  \* m_assetReceivers: for the asset, whether it is there, its chunks
    \* threads
    listener,  \* at, who, hello and entities still to send
    main,      \* at, what it broadcasts and to whom, entities to publish,
               \* clients to join, pump
    entities,  \* m_netEntities
    arrivals,  \* entities that have not spawned yet
    \* history
    asked,     \* requests the readers queued, per kind
    overtaken, \* what was broadcast to an editor while it was brought up to date
    reapedEarly, \* clients reaped before they had a reader
    overlapped \* editors that had a frame of another one's upload within their own

editorVars  == <<peer, stalled>>
askVars     == <<requests, upload>>
viewVars    == <<shown, greeted>>
clientVars  == <<alive, sock, reader>>
stateVars   == <<cache, hello>>
worldVars   == <<entities, arrivals>>
requestVars == <<askVars, pending, receiver, asked, overlapped>>
historyVars == <<overtaken, reapedEarly>>
vars == <<editorVars, viewVars, running, listening, clients, clientVars, stateVars,
          listener, main, worldVars, requestVars, historyVars>>

\* Frames to the editors.
Hello    == [type |-> "Hello", entity |-> Nobody]
State(e) == [type |-> "EntityState", entity |-> e]
Gone(e)  == [type |-> "EntityGone", entity |-> e]

NoReceiver == [begun |-> FALSE, chunks |-> {}]

NoListener == [at |-> "none", who |-> Nobody, hello |-> "unset", entities |-> {}]

Init ==
    /\ peer    = [c \in Editor |-> "away"]
    /\ stalled = [c \in Editor |-> FALSE]
    /\ shown   = [c \in Editor |-> {}]
    /\ greeted = [c \in Editor |-> "none"]
    /\ running = FALSE /\ listening = FALSE
    /\ clients = {}
    /\ alive  = [c \in Editor |-> TRUE]
    /\ sock   = [c \in Editor |-> "none"]
    /\ reader = [c \in Editor |-> "none"]
    /\ cache = {} /\ hello = "unset"
    /\ requests = [c \in Editor |-> 0]
    /\ upload   = [c \in Editor |-> 0]
    /\ receiver = NoReceiver
    /\ pending = [k \in Kinds |-> <<>>]
    /\ listener = NoListener
    /\ main = [at |-> "inbox", frame |-> Hello, locked |-> FALSE, to |-> {},
               entities |-> {}, dead |-> {}, pump |-> 1]
    /\ entities = {} /\ arrivals = Entity
    /\ asked = [k \in Kinds |-> <<>>]
    /\ overtaken = [c \in Editor |-> {}]
    /\ reapedEarly = {}
    /\ overlapped = {}

-----------------------------------------------------------------------------
(* Sending *)

\* m_clientsMu is the main thread's while it sends a broadcast.
Broadcasting == main.at \in {"hello", "state", "gone"}

\* What the editor makes of a frame with Hello h.
Seen(c, f, h) ==
    /\ shown' = [shown EXCEPT ![c] = CASE f.type = "EntityState" -> @ \cup {f.entity}
                                       [] f.type = "EntityGone"  -> @ \ {f.entity}
                                       [] OTHER -> @]
    /\ greeted' = IF f.type = "Hello" THEN [greeted EXCEPT ![c] = h] ELSE greeted

\* sendToClient: nothing to a client that is dead or closed; blocked while the
\* editor does not read; an editor that left may or may not be noticed.
Send(c, f, h) ==
    \/ /\ ~alive[c] \/ sock[c] = "closed"
       /\ UNCHANGED <<viewVars, alive>>
    \/ /\ alive[c] /\ sock[c] = "open"
       /\ peer[c] = "connected" /\ ~stalled[c]
       /\ Seen(c, f, h)
       /\ UNCHANGED alive
    \/ /\ alive[c] /\ sock[c] = "open"
       /\ peer[c] = "left"
       /\ alive' \in {alive, [alive EXCEPT ![c] = FALSE]}
       /\ UNCHANGED viewVars

-----------------------------------------------------------------------------
(* Editors *)

Connect(c) ==
    /\ peer[c] = "away" /\ listening
    /\ peer' = [peer EXCEPT ![c] = "waiting"]
    /\ UNCHANGED <<stalled, viewVars, running, listening, clients, clientVars, stateVars,
                   listener, main, worldVars, requestVars, historyVars>>

Leave(c) ==
    /\ peer[c] \in {"waiting", "connected"}
    /\ peer' = [peer EXCEPT ![c] = "left"]
    /\ stalled' = [stalled EXCEPT ![c] = FALSE]
    /\ UNCHANGED <<viewVars, running, listening, clients, clientVars, stateVars,
                   listener, main, worldVars, requestVars, historyVars>>

Stall(c) ==
    /\ peer[c] = "connected" /\ ~stalled[c]
    /\ stalled' = [stalled EXCEPT ![c] = TRUE]
    /\ UNCHANGED <<peer, viewVars, running, listening, clients, clientVars, stateVars,
                   listener, main, worldVars, requestVars, historyVars>>

Resume(c) ==
    /\ stalled[c]
    /\ stalled' = [stalled EXCEPT ![c] = FALSE]
    /\ UNCHANGED <<peer, viewVars, running, listening, clients, clientVars, stateVars,
                   listener, main, worldVars, requestVars, historyVars>>

-----------------------------------------------------------------------------
(* Listener thread *)

\* accept(): the editor may have left the backlog already.
Accept(c) ==
    /\ listener.at = "accept" /\ listening
    /\ sock[c] = "none" /\ peer[c] \in {"waiting", "left"}
    /\ peer' = [peer EXCEPT ![c] = IF @ = "waiting" THEN "connected" ELSE @]
    /\ sock' = [sock EXCEPT ![c] = "open"]
    /\ listener' = [listener EXCEPT !.at = "push", !.who = c]
    /\ UNCHANGED <<stalled, viewVars, running, listening, clients, alive, reader, stateVars,
                   main, worldVars, requestVars, historyVars>>

AcceptFails ==
    /\ listener.at = "accept" /\ ~listening
    /\ listener' = [listener EXCEPT !.at = "over"]
    /\ UNCHANGED <<editorVars, viewVars, running, listening, clients, clientVars, stateVars,
                   main, worldVars, requestVars, historyVars>>

PushClient ==
    /\ listener.at = "push" /\ ~main.locked
    /\ clients' = clients \cup {listener.who}
    /\ listener' = [listener EXCEPT !.at = "snapshot"]
    /\ UNCHANGED <<editorVars, viewVars, running, listening, clientVars, stateVars,
                   main, worldVars, requestVars, historyVars>>

\* bringClientUpToDate, under m_stateMu
Snapshot ==
    /\ listener.at = "snapshot"
    /\ listener' = [listener EXCEPT !.at = "greet", !.hello = hello, !.entities = cache]
    /\ UNCHANGED <<editorVars, viewVars, running, listening, clients, clientVars, stateVars,
                   main, worldVars, requestVars, historyVars>>

\* The Hello, then every entity, in the order of the hash map.
Greet ==
    /\ listener.at = "greet"
    /\ Send(listener.who, Hello, listener.hello)
    /\ listener' = [listener EXCEPT !.at = "catchUp"]
    /\ UNCHANGED <<editorVars, running, listening, clients, sock, reader, stateVars,
                   main, worldVars, requestVars, historyVars>>

CatchUp ==
    /\ listener.at = "catchUp"
    /\ \E e \in listener.entities :
          /\ Send(listener.who, State(e), listener.hello)
          /\ listener' = [listener EXCEPT !.entities = @ \ {e}]
    /\ UNCHANGED <<editorVars, running, listening, clients, sock, reader, stateVars,
                   main, worldVars, requestVars, historyVars>>

\* The reader starts, the listener lets go of the client and goes back to accept.
StartReader ==
    /\ listener.at = "catchUp" /\ listener.entities = {}
    /\ reader' = [reader EXCEPT ![listener.who] = "testing"]
    /\ listener' = [NoListener EXCEPT !.at = IF running THEN "accept" ELSE "over"]
    /\ UNCHANGED <<editorVars, viewVars, running, listening, clients, alive, sock, stateVars,
                   main, worldVars, requestVars, historyVars>>

Listener == \/ \E c \in Editor : Accept(c)
            \/ AcceptFails \/ PushClient \/ Snapshot \/ Greet \/ CatchUp \/ StartReader

-----------------------------------------------------------------------------
(* Reader threads *)

\* The loop goes on in recv, or ends.
Test(c) ==
    /\ reader[c] = "testing"
    /\ \/ /\ running /\ alive[c]
          /\ reader' = [reader EXCEPT ![c] = "receiving"]
          /\ UNCHANGED alive
       \/ /\ ~(running /\ alive[c])
          /\ reader' = [reader EXCEPT ![c] = "over"]
          /\ alive' = [alive EXCEPT ![c] = FALSE]
    /\ UNCHANGED <<editorVars, viewVars, running, listening, clients, sock, stateVars,
                   listener, main, worldVars, requestVars, historyVars>>

Receiving(c) == reader[c] = "receiving" /\ sock[c] = "open" /\ peer[c] = "connected"

Queue(c, k) ==
    /\ pending' = [pending EXCEPT ![k] = Append(@, c)]
    /\ asked' = [asked EXCEPT ![k] = Append(@, c)]

\* A request is queued for the pump of its kind.
Receive(c, k) ==
    /\ Receiving(c) /\ k # "asset"
    /\ requests[c] < MaxRequests
    /\ requests' = [requests EXCEPT ![c] = @ + 1]
    /\ Queue(c, k)
    /\ reader' = [reader EXCEPT ![c] = "testing"]
    /\ UNCHANGED <<editorVars, viewVars, running, listening, clients, alive, sock, stateVars,
                   listener, main, worldVars, upload, receiver, overlapped, historyVars>>

\* Mutant: a chunk is looked for where the next one belongs.
DepositsNext(i) == [begun |-> TRUE, chunks |-> receiver.chunks \cup {i + 1}]
Deposits(i) == [begun |-> TRUE, chunks |-> receiver.chunks \cup {i}]

\* The next frame of an upload. A chunk without a receiver is dropped, one
\* that was had already is refused and takes the receiver with it; the editors
\* share the receiver of the hash.
ReceiveAsset(c) ==
    LET i == upload[c] - 1
        others == {d \in Editor \ {c} : upload[d] \in 1 .. ChunkCount}
    IN
    /\ Receiving(c) /\ "asset" \in Kinds
    /\ upload[c] <= ChunkCount
    /\ upload' = [upload EXCEPT ![c] = @ + 1]
    /\ \/ /\ upload[c] = 0
          /\ receiver' = [begun |-> TRUE, chunks |-> {}]
          /\ UNCHANGED <<pending, asked>>
       \/ /\ upload[c] > 0
          /\ ~receiver.begun \/ i \in receiver.chunks
          /\ receiver' = NoReceiver
          /\ UNCHANGED <<pending, asked>>
       \/ /\ upload[c] > 0
          /\ receiver.begun /\ i \notin receiver.chunks
          /\ IF Deposits(i).chunks = Index
             THEN receiver' = NoReceiver /\ Queue(c, "asset")
             ELSE receiver' = Deposits(i) /\ UNCHANGED <<pending, asked>>
    /\ overlapped' = IF others = {} THEN overlapped ELSE overlapped \cup others \cup {c}
    /\ reader' = [reader EXCEPT ![c] = "testing"]
    /\ UNCHANGED <<editorVars, viewVars, running, listening, clients, alive, sock, stateVars,
                   listener, main, worldVars, requests, historyVars>>

\* Mutant: the reader ends and tells nobody.
LivesOn(c) == alive
Dies(c) == [alive EXCEPT ![c] = FALSE]

\* recv fails: the editor left, or this end was closed.
ReceiveFails(c) ==
    /\ reader[c] = "receiving"
    /\ peer[c] = "left" \/ sock[c] = "closed"
    /\ reader' = [reader EXCEPT ![c] = "over"]
    /\ alive' = Dies(c)
    /\ UNCHANGED <<editorVars, viewVars, running, listening, clients, sock, stateVars,
                   listener, main, worldVars, requestVars, historyVars>>

Reader(c) == \/ Test(c) \/ ReceiveFails(c) \/ ReceiveAsset(c)
             \/ \E k \in Kinds : Receive(c, k)

-----------------------------------------------------------------------------
(* Main thread *)

mainOnly == <<editorVars, running, listening, sock, reader, listener, requestVars>>

\* What a broadcast is about is written under m_stateMu before.
Announce(at, f) ==
    /\ main' = [main EXCEPT !.at = at, !.frame = f]
    /\ overtaken' = [c \in Editor |->
          IF listener.who = c /\ listener.at \in {"greet", "catchUp"}
          THEN overtaken[c] \cup {f} ELSE overtaken[c]]

\* Where the main thread goes on after a broadcast.
After(at) == IF at = "gone" THEN "inbox" ELSE "publish"

\* The main thread still has these clients to send to; the broadcast is over
\* when there is none.
Sends(to) ==
    main' = IF to # {} THEN [main EXCEPT !.locked = TRUE, !.to = to]
            ELSE [main EXCEPT !.at = After(@), !.frame = Hello, !.locked = FALSE, !.to = {}]

\* broadcastFrame
LockClients ==
    /\ Broadcasting /\ ~main.locked
    /\ Sends(clients)
    /\ UNCHANGED <<mainOnly, viewVars, clients, alive, stateVars, worldVars, historyVars>>

SendNext ==
    /\ main.locked
    /\ \E c \in main.to :
          /\ Send(c, main.frame, hello)
          /\ Sends(main.to \ {c})
    /\ UNCHANGED <<mainOnly, clients, stateVars, worldVars, historyVars>>

\* Mutant: the listener tests m_running before start() sets it.
BeginsEarly == "over"
Begins == "accept"

\* maybeStartEditorBridge, after the Welcome and the drains of the frame
Start ==
    /\ main.at = "inbox" /\ ~running /\ listener.at = "none"
    /\ running' = TRUE /\ listening' = TRUE
    /\ listener' = [NoListener EXCEPT !.at = Begins]
    /\ main' = [main EXCEPT !.at = "setHello", !.entities = entities]
    /\ UNCHANGED <<editorVars, viewVars, clients, clientVars, stateVars, worldVars,
                   requestVars, historyVars>>

SetHello ==
    /\ main.at = "setHello"
    /\ hello' = "set"
    /\ Announce("hello", Hello)
    /\ UNCHANGED <<mainOnly, viewVars, clients, alive, cache, worldVars, reapedEarly>>

\* drainNetReliableInbox: the map of entities is Replication's.
Spawn(e) ==
    /\ main.at = "inbox" /\ e \in arrivals
    /\ arrivals' = arrivals \ {e}
    /\ entities' = entities \cup {e}
    /\ UNCHANGED <<mainOnly, viewVars, clients, alive, stateVars, main, historyVars>>

\* A Despawn while the bridge runs: pushEntityGone, then the map.
\* Mutant: the cache keeps it.
UncacheNot(e) == cache
Uncache(e) == cache \ {e}
Despawn(e) ==
    /\ main.at = "inbox" /\ e \in entities
    /\ entities' = entities \ {e}
    /\ IF running
       THEN cache' = Uncache(e) /\ Announce("gone", Gone(e))
       ELSE UNCHANGED <<cache, main, overtaken>>
    /\ UNCHANGED <<mainOnly, viewVars, clients, alive, hello, arrivals, reapedEarly>>

\* The frame publishes every entity it knows.
EndInbox ==
    /\ main.at = "inbox" /\ running
    /\ main' = [main EXCEPT !.at = "publish", !.entities = entities]
    /\ UNCHANGED <<mainOnly, viewVars, clients, alive, stateVars, worldVars, historyVars>>

Publish(e) ==
    /\ main.at = "publish" /\ e \in main.entities
    /\ cache' = cache \cup {e}
    /\ main' = [main EXCEPT !.at = "state", !.frame = State(e), !.entities = @ \ {e}]
    /\ UNCHANGED <<mainOnly, viewVars, clients, alive, hello, worldVars, historyVars>>

\* drainMoves begins with reapDeadClients.
Reap ==
    /\ main.at = "publish" /\ main.entities = {}
    /\ LET dead == {c \in clients : ~alive[c]} IN
       /\ clients' = clients \ dead
       /\ main' = [main EXCEPT !.at = IF dead = {} THEN "pump" ELSE "join", !.dead = dead]
       /\ reapedEarly' = reapedEarly \cup {c \in dead : reader[c] = "none"}
    /\ UNCHANGED <<mainOnly, viewVars, alive, stateVars, worldVars, overtaken>>

\* The socket of a dead client is closed, then its reader joined; a client
\* without a reader is let go.
CloseDead(c) ==
    /\ main.at = "join" /\ c \in main.dead /\ sock[c] = "open"
    /\ sock' = [sock EXCEPT ![c] = "closed"]
    /\ UNCHANGED <<editorVars, viewVars, running, listening, clients, alive, reader, stateVars,
                   listener, main, worldVars, requestVars, historyVars>>

\* Mutant: the reader is left to end by itself.
JoinsNone(c) == FALSE
Joins(c) == reader[c] = "over"
JoinDead(c) ==
    /\ main.at = "join" /\ c \in main.dead /\ sock[c] = "closed"
    /\ reader[c] \in {"none", "over"}
    /\ reader' = IF Joins(c) THEN [reader EXCEPT ![c] = "joined"] ELSE reader
    /\ main' = [main EXCEPT !.dead = @ \ {c}, !.at = IF main.dead = {c} THEN "pump" ELSE @]
    /\ UNCHANGED <<editorVars, viewVars, running, listening, clients, alive, sock, stateVars,
                   listener, worldVars, requestVars, historyVars>>

\* drainMoves, drainParentChanges, ... with the pump around each, which sends
\* what it drained to the server.
Pump ==
    /\ main.at = "pump"
    /\ pending' = [pending EXCEPT ![Kind[main.pump]] = <<>>]
    /\ main' = IF main.pump < Len(Kind) THEN [main EXCEPT !.pump = @ + 1]
               ELSE [main EXCEPT !.at = "inbox", !.pump = 1]
    /\ UNCHANGED <<editorVars, viewVars, running, listening, clients, clientVars, stateVars,
                   listener, worldVars, askVars, receiver, asked, overlapped, historyVars>>

\* stop(): the listen socket first, and the listener.
Stop ==
    /\ main.at = "inbox" /\ running
    /\ running' = FALSE /\ listening' = FALSE
    /\ main' = [main EXCEPT !.at = "stopListener"]
    /\ UNCHANGED <<editorVars, viewVars, clients, clientVars, stateVars, listener, worldVars,
                   requestVars, historyVars>>

\* Mutant: stop() leaves the sockets to the readers.
ClosedByNobody == sock
Closed == [c \in Editor |-> IF c \in clients THEN "closed" ELSE sock[c]]

\* Then the sockets of the clients.
CloseClients ==
    /\ main.at = "stopListener" /\ listener.at = "over"
    /\ sock' = Closed
    /\ alive' = [c \in Editor |-> c \notin clients /\ alive[c]]
    /\ main' = [main EXCEPT !.at = "stopReaders", !.dead = clients]
    /\ clients' = {}
    /\ UNCHANGED <<editorVars, viewVars, running, listening, reader, stateVars, listener,
                   worldVars, requestVars, historyVars>>

JoinReader(c) ==
    /\ main.at = "stopReaders" /\ c \in main.dead /\ reader[c] = "over"
    /\ reader' = [reader EXCEPT ![c] = "joined"]
    /\ main' = [main EXCEPT !.dead = @ \ {c}]
    /\ UNCHANGED <<editorVars, viewVars, running, listening, clients, alive, sock, stateVars,
                   listener, worldVars, requestVars, historyVars>>

Stopped ==
    /\ main.at = "stopReaders" /\ main.dead = {}
    /\ cache' = {} /\ pending' = [k \in Kinds |-> <<>>] /\ receiver' = NoReceiver
    /\ main' = [main EXCEPT !.at = "stopped"]
    /\ UNCHANGED <<editorVars, viewVars, running, listening, clients, clientVars, hello,
                   listener, worldVars, askVars, asked, overlapped, historyVars>>

\* Nothing is left to do.
Halt == main.at = "stopped" /\ UNCHANGED vars

Main == \/ Start \/ SetHello \/ EndInbox \/ (\E e \in Entity : Publish(e))
        \/ LockClients \/ SendNext
        \/ Reap \/ Pump
        \/ CloseClients \/ Stopped
        \/ \E c \in Editor : CloseDead(c) \/ JoinDead(c) \/ JoinReader(c)

Next ==
    \/ \E c \in Editor : Connect(c) \/ Leave(c) \/ Stall(c) \/ Resume(c)
    \/ Listener
    \/ \E c \in Editor : Reader(c)
    \/ Main
    \/ \E e \in Entity : Spawn(e) \/ Despawn(e)
    \/ Stop \/ Halt

\* The three kinds of thread are scheduled. A send that waits for buffer space
\* goes on when there is some, and an editor that stopped reading reads again
\* or leaves.
Fairness ==
    /\ SF_vars(Listener) /\ SF_vars(Main)
    /\ \A c \in Editor : WF_vars(Test(c) \/ ReceiveFails(c)) /\ WF_vars(Resume(c))

Spec == Init /\ [][Next]_vars /\ Fairness

-----------------------------------------------------------------------------
(* Properties *)

\* Whenever no broadcast is under way, an editor that is connected and caught
\* up has been shown what the bridge has cached, entity by entity, and has the
\* current Hello. Excepted is what was broadcast to it between the snapshot
\* the listener took for it and the last frame of it.
EditorsUpToDate ==
    \A c \in clients :
        alive[c] /\ peer[c] = "connected" /\ listener.who # c /\ ~Broadcasting =>
            /\ cache \subseteq shown[c]
            /\ \A e \in shown[c] \ cache : Gone(e) \in overtaken[c]
            /\ greeted[c] = hello \/ Hello \in overtaken[c]

\* A Client is destroyed with its reader joined, or never started: destroying
\* a joinable std::thread ends the process. Excepted is a client that was
\* reaped while the listener was still bringing it up to date.
Destroyed(c) ==
    /\ sock[c] # "none"
    /\ c \notin clients \cup main.dead \cup {listener.who}
    /\ reader[c] \in {"none", "over", "joined"}
ReadersAreJoined ==
    \A c \in Editor : Destroyed(c) => reader[c] = "joined" \/ c \in reapedEarly

\* An upload that no frame of another editor's upload of the same asset fell
\* into is handed on once, whole.
UploadsArrive ==
    \A c \in Editor : upload[c] = ChunkCount + 1 /\ c \notin overlapped =>
        \E i \in DOMAIN asked["asset"] :
            \A j \in DOMAIN asked["asset"] : asked["asset"][j] = c <=> j = i

\* stop() comes back, if editors that do not read do so again some day.
StopReturns == main.at = "stopListener" ~> main.at = "stopped"

\* An editor in the backlog is greeted, unless the bridge stops, and the client
\* of an editor that left goes from the vector (EditorBridge.cpp 628-684,
\* 596-624).
EditorsAreServed ==
    \A c \in Editor :
        /\ peer[c] = "waiting" ~> greeted[c] # "none" \/ peer[c] = "left" \/ ~running
        /\ peer[c] = "left" /\ c \in clients ~> c \notin clients
=============================================================================
