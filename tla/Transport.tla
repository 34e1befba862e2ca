----------------------------- MODULE Transport ------------------------------
(****************************************************************************)
(* One process on top of MsQuic (MsQuicTransport.cpp), from Transport::start *)
(* to Transport::stop: the dedicated server, with a listener and one        *)
(* connection for each client, or the lab client with one connection.       *)
(*                                                                          *)
(* The main thread starts, accepts or connects, sends, reaps and stops. For *)
(* each connection there is a worker of MsQuic that runs one callback at a  *)
(* time; a step is what happens under Connection::Impl::mu or between two   *)
(* calls of MsQuic. MsQuic itself is external: its events come in any order *)
(* it documents, ConnectionClose waits for the running callback, ends every *)
(* stream and send, and runs in place when a callback calls it, and         *)
(* RegistrationClose waits for the handles that are open.                   *)
(*                                                                          *)
(* In which order the server's loop accepts, sends and reaps is left open   *)
(* (CollabServer has it). Timeouts may expire at any time. Bounds: every    *)
(* connection is made once, every message arrives once on a connection in   *)
(* SegmentCount segments, and a Send is made once.                          *)
(****************************************************************************)
EXTENDS Naturals, Sequences, FiniteSets

CONSTANTS
    Conn,
    Message, Datagram,   \* what the peer sends: reliable messages, datagrams
    Send,                \* what is sent to the peers
    SegmentCount,        \* segments of a reliable message
    Nothing              \* no connection, no message, no send

ASSUME ConnAssumption == Conn # {} /\ SegmentCount \in Nat \ {0}
ASSUME NothingAssumption == Nothing \notin Conn \cup Message \cup Datagram \cup Send
ASSUME PeerAssumption == Message \cap Datagram = {}

VARIABLES
    role,       \* "server" or "client"
    running,    \* g_running
    held,       \* what Transport::start has acquired
    main,       \* the main thread: at, conn, send, and where it goes on
    listening,  \* the listener has a handle
    accepted,   \* Listener::Impl::accepted
    \* Connection::Impl
    owner,      \* of the Impl: nobody yet, the queue, the application, freed
    handle,     \* its HQUIC: "none", "open", "closing", "closed"
    stats, handlers,
    stream,     \* receiveStreams, with what is in the buffer
    \* ClientState
    clients,    \* in the vector (the client's m_netConn)
    dead,
    \* MsQuic
    link,       \* "new", "up", "ending" (announced), "down"
    worker,     \* the callback of a connection that runs: at, what, buffer
    holder,     \* the payload of a Send: at, conn, kind
    \* history
    met,        \* messages whose end found a handler
    handed,     \* what the handlers were given, in order
    freed,      \* how often a holder was deleted
    misuse      \* connections whose Impl was used after it was freed

connVars   == <<owner, handle, stats, handlers, stream>>
appVars    == <<clients, dead>>
setupVars  == <<held, listening>>
vars == <<role, running, setupVars, main, accepted, connVars, appVars, link, worker,
          holder, met, handed, freed, misuse>>

Kind    == {"reliable", "datagram"}
Idle    == [at |-> "idle", what |-> Nothing, got |-> 0]
Unused  == [at |-> "unused", conn |-> Nothing, kind |-> "reliable"]
At(place) == [at |-> place, conn |-> Nothing, send |-> Nothing, next |-> "done"]

\* What Transport::start acquires, in order. Only a server has a certificate.
Resources == IF role = "server"
             THEN <<"api", "registration", "cert", "serverConfig", "clientConfig">>
             ELSE <<"api", "registration", "clientConfig">>

Init ==
    /\ role \in {"server", "client"} /\ running = TRUE
    /\ held = {} /\ main = At("start") /\ listening = FALSE /\ accepted = <<>>
    /\ owner = [c \in Conn |-> "nobody"] /\ handle = [c \in Conn |-> "none"]
    /\ stats = [c \in Conn |-> {}] /\ handlers = [c \in Conn |-> {}]
    /\ stream = [c \in Conn |-> [m \in Message |-> [at |-> "none", got |-> 0]]]
    /\ clients = {} /\ dead = {}
    /\ link = [c \in Conn |-> "new"] /\ worker = [c \in Conn |-> Idle]
    /\ holder = [s \in Send |-> Unused]
    /\ met = [c \in Conn |-> {}] /\ handed = [c \in Conn |-> <<>>]
    /\ freed = [s \in Send |-> 0] /\ misuse = {}

-----------------------------------------------------------------------------
(* The main thread. *)

mainOnly == UNCHANGED <<role, link, worker, met, handed, misuse>>

\* Transport::start, one resource after the other. A configuration whose
\* credential does not load is open when stop() runs.
Acquire ==
    /\ main.at = "start"
    /\ LET next == Resources[Cardinality(held) + 1] IN
       \/ /\ held' = held \cup {next}
          /\ main' = IF Cardinality(held') < Len(Resources) THEN main
                     ELSE At(IF role = "server" THEN "listen" ELSE "connect")
       \/ /\ held' \in {held, held \cup ({next} \cap {"serverConfig", "clientConfig"})}
          /\ main' = At("stop")
    /\ mainOnly
    /\ UNCHANGED <<running, listening, accepted, connVars, appVars, holder, freed>>

StartListener ==
    /\ main.at = "listen"
    /\ \/ listening' = TRUE  /\ main' = At("loop")
       \/ listening' = FALSE /\ main' = At("stop")
    /\ mainOnly
    /\ UNCHANGED <<running, held, accepted, connVars, appVars, holder, freed>>

\* Transport::connect. When ConnectionStart fails the handle is closed again.
Connect ==
    /\ main.at = "connect"
    /\ \E c \in Conn :
       \/ /\ owner' = [owner EXCEPT ![c] = "app"] /\ handle' = [handle EXCEPT ![c] = "open"]
          /\ clients' = {c} /\ main' = [At("install") EXCEPT !.conn = c]
       \/ main' = At("stop") /\ UNCHANGED <<owner, handle, clients>>
    /\ mainOnly
    /\ UNCHANGED <<running, setupVars, accepted, stats, handlers, stream, dead, holder, freed>>

\* Listener::acceptOne has a connection.
AcceptOne ==
    /\ main.at = "loop" /\ running /\ accepted # <<>>
    /\ LET c == Head(accepted) IN
       /\ owner' = [owner EXCEPT ![c] = "app"]
       /\ main' = [At("install") EXCEPT !.conn = c]
    /\ accepted' = Tail(accepted)
    /\ mainOnly
    /\ UNCHANGED <<running, setupVars, handle, stats, handlers, stream, appVars, holder, freed>>

\* setDatagramHandler, then setReliableMessageHandler; the server has no
\* datagrams to receive. The client then waits to be connected.
Install ==
    /\ main.at = "install"
    /\ LET c == main.conn
           k == IF role = "client" /\ "datagram" \notin handlers[c]
                THEN "datagram" ELSE "reliable" IN
       /\ handlers' = [handlers EXCEPT ![c] = @ \cup {k}]
       /\ IF k = "datagram" THEN UNCHANGED <<main, clients>>
          ELSE main' = At("loop") /\ clients' = clients \cup {c}
    /\ mainOnly
    /\ UNCHANGED <<running, setupVars, accepted, owner, handle, stats, stream, dead,
                   holder, freed>>

\* sendReliableMessage and sendDatagram: the gate, and the holder.
MaySend(c) == "connected" \in stats[c] /\ "shutdownStarted" \notin stats[c]

BeginSend(c, s, k) ==
    /\ main.at = "loop" /\ running /\ c \in clients \ dead
    /\ MaySend(c) /\ holder[s].at = "unused"
    /\ holder' = [holder EXCEPT ![s] = [at |-> "caller", conn |-> c, kind |-> k]]
    /\ main' = [At("send") EXCEPT !.send = s]
    /\ mainOnly
    /\ UNCHANGED <<running, setupVars, accepted, connVars, appVars, freed>>

Deletes(s) == /\ holder' = [holder EXCEPT ![s].at = "freed"]
              /\ freed' = [freed EXCEPT ![s] = @ + 1]

\* The caller deletes the holder of a call MsQuic refused, ...
Refused(s) == Deletes(s)
\* ... but not when StreamSend fails: the stream is aborted, and its end does.
SendFails(s)         == holder' = [holder EXCEPT ![s].at = "msquic"] /\ UNCHANGED freed
SendFailsDeletes(s)  == /\ holder' = [holder EXCEPT ![s].at = "msquic"]
                        /\ freed' = [freed EXCEPT ![s] = @ + 1]
Abort(s) == SendFails(s)

\* DatagramSend, or the next of StreamOpen, StreamStart and StreamSend.
SendStep ==
    /\ main.at = "send"
    /\ LET s == main.send IN
       \/ /\ holder[s].at \in {"caller", "opened"}
          /\ Refused(s) /\ main' = At("loop")
       \/ /\ holder[s].at = "caller" /\ holder[s].kind = "datagram"
          /\ holder' = [holder EXCEPT ![s].at = "msquic"] /\ main' = At("loop")
          /\ UNCHANGED freed
       \/ /\ holder[s].at \in {"caller", "opened"} /\ holder[s].kind = "reliable"
          /\ holder' = [holder EXCEPT ![s].at = IF @ = "caller" THEN "opened" ELSE "started"]
          /\ UNCHANGED <<main, freed>>
       \/ /\ holder[s].at = "started" /\ main' = At("loop")
          /\ \/ holder' = [holder EXCEPT ![s].at = "msquic"] /\ UNCHANGED freed
             \/ Abort(s)
       \* The stream ended meanwhile, and the holder with it.
       \/ /\ holder[s].at = "freed" /\ main' = At("loop") /\ UNCHANGED <<holder, freed>>
    /\ mainOnly
    /\ UNCHANGED <<running, setupVars, accepted, connVars, appVars>>

\* The server's reap: the client is marked dead, its handler cleared, ...
Reap(c) ==
    /\ main.at = "loop" /\ role = "server" /\ running
    /\ c \in clients /\ stats[c] \cap {"shutdownStarted", "shutdownComplete"} # {}
    /\ dead' = dead \cup {c}
    /\ handlers' = [handlers EXCEPT ![c] = @ \ {"reliable"}]
    /\ main' = [At("erase") EXCEPT !.conn = c, !.next = "loop"]
    /\ mainOnly
    /\ UNCHANGED <<running, setupVars, accepted, owner, handle, stats, stream, clients,
                   holder, freed>>

\* ... and its shared_ptr dropped, which closes the connection unless a
\* callback holds another one.
Erase ==
    /\ main.at = "erase"
    /\ LET c == main.conn IN
       /\ clients' = clients \ {c}
       /\ IF worker[c].at = "holding" /\ role = "server"
          THEN main' = At(main.next) /\ UNCHANGED handle
          ELSE /\ handle' = [handle EXCEPT ![c] = "closing"]
               /\ main' = [main EXCEPT !.at = "closing"]
    /\ mainOnly
    /\ UNCHANGED <<running, setupVars, accepted, owner, stats, handlers, stream, dead,
                   holder, freed>>

\* MsQuic has ended every stream and send of the connection.
Quiet(c) ==
    /\ \A m \in Message : stream[c][m].at \in {"none", "done"}
    /\ \A s \in Send : holder[s].conn = c => holder[s].at \notin {"started", "msquic"}

Closed(c) == /\ handle' = [handle EXCEPT ![c] = "closed"]
             /\ owner' = [owner EXCEPT ![c] = "freed"]

\* ConnectionClose returns to the main thread, and the Impl is freed.
CloseReturns ==
    /\ main.at = "closing" /\ Quiet(main.conn) /\ worker[main.conn].at = "idle"
    /\ Closed(main.conn) /\ main' = At(main.next)
    /\ mainOnly
    /\ UNCHANGED <<running, setupVars, accepted, stats, handlers, stream, appVars, holder, freed>>

Interrupt ==
    /\ running /\ main.at # "start" /\ running' = FALSE
    /\ mainOnly
    /\ UNCHANGED <<setupVars, main, accepted, connVars, appVars, holder, freed>>

\* Connection::shutdown
Shutdown(c) == stats' = [stats EXCEPT ![c] = @ \cup {"shutdownRequested"}]

\* The way out. The client first shuts its connection down, waits a while and
\* clears the datagram handler; the server drops its clients as they are.
Leave ==
    /\ main.at = "loop" /\ ~running
    /\ IF role = "client" THEN \A c \in clients : Shutdown(c) ELSE UNCHANGED stats
    /\ handlers' = IF role = "client" THEN [c \in Conn |-> handlers[c] \ {"datagram"}]
                   ELSE handlers
    /\ main' = At("dropClients")
    /\ mainOnly
    /\ UNCHANGED <<running, setupVars, accepted, owner, handle, stream, appVars, holder,
                   freed>>

DropClients ==
    /\ main.at = "dropClients"
    /\ main' = IF clients = {} THEN At("dropListener")
               ELSE [At("erase") EXCEPT !.conn = CHOOSE c \in clients : TRUE,
                                        !.next = "dropClients"]
    /\ mainOnly
    /\ UNCHANGED <<running, setupVars, accepted, connVars, appVars, holder, freed>>

\* ~Listener closes its handle and drops the connections nobody accepted.
DropAccepted ==
    IF accepted = <<>>
    THEN main' = At("stop") /\ UNCHANGED <<accepted, handle>>
    ELSE /\ accepted' = Tail(accepted)
         /\ handle' = [handle EXCEPT ![Head(accepted)] = "closing"]
         /\ main' = [At("closing") EXCEPT !.conn = Head(accepted), !.next = "dropListener"]
LeavesAccepted ==
    main' = At("stop") /\ UNCHANGED <<accepted, handle>>
Unaccepted == DropAccepted

DropListener ==
    /\ main.at = "dropListener"
    /\ listening' = FALSE
    /\ Unaccepted
    /\ mainOnly
    /\ UNCHANGED <<running, held, owner, stats, handlers, stream, appVars, holder, freed>>

\* Transport::stop. RegistrationClose waits for the handles that are open.
Stop ==
    /\ main.at = "stop"
    /\ "registration" \in held => ~listening /\ \A c \in Conn : handle[c] \notin {"open", "closing"}
    /\ held' = {} /\ main' = At("done")
    /\ mainOnly
    /\ UNCHANGED <<running, listening, accepted, connVars, appVars, holder, freed>>

Main == \/ Acquire \/ StartListener \/ Connect \/ AcceptOne \/ Install
        \/ \E c \in Conn, s \in Send, k \in Kind : BeginSend(c, s, k)
        \/ SendStep \/ Erase \/ CloseReturns \/ Leave \/ DropClients
        \/ DropListener \/ Stop
        \/ \E c \in Conn : Reap(c)

-----------------------------------------------------------------------------
(* MsQuic: events of a connection, one callback at a time. *)

workerOnly == UNCHANGED <<role, running, setupVars, main, clients, dead>>

\* A callback that goes through its context uses the Impl.
Uses(c) == misuse' = IF owner[c] = "freed" THEN misuse \cup {c} ELSE misuse

Event(c)    == handle[c] = "open" /\ worker[c].at = "idle"
\* The events that end a stream or a send also come from ConnectionClose.
LastEvent(c) == \/ Event(c)
                \/ handle[c] = "closing" /\ worker[c].at \in {"idle", "closing"}

\* listenerCallback: the Impl is queued, unless its configuration is refused.
NewConnection(c) ==
    /\ role = "server" /\ listening /\ owner[c] = "nobody"
    /\ \/ /\ owner' = [owner EXCEPT ![c] = "queue"]
          /\ handle' = [handle EXCEPT ![c] = "open"]
          /\ accepted' = Append(accepted, c)
       \/ /\ owner' = [owner EXCEPT ![c] = "freed"]
          /\ UNCHANGED <<handle, accepted>>
    /\ workerOnly
    /\ UNCHANGED <<stats, handlers, stream, link, worker, holder, met, handed, freed, misuse>>

Connected(c) ==
    /\ Event(c) /\ link[c] = "new"
    /\ link' = [link EXCEPT ![c] = "up"]
    /\ stats' = [stats EXCEPT ![c] = @ \cup {"connected"}]
    /\ Uses(c) /\ workerOnly
    /\ UNCHANGED <<accepted, owner, handle, handlers, stream, worker, holder, met, handed, freed>>

\* SHUTDOWN_INITIATED_BY_TRANSPORT or _BY_PEER, then SHUTDOWN_COMPLETE.
\* A shutdown of this end's own brings only the second.
ShutdownStarted(c) ==
    /\ Event(c) /\ link[c] \in {"new", "up"}
    /\ link' = [link EXCEPT ![c] = "ending"]
    /\ stats' = [stats EXCEPT ![c] = @ \cup {"shutdownStarted"}]
    /\ Uses(c) /\ workerOnly
    /\ UNCHANGED <<accepted, owner, handle, handlers, stream, worker, holder, met, handed, freed>>

ShutdownComplete(c) ==
    /\ Event(c) /\ link[c] # "down"
    /\ link[c] = "ending" \/ "shutdownRequested" \in stats[c]
    /\ link' = [link EXCEPT ![c] = "down"]
    /\ stats' = [stats EXCEPT ![c] = @ \cup {"shutdownComplete"}]
    /\ Uses(c) /\ workerOnly
    /\ UNCHANGED <<accepted, owner, handle, handlers, stream, worker, holder, met, handed, freed>>

\* The handler is copied under the mutex and called outside of it.
Dispatch(c, k, what, got) ==
    worker' = [worker EXCEPT ![c] =
                  IF k \in handlers[c] THEN [at |-> "copied", what |-> what, got |-> got]
                  ELSE Idle]
Meets(c, k, what) ==
    met' = [met EXCEPT ![c] = IF k \in handlers[c] THEN @ \cup {what} ELSE @]

DatagramReceived(c, d) ==
    /\ Event(c) /\ link[c] = "up" /\ d \notin met[c]
    /\ Dispatch(c, "datagram", d, SegmentCount) /\ Meets(c, "datagram", d)
    /\ Uses(c) /\ workerOnly
    /\ UNCHANGED <<accepted, owner, handle, stats, handlers, stream, link, holder, handed, freed>>

PeerStreamStarted(c, m) ==
    /\ Event(c) /\ link[c] = "up" /\ stream[c][m].at = "none"
    /\ stream' = [stream EXCEPT ![c][m].at = "open"]
    /\ Uses(c) /\ workerOnly
    /\ UNCHANGED <<accepted, owner, handle, stats, handlers, link, worker, holder, met, handed, freed>>

\* RECEIVE appends to the buffer.
Appends(c, m) == /\ stream' = [stream EXCEPT ![c][m].got = @ + 1]
                 /\ UNCHANGED <<worker, met>>
HandsOnEach(c, m) == /\ stream' = [stream EXCEPT ![c][m].got = @ + 1]
                     /\ Dispatch(c, "reliable", m, stream[c][m].got + 1)
                     /\ Meets(c, "reliable", m)
Received(c, m) == Appends(c, m)

Receive(c, m) ==
    /\ Event(c) /\ link[c] # "down"
    /\ stream[c][m].at = "open" /\ stream[c][m].got < SegmentCount
    /\ Received(c, m)
    /\ workerOnly
    /\ UNCHANGED <<accepted, owner, handle, stats, handlers, link, holder, handed, freed, misuse>>

\* PEER_SEND_SHUTDOWN: the message is whole, and moved out of the buffer.
PeerSendShutdown(c, m) ==
    /\ Event(c) /\ link[c] # "down"
    /\ stream[c][m].at = "open" /\ stream[c][m].got = SegmentCount
    /\ stream' = [stream EXCEPT ![c][m] = [at |-> "fin", got |-> 0]]
    /\ Dispatch(c, "reliable", m, stream[c][m].got) /\ Meets(c, "reliable", m)
    /\ Uses(c) /\ workerOnly
    /\ UNCHANGED <<accepted, owner, handle, stats, handlers, link, holder, handed, freed>>

\* A stream ends after its message, or with the connection.
StreamShutdownComplete(c, m) ==
    /\ LastEvent(c) /\ stream[c][m].at \in {"open", "fin"}
    /\ stream[c][m].at = "fin" \/ link[c] = "down" \/ handle[c] = "closing"
    /\ stream' = [stream EXCEPT ![c][m] = [at |-> "done", got |-> 0]]
    /\ Uses(c) /\ workerOnly
    /\ UNCHANGED <<accepted, owner, handle, stats, handlers, link, worker, holder, met, handed, freed>>

\* sendStreamCallback and DATAGRAM_SEND_STATE_CHANGED: the holder is deleted.
\* A stream that was started and has not sent its message ends only with the
\* connection.
SendEnds(s) ==
    /\ holder[s].at \in {"started", "msquic"} /\ LastEvent(holder[s].conn)
    /\ holder[s].at = "started" => link[holder[s].conn] = "down"
    /\ Deletes(s)
    /\ workerOnly
    /\ UNCHANGED <<accepted, connVars, link, worker, met, handed, misuse>>

-----------------------------------------------------------------------------
(* The handlers the two programs install, on the worker. *)

HandsOver(c) ==
    handed' = [handed EXCEPT ![c] = Append(@, [what |-> worker[c].what, got |-> worker[c].got])]

\* The server's handler locks its weak_ptr; the client's has `this`.
Invoke(c) ==
    /\ worker[c].at = "copied"
    /\ worker' = [worker EXCEPT ![c].at =
                     IF role = "client" \/ c \in clients THEN "holding" ELSE "returning"]
    /\ workerOnly
    /\ UNCHANGED <<accepted, connVars, link, holder, met, handed, freed, misuse>>

\* The message goes to the inbox of a client that is not dead. The shared_ptr
\* goes away with the call; the last one closes the connection here. The lab
\* client shuts down when the schemas do not match.
Deliver(c) ==
    /\ worker[c].at = "holding"
    /\ IF c \in dead THEN UNCHANGED handed ELSE HandsOver(c)
    /\ \/ UNCHANGED stats
       \/ role = "client" /\ worker[c].what \in Message /\ Shutdown(c)
    /\ IF role = "server" /\ c \notin clients
       THEN /\ handle' = [handle EXCEPT ![c] = "closing"]
            /\ worker' = [worker EXCEPT ![c].at = "closing"]
       ELSE /\ worker' = [worker EXCEPT ![c].at = "returning"]
            /\ UNCHANGED handle
    /\ workerOnly
    /\ UNCHANGED <<accepted, owner, handlers, stream, link, holder, met, freed, misuse>>

CloseInPlace(c) ==
    /\ worker[c].at = "closing" /\ Quiet(c)
    /\ Closed(c)
    /\ worker' = [worker EXCEPT ![c].at = "returning"]
    /\ workerOnly
    /\ UNCHANGED <<accepted, stats, handlers, stream, link, holder, met, handed, freed, misuse>>

\* What a callback does after its handler: nothing, and not to the Impl.
AfterHandler(c)       == UNCHANGED misuse
AfterHandlerCounts(c) == Uses(c)
Afterwards(c) == AfterHandler(c)

Return(c) ==
    /\ worker[c].at = "returning"
    /\ worker' = [worker EXCEPT ![c] = Idle]
    /\ Afterwards(c)
    /\ workerOnly
    /\ UNCHANGED <<accepted, connVars, link, holder, met, handed, freed>>

\* What a worker owes to whoever waits for it.
Callback(c) == \/ Invoke(c) \/ Deliver(c) \/ CloseInPlace(c) \/ Return(c)
               \/ \E m \in Message : StreamShutdownComplete(c, m)
               \/ \E s \in Send : holder[s].conn = c /\ SendEnds(s)

Network(c) == \/ NewConnection(c) \/ Connected(c) \/ ShutdownStarted(c) \/ ShutdownComplete(c)
              \/ \E d \in Datagram : DatagramReceived(c, d)
              \/ \E m \in Message : PeerStreamStarted(c, m) \/ Receive(c, m)
                                    \/ PeerSendShutdown(c, m)

Next == Main \/ Interrupt \/ \E c \in Conn : Callback(c) \/ Network(c)

\* The main thread and MsQuic's workers run; the peers and the network owe
\* nothing, and neither does who would stop the process.
Fairness == WF_vars(Main) /\ \A c \in Conn : WF_vars(Callback(c))

Spec == Init /\ [][Next]_vars /\ Fairness

-----------------------------------------------------------------------------
\* No callback uses a Connection::Impl that has been freed, although a handler
\* on a worker may be the last to let go of it (MsQuicTransport.cpp 564-577,
\* 1362-1395; the weak_ptr of the server's handler).
NoUseAfterFree == misuse = {}

\* A reliable message reaches the application at most once, whole, and only
\* through a handler that was there at its end; it does reach it then, unless
\* the client was reaped meanwhile (receiveStreamCallback).
MessagesWhole ==
    \A c \in Conn :
        /\ \A i \in 1 .. Len(handed[c]) :
              /\ handed[c][i].got = SegmentCount /\ handed[c][i].what \in met[c]
              /\ \A j \in 1 .. Len(handed[c]) : handed[c][i].what = handed[c][j].what => i = j
        /\ \A x \in met[c] :
              \/ \E i \in 1 .. Len(handed[c]) : handed[c][i].what = x
              \/ worker[c].what = x /\ worker[c].at \in {"copied", "holding"}
              \/ c \in dead \/ c \notin clients

\* The payload of a send is deleted once, never while MsQuic has it, and by
\* the time the process ends; it goes away under its sender only when the
\* connection is lost between StreamStart and StreamSend.
HoldersFreed ==
    \A s \in Send :
        /\ freed[s] = (IF holder[s].at = "freed" THEN 1 ELSE 0)
        /\ main.at = "done" => holder[s].at \in {"unused", "freed"}
        /\ main.send = s /\ holder[s].at = "freed" => link[holder[s].conn] = "down"

\* Once the process is told to stop it ends: RegistrationClose finds no handle
\* open (the order of destruction, stratumv_server/main.cpp 1528-1531, 1744-1747,
\* and skinned_test/main.cpp 4855-4876).
StopReturns == ~running ~> main.at = "done"
=============================================================================
