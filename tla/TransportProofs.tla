-------------------------- MODULE TransportProofs ---------------------------
(****************************************************************************)
(* Who may use a connection and its payloads, and until when:               *)
(* NoUseAfterFree and HoldersFreed; and what becomes of a message that      *)
(* arrives: MessagesWhole; for any number of connections, messages, sends.  *)
(****************************************************************************)
EXTENDS Transport, FiniteSetTheorems, TLAPS

Places == {"start", "listen", "connect", "loop", "install", "send", "erase", "closing",
           "dropClients", "dropListener", "stop", "done"}

\* The shape of what the steps update in part.
Shape ==
    /\ role \in {"server", "client"} /\ clients \subseteq Conn /\ accepted \in Seq(Conn)
    /\ role = "client" => accepted = <<>>
    /\ main \in [at : Places, conn : Conn \cup {Nothing}, send : Send \cup {Nothing},
                 next : {"done", "loop", "dropClients", "dropListener"}]
    /\ main.at = "connect" => role = "client"
    /\ owner \in [Conn -> {"nobody", "queue", "app", "freed"}]
    /\ handle \in [Conn -> {"none", "open", "closing", "closed"}]
    /\ worker = [c \in Conn |-> [at |-> worker[c].at, what |-> worker[c].what,
                                 got |-> worker[c].got]]

\* The application's own connections.
Ours(c) == owner[c] = "app" /\ handle[c] = "open"

Installing(c) == main.at = "install" /\ main.conn = c

\* What is queued, installed, in the vector or held by a handler alone has an
\* open handle; what is freed has none. Nobody closes what somebody else holds.
Lifetimes ==
    /\ Shape
    /\ \A c \in Conn : owner[c] = "freed" => handle[c] \in {"none", "closed"}
    /\ \A c \in Conn : owner[c] = "nobody" => handle[c] = "none"
    /\ \A i \in DOMAIN accepted : owner[accepted[i]] = "queue" /\ handle[accepted[i]] = "open"
    /\ \A i, j \in DOMAIN accepted : accepted[i] = accepted[j] => i = j
    /\ \A c \in clients : Ours(c)
    /\ main.at = "erase" => main.conn \in clients
    /\ main.at = "install" => main.conn \in Conn /\ Ours(main.conn)
    /\ main.at = "closing" => main.conn \in Conn /\ handle[main.conn] \in {"closing", "closed"}
    /\ \A c \in Conn \ clients : role = "server" /\ worker[c].at = "holding" =>
          Ours(c) /\ ~Installing(c)
    /\ \A c \in Conn : worker[c].at = "closing" =>
          role = "server" /\ handle[c] \in {"closing", "closed"}

Safe == Lifetimes /\ NoUseAfterFree

-----------------------------------------------------------------------------
(* Steps that hand nothing over *)

LEMMA MainAside ==
    ASSUME Lifetimes, Shape', UNCHANGED <<role, owner, handle, clients, accepted, worker>>,
           main'.at \notin {"install", "closing"},
           main'.at = "erase" => main'.conn \in clients
    PROVE  Lifetimes'
BY DEF Lifetimes, Ours, Installing

LEMMA WorkerAside ==
    ASSUME Lifetimes, Shape', UNCHANGED <<role, owner, handle, clients, accepted, main>>,
           \A c \in Conn : worker'[c].at = "holding" =>
              worker[c].at = "holding" \/ c \in clients \/ role = "client",
           \A c \in Conn : worker'[c].at = "closing" => worker[c].at = "closing"
    PROVE  Lifetimes'
BY DEF Lifetimes, Ours, Installing

\* An event comes while the handle is open or closing, and then the Impl lives.
LEMMA UsesLiving ==
    ASSUME Lifetimes, NEW c \in Conn, handle[c] \in {"open", "closing"}, Uses(c)
    PROVE  UNCHANGED misuse
BY DEF Lifetimes, Uses

-----------------------------------------------------------------------------
(* The main thread *)

LEMMA MainSteps ==
    ASSUME Lifetimes,
           \/ Acquire \/ StartListener \/ SendStep \/ Leave \/ DropClients \/ Stop
           \/ \E c \in Conn, s \in Send, k \in Kind : BeginSend(c, s, k)
           \/ \E c \in Conn : Reap(c)
    PROVE  Lifetimes' /\ UNCHANGED misuse
<1>1. UNCHANGED <<role, owner, handle, clients, accepted, worker, misuse>>
  BY DEF Acquire, StartListener, SendStep, Leave, DropClients, Stop, BeginSend, Reap,
         mainOnly, connVars, appVars
<1> USE DEF Lifetimes, Shape, Places, At
<1>2. CASE Acquire
  <2>1. Shape' /\ main'.at \in {"start", "listen", "connect", "stop"}
    BY <1>1, <1>2 DEF Acquire
  <2> QED BY <1>1, <2>1, MainAside
<1>3. CASE StartListener \/ SendStep \/ Leave \/ Stop
  <2>1. Shape' /\ main'.at \in {"loop", "send", "stop", "dropClients", "done"}
    BY <1>1, <1>3 DEF StartListener, SendStep, Leave, Stop
  <2> QED BY <1>1, <2>1, MainAside
<1>4. CASE DropClients
  <2>1. Shape' /\ main'.at \in {"erase", "dropListener"} /\ (main'.at = "erase" => main'.conn \in clients)
    BY <1>1, <1>4 DEF DropClients
  <2> QED BY <1>1, <2>1, MainAside
<1>5. ASSUME NEW c \in Conn, NEW s \in Send, NEW k \in Kind, BeginSend(c, s, k) PROVE Lifetimes'
  <2>1. Shape' /\ main'.at = "send"
    BY <1>1, <1>5 DEF BeginSend
  <2> QED BY <1>1, <2>1, MainAside
<1>6. ASSUME NEW c \in Conn, Reap(c) PROVE Lifetimes'
  <2>1. main' = [at |-> "erase", conn |-> c, send |-> Nothing, next |-> "loop"] /\ c \in clients
    BY <1>6 DEF Reap
  <2>2. Shape'
    BY <1>1, <2>1
  <2> QED BY <1>1, <2>1, <2>2, MainAside
<1> QED BY <1>1, <1>2, <1>3, <1>4, <1>5, <1>6

LEMMA Connecting == Lifetimes /\ Connect => Lifetimes' /\ UNCHANGED misuse
<1> SUFFICES ASSUME Lifetimes, Connect PROVE Lifetimes' /\ UNCHANGED misuse
  OBVIOUS
<1>1. role = "client" /\ UNCHANGED <<role, accepted, worker, misuse>> /\ accepted = <<>>
  BY DEF Connect, mainOnly, Lifetimes, Shape
<1>2. CASE main' = At("stop") /\ UNCHANGED <<owner, handle, clients>>
  <2>1. Shape'
    BY <1>1, <1>2 DEF Lifetimes, Shape, Places, At
  <2> QED BY <1>1, <1>2, <2>1, MainAside DEF At
<1>3. ASSUME NEW c \in Conn, owner' = [owner EXCEPT ![c] = "app"], handle' = [handle EXCEPT ![c] = "open"],
             clients' = {c}, main' = [At("install") EXCEPT !.conn = c]
      PROVE  Lifetimes'
  <2>1. Shape'
    BY <1>1, <1>3 DEF Lifetimes, Shape, Places, At
  <2>2. main'.at = "install" /\ main'.conn = c
    BY <1>3 DEF At
  <2> QED BY <1>1, <1>3, <2>1, <2>2 DEF Lifetimes, Shape, Ours, Installing
<1> QED BY <1>1, <1>2, <1>3 DEF Connect

LEMMA Accepting == Lifetimes /\ AcceptOne => Lifetimes' /\ UNCHANGED misuse
<1> SUFFICES ASSUME Lifetimes, AcceptOne PROVE Lifetimes' /\ UNCHANGED misuse
  OBVIOUS
<1>1. PICK c : c = Head(accepted)
  OBVIOUS
<1>2. /\ accepted # <<>> /\ accepted \in Seq(Conn) /\ accepted' = Tail(accepted)
      /\ owner' = [owner EXCEPT ![c] = "app"]
      /\ main' = [At("install") EXCEPT !.conn = c]
      /\ UNCHANGED <<role, handle, clients, worker, misuse>>
  BY <1>1 DEF AcceptOne, mainOnly, appVars, Lifetimes, Shape
<1>3. /\ c \in Conn /\ accepted' \in Seq(Conn)
      /\ 1 \in DOMAIN accepted /\ c = accepted[1]
      /\ \A i \in DOMAIN accepted' : i + 1 \in DOMAIN accepted /\ accepted'[i] = accepted[i + 1]
      /\ \A i \in DOMAIN accepted' : i \in Nat /\ i + 1 # 1
  BY <1>1, <1>2
<1>4. owner[c] = "queue" /\ handle[c] = "open" /\ owner'[c] = "app"
  BY <1>2, <1>3 DEF Lifetimes, Shape
<1>5. \A i \in DOMAIN accepted' : accepted'[i] # c
  BY <1>3 DEF Lifetimes
<1>6. Shape'
  BY <1>2, <1>3, <1>4 DEF Lifetimes, Shape, Places, At
<1>7. main'.at = "install" /\ main'.conn = c
  BY <1>2 DEF At
<1>8. \A d \in Conn : d # c => owner'[d] = owner[d]
  BY <1>2 DEF Lifetimes, Shape
<1>9. /\ \A i \in DOMAIN accepted' : owner'[accepted'[i]] = "queue" /\ handle'[accepted'[i]] = "open"
      /\ \A i, j \in DOMAIN accepted' : accepted'[i] = accepted'[j] => i = j
  BY <1>2, <1>3, <1>5, <1>8 DEF Lifetimes
<1>10. /\ c \notin clients
       /\ ~(role = "server" /\ worker[c].at = "holding" /\ c \notin clients)
  BY <1>3, <1>4 DEF Lifetimes, Ours
<1>11. /\ \A d \in Conn : owner'[d] = "freed" => handle'[d] \in {"none", "closed"}
       /\ \A d \in Conn : owner'[d] = "nobody" => handle'[d] = "none"
       /\ \A d \in clients' : Ours(d)'
       /\ \A d \in Conn : worker'[d].at = "closing" =>
             role' = "server" /\ handle'[d] \in {"closing", "closed"}
  BY <1>2, <1>4, <1>8, <1>10 DEF Lifetimes, Shape, Ours
<1>12. \A d \in Conn \ clients' : role' = "server" /\ worker'[d].at = "holding" =>
          Ours(d)' /\ ~Installing(d)'
  BY <1>2, <1>4, <1>7, <1>8, <1>10 DEF Lifetimes, Ours, Installing
<1> QED
  BY <1>2, <1>3, <1>4, <1>6, <1>7, <1>9, <1>11, <1>12 DEF Lifetimes, Ours

LEMMA InstallingStep == Lifetimes /\ Install => Lifetimes' /\ UNCHANGED misuse
<1> SUFFICES ASSUME Lifetimes, Install PROVE Lifetimes' /\ UNCHANGED misuse
  OBVIOUS
<1>1. /\ main.at = "install" /\ main.conn \in Conn /\ Ours(main.conn)
      /\ UNCHANGED <<role, owner, handle, accepted, worker, misuse>>
      /\ \/ UNCHANGED <<main, clients>>
         \/ main' = At("loop") /\ clients' = clients \cup {main.conn}
  BY DEF Install, mainOnly, Lifetimes
<1>2. Shape'
  BY <1>1 DEF Lifetimes, Shape, Places, At
<1>3. CASE UNCHANGED <<main, clients>>
  BY <1>1, <1>2, <1>3, WorkerAside
<1>4. CASE main' = At("loop") /\ clients' = clients \cup {main.conn}
  <2>1. main'.at = "loop"
    BY <1>4 DEF At
  <2> QED BY <1>1, <1>2, <1>4, <2>1 DEF Lifetimes, Ours, Installing
<1> QED BY <1>1, <1>3, <1>4

LEMMA Erasing == Lifetimes /\ Erase => Lifetimes' /\ UNCHANGED misuse
<1> SUFFICES ASSUME Lifetimes, Erase PROVE Lifetimes' /\ UNCHANGED misuse
  OBVIOUS
<1>1. PICK c : c = main.conn
  OBVIOUS
<1>2. /\ c \in clients /\ c \in Conn /\ Ours(c) /\ clients' = clients \ {c} /\ main.at = "erase"
      /\ UNCHANGED <<role, owner, accepted, worker, misuse>>
  BY <1>1 DEF Erase, mainOnly, Lifetimes, Shape
<1>3. CASE worker[c].at = "holding" /\ role = "server"
  <2>1. main' = At(main.next) /\ UNCHANGED handle
    BY <1>1, <1>3 DEF Erase
  <2>2. main'.at \in {"done", "loop", "dropClients", "dropListener"} /\ Shape'
    BY <1>2, <2>1 DEF Lifetimes, Shape, Places, At
  <2> QED BY <1>2, <2>1, <2>2 DEF Lifetimes, Ours, Installing
<1>4. CASE ~(worker[c].at = "holding" /\ role = "server")
  <2>1. handle' = [handle EXCEPT ![c] = "closing"] /\ main' = [main EXCEPT !.at = "closing"]
    BY <1>1, <1>4 DEF Erase
  <2>2. Shape' /\ main'.at = "closing" /\ main'.conn = c /\ handle'[c] = "closing"
        /\ \A d \in Conn : d # c => handle'[d] = handle[d]
    BY <1>1, <1>2, <2>1 DEF Lifetimes, Shape, Places
  <2>3. \A i \in DOMAIN accepted : accepted[i] # c
    BY <1>2 DEF Lifetimes, Ours
  <2>4. \A i \in DOMAIN accepted : accepted[i] \in Conn
    BY DEF Lifetimes, Shape
  <2>5. /\ \A d \in Conn : owner'[d] = "freed" => handle'[d] \in {"none", "closed"}
        /\ \A d \in Conn : owner'[d] = "nobody" => handle'[d] = "none"
    BY <1>2, <2>2 DEF Lifetimes, Ours
  <2>6. /\ \A i \in DOMAIN accepted' : owner'[accepted'[i]] = "queue" /\ handle'[accepted'[i]] = "open"
        /\ \A i, j \in DOMAIN accepted' : accepted'[i] = accepted'[j] => i = j
    BY <1>2, <2>2, <2>3, <2>4 DEF Lifetimes
  <2>7. clients \subseteq Conn
    BY DEF Lifetimes, Shape
  <2>8. /\ \A d \in clients' : Ours(d)'
        /\ \A d \in Conn : worker'[d].at = "closing" =>
              role' = "server" /\ handle'[d] \in {"closing", "closed"}
    BY <1>2, <2>2, <2>7 DEF Lifetimes, Ours
  <2>9. \A d \in Conn \ clients' : role' = "server" /\ worker'[d].at = "holding" =>
           Ours(d)' /\ ~Installing(d)'
    BY <1>2, <1>4, <2>2 DEF Lifetimes, Ours, Installing
  <2> QED BY <1>2, <2>2, <2>5, <2>6, <2>8, <2>9 DEF Lifetimes
<1> QED BY <1>2, <1>3, <1>4

\* A connection whose handle is closing or closed is nobody's: it may be freed.
LEMMA Freeing ==
    ASSUME Lifetimes, NEW c \in Conn, handle[c] \in {"closing", "closed"}, Closed(c),
           UNCHANGED <<role, clients, accepted>>, Shape',
           main'.at \notin {"install", "erase"} \/ main' = main, 
           main'.at = "closing" => main' = main,
           \A d \in Conn : worker'[d].at \in {"holding", "closing"} => worker'[d].at = worker[d].at
    PROVE  Lifetimes'
<1>1. owner'[c] = "freed" /\ handle'[c] = "closed"
      /\ \A d \in Conn : d # c => owner'[d] = owner[d] /\ handle'[d] = handle[d]
  BY DEF Closed, Lifetimes, Shape
<1>2. \A i \in DOMAIN accepted : accepted[i] # c /\ accepted[i] \in Conn
  BY DEF Lifetimes, Shape
<1>3. c \notin clients /\ ~(role = "server" /\ worker[c].at = "holding")
  BY DEF Lifetimes, Ours
<1>4. main.at = "install" => main.conn # c
  BY DEF Lifetimes, Ours
<1>5. clients \subseteq Conn
  BY DEF Lifetimes, Shape
<1> QED BY <1>1, <1>2, <1>3, <1>4, <1>5 DEF Lifetimes, Ours, Installing

LEMMA ClosingReturns == Lifetimes /\ CloseReturns => Lifetimes' /\ UNCHANGED misuse
<1> SUFFICES ASSUME Lifetimes, CloseReturns PROVE Lifetimes' /\ UNCHANGED misuse
  OBVIOUS
<1>1. PICK c : c = main.conn
  OBVIOUS
<1>2. /\ c \in Conn /\ handle[c] \in {"closing", "closed"} /\ Closed(c) /\ main' = At(main.next)
      /\ UNCHANGED <<role, clients, accepted, worker, misuse>>
  BY <1>1 DEF CloseReturns, mainOnly, appVars, Lifetimes
<1>3. Shape' /\ main'.at \in {"done", "loop", "dropClients", "dropListener"}
  BY <1>2 DEF Lifetimes, Shape, Places, At, Closed
<1> QED BY <1>2, <1>3, Freeing

LEMMA DroppingListener == Lifetimes /\ DropListener => Lifetimes' /\ UNCHANGED misuse
<1> SUFFICES ASSUME Lifetimes, DropListener PROVE Lifetimes' /\ UNCHANGED misuse
  OBVIOUS
<1>1. UNCHANGED <<role, owner, clients, worker, misuse>>
  BY DEF DropListener, mainOnly, appVars
<1>2. CASE accepted = <<>>
  <2>1. main' = At("stop") /\ UNCHANGED <<accepted, handle>>
    BY <1>2 DEF DropListener, Unaccepted, DropAccepted
  <2>2. Shape' /\ main'.at = "stop"
    BY <1>1, <2>1 DEF Lifetimes, Shape, Places, At
  <2> QED BY <1>1, <2>1, <2>2, MainAside
<1>3. CASE accepted # <<>>
  <2>1. PICK c : c = Head(accepted)
    OBVIOUS
  <2>2. /\ accepted' = Tail(accepted) /\ handle' = [handle EXCEPT ![c] = "closing"]
        /\ main' = [At("closing") EXCEPT !.conn = c, !.next = "dropListener"]
    BY <1>3, <2>1 DEF DropListener, Unaccepted, DropAccepted
  <2>3. /\ c \in Conn /\ accepted' \in Seq(Conn) /\ 1 \in DOMAIN accepted /\ c = accepted[1]
        /\ \A i \in DOMAIN accepted' : i + 1 \in DOMAIN accepted /\ accepted'[i] = accepted[i + 1]
        /\ \A i \in DOMAIN accepted' : i \in Nat /\ i + 1 # 1
    BY <1>3, <2>1, <2>2 DEF Lifetimes, Shape
  <2>4. main'.at = "closing" /\ main'.conn = c /\ handle'[c] = "closing"
        /\ \A d \in Conn : d # c => handle'[d] = handle[d]
    BY <2>2, <2>3 DEF At, Lifetimes, Shape
  <2>5. Shape'
    BY <1>1, <1>3, <2>2, <2>3 DEF Lifetimes, Shape, Places, At
  <2>6. owner[c] = "queue"
    BY <2>3 DEF Lifetimes
  <2>7. \A i \in DOMAIN accepted' : accepted'[i] # c /\ accepted'[i] \in Conn
    BY <2>3 DEF Lifetimes
  <2>8. /\ \A i \in DOMAIN accepted' : owner[accepted'[i]] = "queue" /\ handle'[accepted'[i]] = "open"
        /\ \A i, j \in DOMAIN accepted' : accepted'[i] = accepted'[j] => i = j
    BY <2>3, <2>4, <2>7 DEF Lifetimes
  <2>9. c \notin clients /\ clients \subseteq Conn
        /\ ~(role = "server" /\ worker[c].at = "holding" /\ c \notin clients)
    BY <2>3, <2>6 DEF Lifetimes, Shape, Ours
  <2> QED BY <1>1, <2>3, <2>4, <2>5, <2>6, <2>8, <2>9 DEF Lifetimes, Ours, Installing
<1> QED BY <1>1, <1>2, <1>3

-----------------------------------------------------------------------------
(* The workers *)

LEMMA Queueing == ASSUME Lifetimes, NEW c \in Conn, NewConnection(c)
                  PROVE  Lifetimes' /\ UNCHANGED misuse
<1>1. /\ role = "server" /\ owner[c] = "nobody" /\ handle[c] = "none"
      /\ UNCHANGED <<role, clients, main, worker, misuse>>
      /\ accepted \in Seq(Conn) /\ clients \subseteq Conn
  BY DEF NewConnection, workerOnly, Lifetimes, Shape
<1>2. c \notin clients /\ ~(worker[c].at = "holding") /\ ~(worker[c].at = "closing")
  BY <1>1 DEF Lifetimes, Ours
<1>3. main.at \in {"install", "closing"} => main.conn # c
  BY <1>1 DEF Lifetimes, Ours
<1>4. CASE owner' = [owner EXCEPT ![c] = "freed"] /\ UNCHANGED <<handle, accepted>>
  <2>1. Shape' /\ owner'[c] = "freed" /\ \A d \in Conn : d # c => owner'[d] = owner[d]
    BY <1>1, <1>4 DEF Lifetimes, Shape
  <2>2. \A i \in DOMAIN accepted : accepted[i] # c /\ accepted[i] \in Conn
    BY <1>1 DEF Lifetimes
  <2> QED BY <1>1, <1>2, <1>3, <1>4, <2>1, <2>2 DEF Lifetimes, Ours, Installing
<1>5. CASE /\ owner' = [owner EXCEPT ![c] = "queue"] /\ handle' = [handle EXCEPT ![c] = "open"]
           /\ accepted' = Append(accepted, c)
  <2>1. /\ Shape' /\ owner'[c] = "queue" /\ handle'[c] = "open"
        /\ \A d \in Conn : d # c => owner'[d] = owner[d] /\ handle'[d] = handle[d]
    BY <1>1, <1>5 DEF Lifetimes, Shape
  <2>2. \A i \in DOMAIN accepted : accepted[i] # c /\ accepted[i] \in Conn
    BY <1>1 DEF Lifetimes
  <2>3. \A i \in DOMAIN accepted' : \/ i \in DOMAIN accepted /\ accepted'[i] = accepted[i]
                                    \/ i = Len(accepted) + 1 /\ accepted'[i] = c
    BY <1>1, <1>5
  <2>4. /\ \A i \in DOMAIN accepted' : owner'[accepted'[i]] = "queue" /\ handle'[accepted'[i]] = "open"
        /\ \A i, j \in DOMAIN accepted' : accepted'[i] = accepted'[j] => i = j
    BY <2>1, <2>2, <2>3 DEF Lifetimes
  <2>5. /\ \A d \in Conn : owner'[d] = "freed" => handle'[d] \in {"none", "closed"}
        /\ \A d \in Conn : owner'[d] = "nobody" => handle'[d] = "none"
        /\ \A d \in clients' : Ours(d)'
    BY <1>1, <1>2, <2>1 DEF Lifetimes, Ours
  <2> QED BY <1>1, <1>2, <1>3, <2>1, <2>4, <2>5 DEF Lifetimes, Ours, Installing
<1> QED BY <1>1, <1>4, <1>5 DEF NewConnection

\* The events: they use the Impl, and come while its handle is open or closing.
LEMMA Events ==
    ASSUME Lifetimes, NEW c \in Conn,
           \/ Connected(c) \/ ShutdownStarted(c) \/ ShutdownComplete(c)
           \/ \E d \in Datagram : DatagramReceived(c, d)
           \/ \E m \in Message : \/ PeerStreamStarted(c, m) \/ Receive(c, m)
                                  \/ PeerSendShutdown(c, m) \/ StreamShutdownComplete(c, m)
           \/ \E s \in Send : SendEnds(s)
    PROVE  Lifetimes' /\ UNCHANGED misuse
<1>1. UNCHANGED <<role, owner, handle, clients, accepted, main>>
  BY DEF Connected, ShutdownStarted, ShutdownComplete, DatagramReceived, PeerStreamStarted, Receive,
         PeerSendShutdown, StreamShutdownComplete, SendEnds, workerOnly, connVars
<1>2. \/ UNCHANGED worker
      \/ \E what, got : worker' = [worker EXCEPT ![c] = [at |-> "copied", what |-> what, got |-> got]]
      \/ worker' = [worker EXCEPT ![c] = Idle]
  <2>1. CASE \E d \in Datagram : DatagramReceived(c, d)
    BY <2>1 DEF DatagramReceived, Dispatch
  <2>2. CASE \E m \in Message : PeerSendShutdown(c, m)
    BY <2>2 DEF PeerSendShutdown, Dispatch
  <2> QED BY <2>1, <2>2 DEF Connected, ShutdownStarted, ShutdownComplete, PeerStreamStarted, Receive,
             Received, Appends, StreamShutdownComplete, SendEnds
<1>3. worker' = [d \in Conn |-> [at |-> worker'[d].at, what |-> worker'[d].what, got |-> worker'[d].got]]
      /\ \A d \in Conn : worker'[d].at \in {"holding", "closing"} => worker'[d] = worker[d]
  <2>1. worker = [d \in Conn |-> [at |-> worker[d].at, what |-> worker[d].what, got |-> worker[d].got]]
    BY DEF Lifetimes, Shape
  <2>2. CASE UNCHANGED worker
    BY <2>1, <2>2
  <2>3. ASSUME NEW at \in {"copied", "idle"}, NEW what, NEW got,
               worker' = [worker EXCEPT ![c] = [at |-> at, what |-> what, got |-> got]]
        PROVE  /\ worker' = [d \in Conn |-> [at |-> worker'[d].at, what |-> worker'[d].what,
                                            got |-> worker'[d].got]]
               /\ \A d \in Conn : worker'[d].at \in {"holding", "closing"} => worker'[d] = worker[d]
    <3>1. worker'[c] = [at |-> at, what |-> what, got |-> got]
          /\ \A d \in Conn : d # c => worker'[d] = worker[d]
      BY <2>1, <2>3
    <3>2. worker' = [d \in Conn |-> worker'[d]]
      BY <2>1, <2>3
    <3>3. \A d \in Conn : worker'[d] = [at |-> worker'[d].at, what |-> worker'[d].what, got |-> worker'[d].got]
      BY <2>1, <3>1
    <3> QED BY <3>1, <3>2, <3>3
  <2> QED BY <1>2, <2>2, <2>3 DEF Idle
<1>4. Shape'
  BY <1>1, <1>3 DEF Lifetimes, Shape
<1>5. Lifetimes'
  BY <1>1, <1>3, <1>4, WorkerAside
<1>6. UNCHANGED misuse
  <2>1. CASE UNCHANGED misuse
    BY <2>1
  <2>2. CASE Uses(c) /\ (Event(c) \/ LastEvent(c))
    BY <2>2, UsesLiving DEF Event, LastEvent
  <2> QED BY <2>1, <2>2 DEF Connected, ShutdownStarted, ShutdownComplete, DatagramReceived,
             PeerStreamStarted, Receive, PeerSendShutdown, StreamShutdownComplete, SendEnds
<1> QED BY <1>5, <1>6

LEMMA Handling ==
    ASSUME Lifetimes, NEW c \in Conn, Invoke(c) \/ Deliver(c) \/ Return(c)
    PROVE  Lifetimes' /\ UNCHANGED misuse
<1>1. UNCHANGED <<role, owner, clients, accepted, main, misuse>>
  BY DEF Invoke, Deliver, Return, workerOnly, connVars, Afterwards, AfterHandler
<1>2. CASE Deliver(c) /\ role = "server" /\ c \notin clients
  <2>1. /\ worker[c].at = "holding" /\ handle' = [handle EXCEPT ![c] = "closing"]
        /\ worker' = [worker EXCEPT ![c].at = "closing"]
    BY <1>2 DEF Deliver
  <2>2. Ours(c) /\ ~Installing(c)
    BY <1>2, <2>1 DEF Lifetimes
  <2>3. /\ Shape' /\ handle'[c] = "closing" /\ worker'[c].at = "closing"
        /\ \A d \in Conn : d # c => handle'[d] = handle[d] /\ worker'[d] = worker[d]
    <3>1. worker = [d \in Conn |-> [at |-> worker[d].at, what |-> worker[d].what, got |-> worker[d].got]]
      BY DEF Lifetimes, Shape
    <3>2. worker'[c].at = "closing" /\ \A d \in Conn : d # c => worker'[d] = worker[d]
      BY <2>1, <3>1
    <3>3. worker' = [d \in Conn |-> [at |-> worker'[d].at, what |-> worker'[d].what, got |-> worker'[d].got]]
      BY <2>1, <3>1
    <3>4. /\ handle'[c] = "closing" /\ \A d \in Conn : d # c => handle'[d] = handle[d]
          /\ handle' \in [Conn -> {"none", "open", "closing", "closed"}]
      BY <2>1 DEF Lifetimes, Shape
    <3> QED BY <1>1, <3>2, <3>3, <3>4 DEF Lifetimes, Shape
  <2>4. \A i \in DOMAIN accepted : accepted[i] # c /\ accepted[i] \in Conn
    BY <2>2 DEF Lifetimes, Shape, Ours
  <2>5. clients \subseteq Conn
    BY DEF Lifetimes, Shape
  <2>6. /\ \A d \in Conn : owner'[d] = "freed" => handle'[d] \in {"none", "closed"}
        /\ \A d \in Conn : owner'[d] = "nobody" => handle'[d] = "none"
        /\ \A i \in DOMAIN accepted' : owner'[accepted'[i]] = "queue" /\ handle'[accepted'[i]] = "open"
        /\ \A i, j \in DOMAIN accepted' : accepted'[i] = accepted'[j] => i = j
    BY <1>1, <2>2, <2>3, <2>4 DEF Lifetimes, Ours
  <2>7. /\ \A d \in clients' : Ours(d)'
        /\ main'.at = "erase" => main'.conn \in clients'
        /\ main'.at = "install" => main'.conn \in Conn /\ Ours(main.conn)'
        /\ main'.at = "closing" => main'.conn \in Conn /\ handle'[main'.conn] \in {"closing", "closed"}
    BY <1>1, <1>2, <2>2, <2>3, <2>5 DEF Lifetimes, Ours, Installing
  <2>8. /\ \A d \in Conn \ clients' : role' = "server" /\ worker'[d].at = "holding" =>
              Ours(d)' /\ ~Installing(d)'
        /\ \A d \in Conn : worker'[d].at = "closing" =>
              role' = "server" /\ handle'[d] \in {"closing", "closed"}
    BY <1>1, <1>2, <2>3 DEF Lifetimes, Ours, Installing
  <2> QED BY <1>1, <2>3, <2>6, <2>7, <2>8 DEF Lifetimes
<1>3. CASE ~(Deliver(c) /\ role = "server" /\ c \notin clients)
  <2>1. /\ UNCHANGED handle
        /\ \/ worker' = [worker EXCEPT ![c].at = "returning"]
           \/ worker' = [worker EXCEPT ![c].at = "holding"] /\ (role = "client" \/ c \in clients)
           \/ worker' = [worker EXCEPT ![c] = Idle]
    BY <1>3 DEF Invoke, Deliver, Return, connVars
  <2>2. worker' = [d \in Conn |-> [at |-> worker'[d].at, what |-> worker'[d].what, got |-> worker'[d].got]]
    BY <2>1 DEF Lifetimes, Shape, Idle
  <2>3. /\ \A d \in Conn : worker'[d].at = "holding" =>
              worker[d].at = "holding" \/ d \in clients \/ role = "client"
        /\ \A d \in Conn : worker'[d].at = "closing" => worker[d].at = "closing"
    <3>1. worker = [d \in Conn |-> [at |-> worker[d].at, what |-> worker[d].what, got |-> worker[d].got]]
      BY DEF Lifetimes, Shape
    <3>2. \A d \in Conn : d # c => worker'[d] = worker[d]
      BY <2>1, <3>1
    <3>3. \/ worker'[c].at = "returning" \/ worker'[c].at = "idle"
          \/ worker'[c].at = "holding" /\ (role = "client" \/ c \in clients)
      BY <2>1, <3>1 DEF Idle
    <3> QED BY <3>2, <3>3
  <2>4. Shape'
    BY <1>1, <2>1, <2>2 DEF Lifetimes, Shape
  <2> QED BY <1>1, <2>1, <2>3, <2>4, WorkerAside
<1> QED BY <1>1, <1>2, <1>3

LEMMA ClosingInPlace == ASSUME Lifetimes, NEW c \in Conn, CloseInPlace(c)
                        PROVE  Lifetimes' /\ UNCHANGED misuse
<1>1. /\ handle[c] \in {"closing", "closed"} /\ Closed(c)
      /\ worker' = [worker EXCEPT ![c].at = "returning"]
      /\ UNCHANGED <<role, clients, accepted, main, misuse>>
  BY DEF CloseInPlace, workerOnly, Lifetimes
<1>2. /\ worker' = [d \in Conn |-> [at |-> worker'[d].at, what |-> worker'[d].what, got |-> worker'[d].got]]
      /\ \A d \in Conn : worker'[d].at \in {"holding", "closing"} => worker'[d].at = worker[d].at
  BY <1>1 DEF Lifetimes, Shape
<1>3. Shape'
  BY <1>1, <1>2 DEF Lifetimes, Shape, Closed
<1> QED BY <1>1, <1>2, <1>3, Freeing

-----------------------------------------------------------------------------

LEMMA LifetimesNext == Lifetimes /\ [Next]_vars => Lifetimes' /\ UNCHANGED misuse
<1> SUFFICES ASSUME Lifetimes, [Next]_vars PROVE Lifetimes' /\ UNCHANGED misuse
  OBVIOUS
<1>1. CASE UNCHANGED vars \/ Interrupt
  <2>1. UNCHANGED <<role, main, accepted, owner, handle, clients, worker, misuse>>
    BY <1>1 DEF vars, Interrupt, mainOnly, connVars, appVars
  <2> QED BY <2>1 DEF Lifetimes, Shape, Ours, Installing
<1>2. CASE Main
  BY <1>2, MainSteps, Connecting, Accepting, InstallingStep, Erasing, ClosingReturns,
     DroppingListener DEF Main
<1>3. ASSUME NEW c \in Conn, Callback(c) PROVE Lifetimes' /\ UNCHANGED misuse
  BY <1>3, Events, Handling, ClosingInPlace DEF Callback
<1>4. ASSUME NEW c \in Conn, Network(c) PROVE Lifetimes' /\ UNCHANGED misuse
  BY <1>4, Events, Queueing DEF Network
<1> QED BY <1>1, <1>2, <1>3, <1>4 DEF Next

LEMMA LifetimesInit == Init => Lifetimes /\ NoUseAfterFree
BY DEF Init, Lifetimes, Shape, Places, At, Idle, Ours, Installing, NoUseAfterFree

\* However many connections come and go, and whoever lets go of one last, main thread or
\* handler, no callback of MsQuic finds its Connection::Impl freed.
THEOREM ImplsOutliveCallbacks == Spec => []NoUseAfterFree
<1>1. Safe /\ [Next]_vars => Safe'
  BY LifetimesNext DEF Safe, NoUseAfterFree
<1>2. Init => Safe
  BY LifetimesInit DEF Safe
<1>3. Safe => NoUseAfterFree
  BY DEF Safe
<1> QED BY <1>1, <1>2, <1>3, PTL DEF Spec

-----------------------------------------------------------------------------
(* The payloads of sends *)

\* A payload is with the caller, for as long as it sends, or with MsQuic, for as
\* long as the connection is open; it is deleted where it is let go of.
Carried ==
    /\ holder = [s \in Send |-> [at |-> holder[s].at, conn |-> holder[s].conn, kind |-> holder[s].kind]]
    /\ freed \in [Send -> Nat] /\ link \in [Conn -> {"new", "up", "ending", "down"}]
    /\ main.at = "send" <=> main.send \in Send
    /\ \A s \in Send :
          /\ holder[s].at \in {"unused", "caller", "opened", "started", "msquic", "freed"}
          /\ holder[s].at # "unused" => holder[s].conn \in Conn
          /\ freed[s] = (IF holder[s].at = "freed" THEN 1 ELSE 0)
          /\ holder[s].at \in {"caller", "opened", "started"} =>
                main.send = s /\ holder[s].conn \in clients
          /\ main.send = s => holder[s].at \in {"caller", "opened", "started", "freed"}
          /\ holder[s].at = "msquic" => handle[holder[s].conn] \in {"open", "closing"}
          /\ main.send = s /\ holder[s].at = "freed" => link[holder[s].conn] = "down"

\* Handles exist between RegistrationOpen and the RegistrationClose that waits for them.
Registered ==
    /\ main.at = "start" => held = {} \/ held = {"api"} \/ "registration" \in held
    /\ main.at \notin {"start", "stop", "done"} => "registration" \in held
    /\ listening => "registration" \in held
    /\ \A c \in Conn : handle[c] # "none" => "registration" \in held \/ main.at = "done"
    /\ main.at = "done" => ~listening /\ \A c \in Conn : handle[c] \notin {"open", "closing"}
    /\ main.at \in {"erase", "closing"} => main.next # "done"

Holding == Lifetimes /\ Carried /\ Registered

\* Steps that move no payload: the sender stays where it is, and only a quiet
\* connection is closed.
LEMMA HoldersAside ==
    ASSUME Lifetimes, Carried, UNCHANGED <<holder, freed>>,
           \/ main' = main /\ clients' = clients
           \/ main.at # "send" /\ main'.at # "send" /\ main'.send \notin Send,
           \A c \in Conn : handle[c] \in {"open", "closing"} =>
              handle'[c] \in {"open", "closing"} \/ Quiet(c),
           link' \in [Conn -> {"new", "up", "ending", "down"}],
           \A c \in Conn : link[c] = "down" => link'[c] = "down"
    PROVE  Carried'
<1>1. \A s \in Send : holder[s].at = "msquic" => ~Quiet(holder[s].conn)
  BY DEF Quiet
<1>2. \A s \in Send : holder[s].at \in {"caller", "opened", "started"} => main.at = "send"
  BY DEF Carried
<1>3. \A s \in Send : main'.send = s => main' = main
  OBVIOUS
<1>4. main'.at = "send" <=> main'.send \in Send
  BY DEF Carried
<1>5. ASSUME NEW s \in Send
      PROVE  /\ holder[s].at \in {"caller", "opened", "started"} =>
                   main'.send = s /\ holder[s].conn \in clients'
             /\ main'.send = s => holder[s].at \in {"caller", "opened", "started", "freed"}
             /\ main'.send = s /\ holder[s].at = "freed" => link'[holder[s].conn] = "down"
  BY <1>2, <1>3 DEF Carried
<1>6. \A s \in Send : holder[s].at = "msquic" => handle'[holder[s].conn] \in {"open", "closing"}
  BY <1>1 DEF Carried
<1> QED BY <1>4, <1>5, <1>6 DEF Carried

LEMMA CarriedByMain ==
    ASSUME Lifetimes, Carried,
           \/ Acquire \/ StartListener \/ Connect \/ AcceptOne \/ Install \/ Erase \/ CloseReturns
           \/ Leave \/ DropClients \/ DropListener \/ Stop
           \/ \E c \in Conn : Reap(c)
    PROVE  Carried'
<1>1. UNCHANGED <<holder, freed, link>> /\ link' \in [Conn -> {"new", "up", "ending", "down"}]
  BY DEF Acquire, StartListener, Connect, AcceptOne, Install, Erase, CloseReturns, Leave, DropClients,
         DropListener, Stop, Reap, mainOnly, Carried
<1>2. Nothing \notin Send /\ (main.send \notin Send \/ main.at = "send")
  BY NothingAssumption DEF Carried
<1>3. main = [at |-> main.at, conn |-> main.conn, send |-> main.send, next |-> main.next]
      /\ main.next \in {"done", "loop", "dropClients", "dropListener"}
  BY DEF Lifetimes, Shape
<1>4. /\ handle \in [Conn -> {"none", "open", "closing", "closed"}]
  BY DEF Lifetimes, Shape
<1>5. CASE Acquire \/ StartListener \/ Leave \/ DropClients \/ Stop \/ \E c \in Conn : Reap(c)
  <2>1. main.at # "send" /\ main'.at # "send" /\ main'.send \notin Send
    <3>1. CASE Acquire
      BY <1>2, <1>3, <3>1 DEF Acquire, At
    <3>2. CASE StartListener \/ Leave \/ Stop
      BY <1>2, <3>2 DEF StartListener, Leave, Stop, At
    <3>3. CASE DropClients
      <4>1. main.at = "dropClients"
            /\ \/ main' = At("dropListener")
               \/ \E c : main' = [at |-> "erase", conn |-> c, send |-> Nothing, next |-> "dropClients"]
        BY <3>3 DEF DropClients, At
      <4> QED BY <1>2, <4>1 DEF At
    <3>4. ASSUME NEW c \in Conn, Reap(c) PROVE  main.at # "send" /\ main'.at # "send" /\ main'.send \notin Send
      <4>1. main' = [at |-> "erase", conn |-> c, send |-> Nothing, next |-> "loop"] /\ main.at = "loop"
        BY <3>4 DEF Reap, At
      <4> QED BY <1>2, <4>1
    <3> QED BY <1>5, <3>1, <3>2, <3>3, <3>4
  <2>2. UNCHANGED handle
    BY <1>5 DEF Acquire, StartListener, Leave, DropClients, Stop, Reap, connVars
  <2> QED BY <1>1, <2>1, <2>2, HoldersAside
<1>6. CASE Connect \/ AcceptOne \/ DropListener
  <2>1. main.at # "send" /\ main'.at # "send" /\ main'.send \notin Send
    <3>1. main.at # "send"
          /\ \/ main' = At("stop")
             \/ \E c : main' = [at |-> "install", conn |-> c, send |-> Nothing, next |-> "done"]
             \/ \E c : main' = [at |-> "closing", conn |-> c, send |-> Nothing, next |-> "dropListener"]
      BY <1>6 DEF Connect, AcceptOne, DropListener, Unaccepted, DropAccepted, At
    <3> QED BY <1>2, <3>1 DEF At
  <2>2. \/ UNCHANGED handle
        \/ \E c : handle' = [handle EXCEPT ![c] = "open"]
        \/ \E c : handle' = [handle EXCEPT ![c] = "closing"]
    BY <1>6 DEF Connect, AcceptOne, DropListener, Unaccepted, DropAccepted
  <2>3. \A c \in Conn : handle[c] \in {"open", "closing"} => handle'[c] \in {"open", "closing"}
    BY <1>4, <2>2
  <2> QED BY <1>1, <2>1, <2>3, HoldersAside
<1>7. CASE Install
  <2>1. /\ UNCHANGED handle /\ main.at = "install"
        /\ UNCHANGED <<main, clients>> \/ main' = At("loop")
    BY <1>7 DEF Install
  <2> QED BY <1>1, <1>2, <2>1, HoldersAside DEF At
<1>8. CASE Erase
  <2>1. /\ main.at = "erase"
        /\ \/ main' = At(main.next) /\ UNCHANGED handle
           \/ main' = [main EXCEPT !.at = "closing"] /\ \E c : handle' = [handle EXCEPT ![c] = "closing"]
    BY <1>8 DEF Erase
  <2>2. main'.at # "send" /\ main'.send \notin Send
    BY <1>2, <1>3, <2>1 DEF At
  <2>3. \A c \in Conn : handle[c] \in {"open", "closing"} => handle'[c] \in {"open", "closing"}
    BY <1>4, <2>1
  <2> QED BY <1>1, <2>1, <2>2, <2>3, HoldersAside
<1>9. CASE CloseReturns
  <2>1. main.at = "closing" /\ main' = At(main.next)
        /\ Quiet(main.conn) /\ handle' = [handle EXCEPT ![main.conn] = "closed"]
    BY <1>9 DEF CloseReturns, Closed
  <2>2. main'.at # "send" /\ main'.send \notin Send
    BY <1>2, <1>3, <2>1 DEF At
  <2>3. \A c \in Conn : handle'[c] = handle[c] \/ Quiet(c)
    BY <1>4, <2>1
  <2> QED BY <1>1, <2>1, <2>2, <2>3, HoldersAside
<1> QED BY <1>5, <1>6, <1>7, <1>8, <1>9

LEMMA CarriedBySends ==
    ASSUME Lifetimes, Carried,
           SendStep \/ \E c \in Conn, s \in Send, k \in Kind : BeginSend(c, s, k)
    PROVE  Carried'
<1>1. UNCHANGED <<link, handle, clients>>
  BY DEF SendStep, BeginSend, mainOnly, connVars, appVars
<1>2. Nothing \notin Send
  BY NothingAssumption
<1>3. ASSUME NEW c \in Conn, NEW s \in Send, NEW k \in Kind, BeginSend(c, s, k) PROVE Carried'
  <2>1. /\ main.at = "loop" /\ c \in clients /\ holder[s].at = "unused" /\ freed' = freed
        /\ holder' = [holder EXCEPT ![s] = [at |-> "caller", conn |-> c, kind |-> k]]
        /\ main' = [at |-> "send", conn |-> Nothing, send |-> s, next |-> "done"]
    BY <1>3 DEF BeginSend, At
  <2>2. holder'[s] = [at |-> "caller", conn |-> c, kind |-> k]
        /\ \A x \in Send : x # s => holder'[x] = holder[x]
    BY <2>1 DEF Carried
  <2>3. holder' = [x \in Send |-> [at |-> holder'[x].at, conn |-> holder'[x].conn, kind |-> holder'[x].kind]]
    BY <2>1 DEF Carried
  <2>4. main.send \notin Send /\ \A x \in Send : holder[x].at \notin {"caller", "opened", "started"}
    BY <2>1 DEF Carried
  <2>5. main'.at = "send" /\ main'.send = s
    BY <2>1
  <2>6. \A x \in Send : freed'[x] = (IF holder'[x].at = "freed" THEN 1 ELSE 0)
    BY <2>1, <2>2 DEF Carried
  <2>7. \A x \in Send :
           /\ holder'[x].at \in {"unused", "caller", "opened", "started", "msquic", "freed"}
           /\ holder'[x].at # "unused" => holder'[x].conn \in Conn
           /\ holder'[x].at \in {"caller", "opened", "started"} => x = s /\ holder'[x].conn \in clients
           /\ holder'[x].at = "msquic" => handle[holder'[x].conn] \in {"open", "closing"}
    BY <2>1, <2>2, <2>4 DEF Carried
  <2> QED BY <1>1, <2>1, <2>2, <2>3, <2>5, <2>6, <2>7 DEF Carried
<1>4. CASE SendStep
  <2>1. PICK s : s = main.send
    OBVIOUS
  <2>2. s \in Send /\ main.at = "send" /\ holder[s].conn \in Conn
    BY <1>4, <2>1 DEF SendStep, Carried
  <2>3. PICK at \in {"opened", "started", "msquic", "freed"} :
           /\ holder' = [holder EXCEPT ![s].at = at] \/ (UNCHANGED holder /\ at = holder[s].at)
           /\ holder[s].at \in {"caller", "opened", "started", "freed"}
           /\ IF at = "freed" /\ holder[s].at # "freed" THEN freed' = [freed EXCEPT ![s] = @ + 1]
              ELSE freed' = freed
           /\ holder[s].at = "freed" => at = "freed"
           /\ \/ main' = At("loop")
              \/ UNCHANGED main /\ at \in {"opened", "started"}
           /\ at \in {"opened", "started"} => UNCHANGED main
    <3>1. CASE holder[s].at \in {"caller", "opened"} /\ Refused(s) /\ main' = At("loop")
      BY <3>1 DEF Refused, Deletes
    <3>2. CASE /\ holder[s].at = "caller" /\ holder' = [holder EXCEPT ![s].at = "msquic"]
               /\ main' = At("loop") /\ UNCHANGED freed
      BY <3>2
    <3>3. CASE /\ holder[s].at \in {"caller", "opened"} /\ UNCHANGED <<main, freed>>
               /\ holder' = [holder EXCEPT ![s].at = IF @ = "caller" THEN "opened" ELSE "started"]
      BY <3>3
    <3>4. CASE /\ holder[s].at = "started" /\ main' = At("loop")
               /\ holder' = [holder EXCEPT ![s].at = "msquic"] /\ UNCHANGED freed
      BY <3>4
    <3>5. CASE holder[s].at = "freed" /\ main' = At("loop") /\ UNCHANGED <<holder, freed>>
      BY <3>5
    <3> QED BY <1>4, <2>1, <3>1, <3>2, <3>3, <3>4, <3>5 DEF SendStep, Abort, SendFails
  <2>4. holder[s].at \in {"caller", "opened", "started"} =>
           holder[s].conn \in clients /\ handle[holder[s].conn] = "open"
    BY <2>2 DEF Carried, Lifetimes, Ours
  <2>5. /\ holder'[s].at = at /\ holder'[s].conn = holder[s].conn
        /\ \A x \in Send : x # s => holder'[x] = holder[x]
        /\ holder' = [x \in Send |-> [at |-> holder'[x].at, conn |-> holder'[x].conn,
                                      kind |-> holder'[x].kind]]
    BY <2>2, <2>3 DEF Carried
  <2>6. freed' \in [Send -> Nat] /\ \A x \in Send :
           freed'[x] = (IF holder'[x].at = "freed" THEN 1 ELSE 0)
    BY <2>2, <2>3, <2>5 DEF Carried
  <2>7. main'.at = "send" <=> main'.send \in Send
    BY <1>2, <2>3 DEF At, Carried
  <2>8. \A x \in Send : x # s => holder[x].at \notin {"caller", "opened", "started"}
    BY <2>1 DEF Carried
  <2>9. \A x \in Send : main'.send = x => x = s /\ main' = main
    BY <1>2, <2>1, <2>3 DEF At
  <2>10. \A x \in Send :
            /\ holder'[x].at \in {"unused", "caller", "opened", "started", "msquic", "freed"}
            /\ holder'[x].at # "unused" => holder'[x].conn \in Conn
            /\ holder'[x].at \in {"caller", "opened", "started"} =>
                  main'.send = x /\ holder'[x].conn \in clients'
            /\ main'.send = x => holder'[x].at \in {"caller", "opened", "started", "freed"}
    BY <1>1, <1>2, <2>1, <2>2, <2>3, <2>4, <2>5, <2>8, <2>9 DEF Carried, At
  <2>11. \A x \in Send : holder'[x].at = "msquic" => handle'[holder'[x].conn] \in {"open", "closing"}
    BY <1>1, <2>3, <2>4, <2>5 DEF Carried
  <2>12. \A x \in Send : main'.send = x /\ holder'[x].at = "freed" => link'[holder'[x].conn] = "down"
    <3>1. UNCHANGED main => at \in {"opened", "started"}
      BY <2>2, <2>3 DEF At
    <3> QED BY <2>5, <2>9, <3>1
  <2> QED BY <1>1, <2>5, <2>6, <2>7, <2>10, <2>11, <2>12 DEF Carried
<1> QED BY <1>3, <1>4

LEMMA CarriedByWorkers ==
    ASSUME Lifetimes, Carried, NEW c \in Conn, Callback(c) \/ Network(c)
    PROVE  Carried'
<1>1. main' = main /\ clients' = clients
  BY DEF Callback, Network, Invoke, Deliver, CloseInPlace, Return, StreamShutdownComplete, SendEnds,
         NewConnection, Connected, ShutdownStarted, ShutdownComplete, DatagramReceived,
         PeerStreamStarted, Receive, PeerSendShutdown, workerOnly
<1>2. /\ handle \in [Conn -> {"none", "open", "closing", "closed"}]
      /\ link \in [Conn -> {"new", "up", "ending", "down"}]
  BY DEF Lifetimes, Shape, Carried
<1>3. CASE \/ Connected(c) \/ ShutdownStarted(c) \/ ShutdownComplete(c)
  <2>1. /\ UNCHANGED <<holder, freed, handle>>
        /\ \/ link[c] # "down" /\ link' = [link EXCEPT ![c] = "up"]
           \/ link[c] # "down" /\ link' = [link EXCEPT ![c] = "ending"]
           \/ link' = [link EXCEPT ![c] = "down"]
    BY <1>3 DEF Connected, ShutdownStarted, ShutdownComplete
  <2>2. /\ link' \in [Conn -> {"new", "up", "ending", "down"}]
        /\ \A d \in Conn : link[d] = "down" => link'[d] = "down"
    BY <1>2, <2>1
  <2> QED BY <1>1, <2>1, <2>2, HoldersAside
<1>4. CASE \/ \E d \in Datagram : DatagramReceived(c, d)
           \/ \E m \in Message : \/ PeerStreamStarted(c, m) \/ Receive(c, m)
                                  \/ PeerSendShutdown(c, m) \/ StreamShutdownComplete(c, m)
           \/ Invoke(c) \/ Return(c)
  <2>1. UNCHANGED <<holder, freed, handle, link>>
    BY <1>4 DEF DatagramReceived, PeerStreamStarted, Receive, PeerSendShutdown, StreamShutdownComplete,
                Invoke, Return, connVars
  <2> QED BY <1>1, <1>2, <2>1, HoldersAside
<1>5. CASE NewConnection(c) \/ Deliver(c) \/ CloseInPlace(c)
  <2>1. /\ UNCHANGED <<holder, freed, link>>
        /\ \/ UNCHANGED handle
           \/ handle' = [handle EXCEPT ![c] = "open"] \/ handle' = [handle EXCEPT ![c] = "closing"]
           \/ handle' = [handle EXCEPT ![c] = "closed"] /\ Quiet(c)
    BY <1>5 DEF NewConnection, Deliver, CloseInPlace, Closed
  <2>2. \A d \in Conn : handle[d] \in {"open", "closing"} =>
                          handle'[d] \in {"open", "closing"} \/ Quiet(d)
    BY <1>2, <2>1
  <2> QED BY <1>1, <1>2, <2>1, <2>2, HoldersAside
<1>6. ASSUME NEW s \in Send, holder[s].conn = c, SendEnds(s) PROVE Carried'
  <2>1. /\ holder[s].at \in {"started", "msquic"} /\ (holder[s].at = "started" => link[c] = "down")
        /\ holder' = [holder EXCEPT ![s].at = "freed"] /\ freed' = [freed EXCEPT ![s] = @ + 1]
        /\ UNCHANGED <<handle, link>>
    BY <1>6 DEF SendEnds, Deletes, connVars
  <2>2. /\ holder'[s].at = "freed" /\ holder'[s].conn = c
        /\ \A x \in Send : x # s => holder'[x] = holder[x]
        /\ holder' = [x \in Send |-> [at |-> holder'[x].at, conn |-> holder'[x].conn,
                                      kind |-> holder'[x].kind]]
    BY <1>6, <2>1 DEF Carried
  <2>3. freed' \in [Send -> Nat] /\ \A x \in Send :
           freed'[x] = (IF holder'[x].at = "freed" THEN 1 ELSE 0)
    BY <2>1, <2>2 DEF Carried
  <2>4. main.send = s => holder[s].at = "started"
    BY <2>1 DEF Carried
  <2> QED BY <1>1, <2>1, <2>2, <2>3, <2>4 DEF Carried
<1> QED BY <1>3, <1>4, <1>5, <1>6 DEF Callback, Network

-----------------------------------------------------------------------------
(* The registration *)

LEMMA Registering ==
    ASSUME Lifetimes, Registered, Acquire
    PROVE  Registered'
<1>1. main.at = "start" /\ UNCHANGED <<handle, listening>>
  BY DEF Acquire, connVars
<1>2. /\ Len(Resources) \in {3, 5} /\ Resources[1] = "api" /\ Resources[2] = "registration"
  BY DEF Resources
<1>3. Cardinality({}) = 0 /\ Cardinality({"api"}) = 1 /\ Cardinality({"api", "registration"}) = 2
  <2>1. Cardinality({}) = 0 /\ Cardinality({"api"}) = 1 /\ IsFiniteSet({"api"})
    BY FS_EmptySet, FS_Singleton
  <2>2. {"api", "registration"} = {"api"} \cup {"registration"} /\ "registration" \notin {"api"}
    OBVIOUS
  <2>3. Cardinality({"api"} \cup {"registration"}) = 2
    BY <2>1, <2>2, FS_AddElement
  <2> QED BY <2>1, <2>2, <2>3
<1>4. held \subseteq held'
  BY DEF Acquire
<1>5. main'.at \in {"start", "listen", "connect", "stop"}
  BY <1>1 DEF Acquire, At
<1>6. CASE "registration" \in held
  BY <1>1, <1>4, <1>5, <1>6 DEF Registered
<1>7. CASE "registration" \notin held
  <2>1. held = {} \/ held = {"api"}
    BY <1>1, <1>7 DEF Registered
  <2>2. \/ main'.at = "stop"
        \/ /\ held' = held \cup {Resources[Cardinality(held) + 1]}
           /\ Cardinality(held') < Len(Resources) => main'.at = "start"
    BY <1>1 DEF Acquire, At
  <2>3. CASE held = {}
    <3>1. Resources[Cardinality(held) + 1] = "api"
      BY <1>2, <1>3, <2>3
    <3>2. CASE main'.at = "stop"
      BY <1>1, <1>4, <1>7, <3>2 DEF Registered
    <3>3. CASE held' = held \cup {Resources[Cardinality(held) + 1]}
               /\ (Cardinality(held') < Len(Resources) => main'.at = "start")
      <4>1. held' = {"api"}
        BY <2>3, <3>1, <3>3
      <4>2. Cardinality(held') < Len(Resources)
        BY <1>2, <1>3, <4>1
      <4> QED BY <1>1, <1>7, <3>3, <4>1, <4>2 DEF Registered
    <3> QED BY <2>2, <3>2, <3>3
  <2>4. CASE held = {"api"}
    <3>1. Resources[Cardinality(held) + 1] = "registration"
      BY <1>2, <1>3, <2>4
    <3>2. main'.at = "stop" \/ "registration" \in held'
      BY <2>2, <3>1
    <3> QED BY <1>1, <1>5, <1>7, <3>2 DEF Registered
  <2> QED BY <2>1, <2>3, <2>4
<1> QED BY <1>6, <1>7

\* Past the start and short of the end, the registration is there for every step.
LEMMA RegisteredRunning ==
    ASSUME Registered, UNCHANGED held, main.at \notin {"start", "stop", "done"},
           main'.at \notin {"start", "done"},
           main'.at \in {"erase", "closing"} => main'.next # "done"
    PROVE  Registered'
BY DEF Registered

LEMMA RegisteredByMain ==
    ASSUME Lifetimes, Registered, Main
    PROVE  Registered'
<1>1. CASE Acquire
  BY <1>1, Registering
<1>2. CASE Stop
  <2>1. /\ main.at = "stop" /\ held' = {} /\ UNCHANGED <<listening, handle>>
        /\ main' = [at |-> "done", conn |-> Nothing, send |-> Nothing, next |-> "done"]
        /\ "registration" \in held => ~listening /\ \A c \in Conn : handle[c] \notin {"open", "closing"}
    BY <1>2 DEF Stop, connVars, At
  <2>2. ~listening /\ \A c \in Conn : handle[c] \notin {"open", "closing"}
    BY <2>1 DEF Registered
  <2> QED BY <2>1, <2>2 DEF Registered
<1>3. CASE StartListener \/ Leave \/ SendStep
  <2>1. /\ main.at \in {"listen", "loop", "send"} /\ UNCHANGED held
        /\ UNCHANGED main \/ \E p \in {"loop", "stop", "dropClients"} : main' = At(p)
    BY <1>3 DEF StartListener, Leave, SendStep, setupVars
  <2> QED BY <2>1, RegisteredRunning DEF At
<1>4. CASE Connect \/ AcceptOne \/ Install
  <2>1. /\ main.at \in {"connect", "loop", "install"} /\ UNCHANGED held
        /\ \/ UNCHANGED main \/ main' = At("stop") \/ main' = At("loop")
           \/ \E c : main' = [at |-> "install", conn |-> c, send |-> Nothing, next |-> "done"]
    BY <1>4 DEF Connect, AcceptOne, Install, setupVars, At
  <2> QED BY <2>1, RegisteredRunning DEF At
<1>5. CASE DropClients \/ DropListener
  <2>1. /\ main.at \in {"dropClients", "dropListener"} /\ UNCHANGED held
        /\ \/ main' = At("stop") \/ main' = At("dropListener")
           \/ \E c : main' = [at |-> "erase", conn |-> c, send |-> Nothing, next |-> "dropClients"]
           \/ \E c : main' = [at |-> "closing", conn |-> c, send |-> Nothing, next |-> "dropListener"]
    BY <1>5 DEF DropClients, DropListener, Unaccepted, DropAccepted, setupVars, At
  <2> QED BY <2>1, RegisteredRunning DEF At
<1>6. CASE Erase \/ CloseReturns
  <2>1. /\ main.at \in {"erase", "closing"} /\ UNCHANGED held
        /\ main' = At(main.next) \/ main' = [main EXCEPT !.at = "closing"]
    BY <1>6 DEF Erase, CloseReturns, setupVars
  <2>2. main.next \in {"loop", "dropClients", "dropListener"}
        /\ main = [at |-> main.at, conn |-> main.conn, send |-> main.send, next |-> main.next]
    BY <2>1 DEF Registered, Lifetimes, Shape
  <2> QED BY <2>1, <2>2, RegisteredRunning DEF At
<1>7. ASSUME NEW c \in Conn, NEW s \in Send, NEW k \in Kind, BeginSend(c, s, k) PROVE Registered'
  <2>1. /\ main.at = "loop" /\ UNCHANGED held
        /\ main' = [at |-> "send", conn |-> Nothing, send |-> s, next |-> "done"]
    BY <1>7 DEF BeginSend, setupVars, At
  <2> QED BY <2>1, RegisteredRunning
<1>8. ASSUME NEW c \in Conn, Reap(c) PROVE Registered'
  <2>1. /\ main.at = "loop" /\ UNCHANGED held
        /\ main' = [at |-> "erase", conn |-> c, send |-> Nothing, next |-> "loop"]
    BY <1>8 DEF Reap, setupVars, At
  <2> QED BY <2>1, RegisteredRunning
<1> QED BY <1>1, <1>2, <1>3, <1>4, <1>5, <1>6, <1>7, <1>8 DEF Main

\* A worker opens a handle only for the listener, and closes only what is open.
LEMMA RegisteredByWorkers ==
    ASSUME Lifetimes, Registered, NEW c \in Conn, Callback(c) \/ Network(c)
    PROVE  Registered'
<1>1. UNCHANGED <<main, held, listening>>
  BY DEF Callback, Network, Invoke, Deliver, CloseInPlace, Return, StreamShutdownComplete, SendEnds,
         NewConnection, Connected, ShutdownStarted, ShutdownComplete, DatagramReceived,
         PeerStreamStarted, Receive, PeerSendShutdown, workerOnly, setupVars
<1>2. handle \in [Conn -> {"none", "open", "closing", "closed"}]
  BY DEF Lifetimes, Shape
<1>3. \/ UNCHANGED handle
      \/ handle' = [handle EXCEPT ![c] = "open"] /\ listening
      \/ handle' = [handle EXCEPT ![c] = "closing"] /\ handle[c] = "open"
      \/ handle' = [handle EXCEPT ![c] = "closed"] /\ handle[c] \in {"closing", "closed"}
  <2>1. CASE NewConnection(c)
    BY <2>1 DEF NewConnection
  <2>2. CASE Deliver(c)
    BY <2>2 DEF Deliver, Lifetimes, Ours
  <2>3. CASE CloseInPlace(c)
    BY <2>3 DEF CloseInPlace, Closed, Lifetimes
  <2>4. CASE \/ Invoke(c) \/ Return(c) \/ Connected(c) \/ ShutdownStarted(c) \/ ShutdownComplete(c)
             \/ \E d \in Datagram : DatagramReceived(c, d)
             \/ \E m \in Message : \/ PeerStreamStarted(c, m) \/ Receive(c, m)
                                    \/ PeerSendShutdown(c, m) \/ StreamShutdownComplete(c, m)
             \/ \E s \in Send : SendEnds(s)
    BY <2>4 DEF Invoke, Return, Connected, ShutdownStarted, ShutdownComplete, DatagramReceived,
                PeerStreamStarted, Receive, PeerSendShutdown, StreamShutdownComplete, SendEnds, connVars
  <2> QED BY <2>1, <2>2, <2>3, <2>4 DEF Callback, Network
<1>4. \A d \in Conn :
         /\ handle'[d] # "none" => handle[d] # "none" \/ listening
         /\ handle'[d] \in {"open", "closing"} => handle[d] \in {"open", "closing"} \/ listening
  BY <1>2, <1>3
<1> QED BY <1>1, <1>4 DEF Registered

-----------------------------------------------------------------------------

LEMMA HoldingInit == Init => Holding
<1> SUFFICES ASSUME Init PROVE Holding
  OBVIOUS
<1>1. Carried
  BY NothingAssumption DEF Init, Carried, At, Unused
<1>2. Registered
  BY DEF Init, Registered, At
<1> QED BY <1>1, <1>2, LifetimesInit DEF Holding

LEMMA HoldingNext == Holding /\ [Next]_vars => Holding'
<1> SUFFICES ASSUME Lifetimes, Carried, Registered, [Next]_vars PROVE Carried' /\ Registered'
  BY LifetimesNext DEF Holding
<1>1. CASE UNCHANGED <<vars>> \/ Interrupt
  <2>1. UNCHANGED <<holder, freed, link, main, clients, handle, held, listening>>
    BY <1>1 DEF vars, Interrupt, mainOnly, connVars, appVars, setupVars
  <2> QED BY <2>1 DEF Carried, Registered
<1>2. CASE Main
  <2>1. Carried'
    BY <1>2, CarriedByMain, CarriedBySends DEF Main
  <2> QED BY <1>2, <2>1, RegisteredByMain
<1>3. ASSUME NEW c \in Conn, Callback(c) \/ Network(c) PROVE Carried' /\ Registered'
  BY <1>3, CarriedByWorkers, RegisteredByWorkers
<1> QED BY <1>1, <1>2, <1>3 DEF Next

LEMMA HoldingFrees == Holding => HoldersFreed
BY DEF Holding, Carried, Registered, HoldersFreed

\* The payload of every send is deleted exactly once: by the caller when MsQuic refuses it,
\* by the callback that ends it otherwise, never by both, and the process does not end before.
THEOREM HoldersAreFreed == Spec => []HoldersFreed
BY HoldingInit, HoldingNext, HoldingFrees, PTL DEF Spec

-----------------------------------------------------------------------------
(* Messages *)

\* Not in the vector, and never was.
Untouched(c) == owner[c] \in {"nobody", "queue"} \/ (Installing(c) /\ c \notin clients)

Fresh(c) == met[c] = {} /\ handlers[c] = {}

\* A callback holds what it met, whole, and nobody was handed it yet.
InHand(c) ==
    /\ worker[c].what \in met[c] /\ worker[c].got = SegmentCount
    /\ \A i \in DOMAIN handed[c] : handed[c][i].what # worker[c].what

\* Until it is in the vector a connection has no handler, so meets nothing; a
\* stream that may still end has not been met; and what was met was handed
\* over, is in hand, or is lost with the client.
Story(c) ==
    /\ Untouched(c) => Fresh(c)
    /\ worker[c].at \in {"copied", "holding"} => InHand(c)
    /\ \A m \in Message : stream[c][m].at \in {"none", "open"} => m \notin met[c]
    /\ \A i \in DOMAIN handed[c] :
          /\ handed[c][i].got = SegmentCount /\ handed[c][i].what \in met[c]
          /\ \A j \in DOMAIN handed[c] : handed[c][i].what = handed[c][j].what => i = j
    /\ \A x \in met[c] :
          \/ \E i \in DOMAIN handed[c] : handed[c][i].what = x
          \/ worker[c].what = x /\ worker[c].at \in {"copied", "holding"}
          \/ c \in dead \/ c \notin clients

MessageTypeOK ==
    /\ met \in [Conn -> SUBSET (Message \cup Datagram)]
    /\ handlers \in [Conn -> SUBSET Kind]
    /\ stream \in [Conn -> [Message -> [at : {"none", "open", "fin", "done"}, got : Nat]]]
    /\ handed \in [Conn -> Seq([what : Message \cup Datagram, got : Nat])]

Stories ==
    /\ Lifetimes /\ MessageTypeOK
    /\ role = "client" /\ main.at \in {"start", "connect"} => \A c \in Conn : owner[c] = "nobody"
    /\ role = "client" /\ main.at = "install" => main.conn \in clients
    /\ \A c \in Conn : Story(c)

LEMMA StoriesInit == Init => Stories
<1> SUFFICES ASSUME Init PROVE Stories
  OBVIOUS
<1>1. MessageTypeOK
  BY DEF Init, MessageTypeOK
<1>2. \A c \in Conn : Story(c)
  BY DEF Init, Story, Fresh, Idle
<1> QED BY <1>1, <1>2, LifetimesInit DEF Init, Stories, At

\* Nothing is met and nothing handed over: the story stays, unless the client
\* joins the vector or its connection is touched.
LEMMA StoryAside ==
    ASSUME NEW c \in Conn, Story(c), met'[c] = met[c], handed'[c] = handed[c],
           worker'[c] = worker[c], dead \subseteq dead',
           \A m \in Message : stream'[c][m].at \in {"none", "open"} => stream[c][m].at \in {"none", "open"},
           Untouched(c)' => Untouched(c) /\ handlers'[c] \subseteq handlers[c],
           c \in clients' => c \in clients \/ Untouched(c)
    PROVE  Story(c)'
<1>1. Untouched(c)' => Fresh(c)'
  BY DEF Story, Fresh
<1>2. InHand(c) => InHand(c)'
  BY DEF InHand
<1>3. c \in clients' /\ c \notin clients => met[c] = {}
  BY DEF Story, Fresh
<1> QED BY <1>1, <1>2, <1>3 DEF Story

LEMMA StoriesByMain ==
    ASSUME Stories, Lifetimes', Main \/ Interrupt
    PROVE  Stories'
<1> USE DEF Kind
<1>1. /\ UNCHANGED <<role, met, handed, worker, stream>> /\ dead \subseteq dead'
  BY DEF Main, Interrupt, Acquire, StartListener, Connect, AcceptOne, Install, BeginSend, SendStep,
         Reap, Erase, CloseReturns, Leave, DropClients, DropListener, Stop, mainOnly, connVars, appVars
<1>2. /\ Lifetimes /\ MessageTypeOK /\ owner \in [Conn -> {"nobody", "queue", "app", "freed"}]
      /\ clients \subseteq Conn /\ \A c \in Conn : Story(c)
  BY DEF Stories, Lifetimes, Shape
<1> DEFINE Aside == /\ handlers' \in [Conn -> SUBSET Kind]
                    /\ \A c \in Conn :
                          /\ Untouched(c)' => Untouched(c) /\ handlers'[c] \subseteq handlers[c]
                          /\ c \in clients' => c \in clients \/ Untouched(c)
           Before == /\ role' = "client" /\ main'.at \in {"start", "connect"} =>
                           \A c \in Conn : owner'[c] = "nobody"
                     /\ role' = "client" /\ main'.at = "install" => main'.conn \in clients'
<1>3. ASSUME \/ Acquire \/ StartListener \/ SendStep \/ DropClients \/ Stop \/ Interrupt
             \/ \E c \in Conn, s \in Send, k \in Kind : BeginSend(c, s, k)
      PROVE  Aside /\ Before
  <2>1. UNCHANGED <<owner, clients, handlers>>
    BY <1>3 DEF Acquire, StartListener, SendStep, DropClients, Stop, Interrupt, BeginSend, connVars, appVars
  <2>2. main' = main \/ main'.at \notin {"install", "start", "connect"}
        \/ (main'.at = "connect" /\ main.at = "start")
    <3>1. CASE Acquire
      BY <3>1 DEF Acquire, At
    <3>2. CASE StartListener \/ Stop
      BY <3>2 DEF StartListener, Stop, At
    <3>3. CASE DropClients
      <4>1. main'.at \in {"dropListener", "erase"}
        BY <3>3 DEF DropClients, At
      <4> QED BY <4>1
    <3>4. CASE SendStep
      <4>1. main' = main \/ main' = At("loop")
        BY <3>4 DEF SendStep
      <4> QED BY <4>1 DEF At
    <3>5. CASE Interrupt \/ \E c \in Conn, s \in Send, k \in Kind : BeginSend(c, s, k)
      BY <3>5 DEF Interrupt, BeginSend, At
    <3> QED BY <1>3, <3>1, <3>2, <3>3, <3>4, <3>5
  <2>3. Aside
    BY <1>2, <2>1, <2>2 DEF MessageTypeOK, Untouched, Installing
  <2>4. Before
    BY <1>1, <2>1, <2>2 DEF Stories
  <2> QED BY <2>3, <2>4
<1>4. ASSUME Leave \/ \E c \in Conn : Reap(c) PROVE Aside /\ Before
  <2>1. UNCHANGED <<owner, clients>>
    BY <1>4 DEF Leave, Reap, appVars
  <2>2. main'.at \notin {"install", "start", "connect"}
    <3>1. CASE Leave
      BY <3>1 DEF Leave, At
    <3>2. CASE \E c \in Conn : Reap(c)
      BY <3>2 DEF Reap, At
    <3> QED BY <1>4, <3>1, <3>2
  <2>3. handlers' \in [Conn -> SUBSET Kind] /\ \A c \in Conn : handlers'[c] \subseteq handlers[c]
    <3>1. CASE Leave
      <4>1. handlers' = [c \in Conn |-> handlers[c] \ {"datagram"}] \/ handlers' = handlers
        BY <3>1 DEF Leave
      <4> QED BY <1>2, <4>1 DEF MessageTypeOK
    <3>2. CASE \E c \in Conn : Reap(c)
      <4>1. PICK c \in Conn : handlers' = [handlers EXCEPT ![c] = @ \ {"reliable"}]
        BY <3>2 DEF Reap
      <4> QED BY <1>2, <4>1 DEF MessageTypeOK
    <3> QED BY <1>4, <3>1, <3>2
  <2> QED BY <2>1, <2>2, <2>3 DEF Untouched, Installing
<1>5. ASSUME Connect PROVE Aside /\ Before
  <2>1. role = "client" /\ \A c \in Conn : owner[c] = "nobody"
    BY <1>2, <1>5 DEF Connect, Stories, Lifetimes, Shape
  <2>2. CASE main' = At("stop") /\ UNCHANGED <<owner, handle, clients>>
    BY <1>2, <1>5, <2>2 DEF Connect, At, MessageTypeOK, Untouched, Installing
  <2>3. ASSUME NEW c \in Conn, owner' = [owner EXCEPT ![c] = "app"], clients' = {c},
               main' = [At("install") EXCEPT !.conn = c]
        PROVE  Aside /\ Before
    <3>1. main'.at = "install" /\ main'.conn = c /\ handlers' = handlers
      BY <1>5, <2>3 DEF Connect, At
    <3> QED BY <1>2, <2>1, <2>3, <3>1 DEF MessageTypeOK, Untouched, Installing
  <2> QED BY <1>5, <2>2, <2>3 DEF Connect
<1>6. ASSUME AcceptOne PROVE Aside /\ Before
  <2>1. PICK c : c = Head(accepted)
    OBVIOUS
  <2>2. /\ c \in Conn /\ owner[c] = "queue" /\ role = "server"
        /\ owner' = [owner EXCEPT ![c] = "app"] /\ UNCHANGED <<clients, handlers>>
        /\ main' = [At("install") EXCEPT !.conn = c]
    BY <1>2, <1>6, <2>1 DEF AcceptOne, Lifetimes, Shape, appVars
  <2>3. main'.at = "install" /\ main'.conn = c
    BY <2>2 DEF At
  <2> QED BY <1>1, <1>2, <2>2, <2>3 DEF MessageTypeOK, Untouched, Installing
<1>7. ASSUME Install PROVE Aside /\ Before
  <2>1. PICK c \in Conn : c = main.conn /\ owner[c] = "app" /\ (role = "client" => c \in clients)
    BY <1>2, <1>7 DEF Install, Lifetimes, Ours, Stories
  <2>2. /\ UNCHANGED owner /\ main.at = "install"
        /\ \E k \in Kind : handlers' = [handlers EXCEPT ![c] = @ \cup {k}]
        /\ \/ UNCHANGED <<main, clients>> /\ role = "client"
           \/ main' = At("loop") /\ clients' = clients \cup {c}
    BY <1>7, <2>1 DEF Install
  <2>3. handlers' \in [Conn -> SUBSET Kind] /\ \A d \in Conn : d # c => handlers'[d] = handlers[d]
    BY <1>2, <2>2 DEF MessageTypeOK
  <2>4. c \in clients' /\ owner'[c] = "app"
    BY <2>1, <2>2
  <2>5. CASE UNCHANGED <<main, clients>> /\ role = "client"
    BY <1>1, <2>1, <2>2, <2>3, <2>4, <2>5 DEF Untouched, Installing
  <2>6. CASE main' = At("loop") /\ clients' = clients \cup {c}
    <3>1. main'.at = "loop"
      BY <2>6 DEF At
    <3>2. c \in clients \/ Untouched(c)
      BY <2>1, <2>2 DEF Untouched, Installing
    <3> QED BY <2>2, <2>3, <2>4, <2>6, <3>1, <3>2 DEF Untouched, Installing
  <2> QED BY <2>2, <2>5, <2>6
<1>8. ASSUME Erase \/ DropListener \/ CloseReturns PROVE Aside /\ Before
  <2>1. clients' \subseteq clients /\ UNCHANGED handlers
    BY <1>8 DEF Erase, DropListener, CloseReturns, appVars
  <2>2. main'.at \notin {"install", "start", "connect"}
    <3>1. main = [at |-> main.at, conn |-> main.conn, send |-> main.send, next |-> main.next]
          /\ main.next \in {"done", "loop", "dropClients", "dropListener"}
      BY <1>2 DEF Lifetimes, Shape
    <3>2. CASE Erase
      <4>1. main' = At(main.next) \/ main' = [main EXCEPT !.at = "closing"]
        BY <3>2 DEF Erase
      <4>2. CASE main' = At(main.next)
        BY <3>1, <4>2 DEF At
      <4>3. CASE main' = [main EXCEPT !.at = "closing"]
        <5>1. main'.at = "closing"
          BY <3>1, <4>3
        <5> QED BY <5>1
      <4> QED BY <4>1, <4>2, <4>3
    <3>3. CASE CloseReturns
      BY <3>1, <3>3 DEF CloseReturns, At
    <3>4. CASE DropListener
      <4>1. \/ main' = At("stop")
            \/ \E c : main' = [at |-> "closing", conn |-> c, send |-> Nothing, next |-> "dropListener"]
        BY <3>4 DEF DropListener, Unaccepted, DropAccepted, At
      <4> QED BY <4>1 DEF At
    <3> QED BY <1>8, <3>2, <3>3, <3>4
  <2>3. \A c \in Conn : owner'[c] = owner[c] \/ owner'[c] = "freed"
    BY <1>2, <1>8 DEF Erase, DropListener, CloseReturns, Closed
  <2> QED BY <1>2, <2>1, <2>2, <2>3 DEF MessageTypeOK, Untouched, Installing
<1>9. Aside /\ Before
  BY <1>3, <1>4, <1>5, <1>6, <1>7, <1>8 DEF Main
<1>10. \A c \in Conn : Story(c)'
  BY <1>1, <1>2, <1>9, StoryAside
<1>11. MessageTypeOK'
  BY <1>1, <1>2, <1>9 DEF MessageTypeOK
<1> QED BY <1>9, <1>10, <1>11 DEF Stories

\* A message or datagram that was not met comes to its end while no callback runs.
LEMMA Meeting ==
    ASSUME NEW c \in Conn, Story(c), MessageTypeOK, Shape,
           NEW k \in Kind, NEW x \in Message \cup Datagram, x \notin met[c], worker[c].at = "idle",
           Dispatch(c, k, x, SegmentCount), Meets(c, k, x),
           UNCHANGED <<role, owner, main, handed, handlers, clients, dead>>,
           \A m \in Message : stream'[c][m].at \in {"none", "open"} =>
              stream[c][m].at \in {"none", "open"} /\ m # x
    PROVE  /\ Story(c)'
           /\ met' \in [Conn -> SUBSET (Message \cup Datagram)]
           /\ \A d \in Conn : d # c => met'[d] = met[d] /\ worker'[d] = worker[d]
<1>1. /\ met \in [Conn -> SUBSET (Message \cup Datagram)]
      /\ worker = [d \in Conn |-> [at |-> worker[d].at, what |-> worker[d].what, got |-> worker[d].got]]
  BY DEF MessageTypeOK, Shape
<1>2. CASE k \in handlers[c]
  <2>1. /\ met' = [met EXCEPT ![c] = @ \cup {x}]
        /\ worker' = [worker EXCEPT ![c] = [at |-> "copied", what |-> x, got |-> SegmentCount]]
    BY <1>2 DEF Dispatch, Meets
  <2>2. met' \in [Conn -> SUBSET (Message \cup Datagram)] /\ met'[c] = met[c] \cup {x}
        /\ worker'[c] = [at |-> "copied", what |-> x, got |-> SegmentCount]
        /\ \A d \in Conn : d # c => met'[d] = met[d] /\ worker'[d] = worker[d]
    BY <1>1, <2>1
  <2>3. worker'[c].what = x /\ worker'[c].got = SegmentCount /\ worker'[c].at = "copied"
    BY <2>2
  <2>4. \A i \in DOMAIN handed[c] : handed[c][i].what # x
    BY DEF Story
  <2>5. ~Untouched(c)' /\ InHand(c)'
    BY <1>2, <2>2, <2>3, <2>4 DEF Story, Fresh, Untouched, Installing, InHand
  <2>6. /\ \A m \in Message : stream'[c][m].at \in {"none", "open"} => m \notin met'[c]
        /\ \A i \in DOMAIN handed'[c] :
              /\ handed'[c][i].got = SegmentCount /\ handed'[c][i].what \in met'[c]
              /\ \A j \in DOMAIN handed'[c] : handed'[c][i].what = handed'[c][j].what => i = j
    BY <2>2 DEF Story
  <2>7. \A y \in met'[c] :
          \/ \E i \in DOMAIN handed'[c] : handed'[c][i].what = y
          \/ worker'[c].what = y /\ worker'[c].at \in {"copied", "holding"}
          \/ c \in dead' \/ c \notin clients'
    BY <2>2, <2>3 DEF Story
  <2> QED BY <2>2, <2>5, <2>6, <2>7 DEF Story
<1>3. CASE k \notin handlers[c]
  <2>1. met' = [met EXCEPT ![c] = @] /\ worker' = [worker EXCEPT ![c] = Idle]
    BY <1>3 DEF Dispatch, Meets
  <2>2. met' = met /\ worker'[c].at = "idle"
        /\ \A d \in Conn : d # c => met'[d] = met[d] /\ worker'[d] = worker[d]
    BY <1>1, <2>1 DEF Idle
  <2>3. Untouched(c)' => Fresh(c)'
    BY <2>2 DEF Story, Fresh, Untouched, Installing
  <2> QED BY <1>1, <2>2, <2>3 DEF Story
<1> QED BY <1>2, <1>3

LEMMA StoriesByEvents ==
    ASSUME Stories, Lifetimes', NEW c \in Conn,
           \/ Connected(c) \/ ShutdownStarted(c) \/ ShutdownComplete(c)
           \/ \E m \in Message : PeerStreamStarted(c, m) \/ Receive(c, m) \/ StreamShutdownComplete(c, m)
           \/ \E s \in Send : SendEnds(s)
           \/ NewConnection(c) \/ CloseInPlace(c) \/ Return(c)
    PROVE  Stories'
<1>1. /\ UNCHANGED <<role, main, clients, dead, met, handed, handlers>>
      /\ \A d \in Conn : owner'[d] = owner[d] \/ owner'[d] = "freed"
                         \/ (owner[d] = "nobody" /\ role = "server")
  BY DEF Connected, ShutdownStarted, ShutdownComplete, PeerStreamStarted, Receive, Received, Appends,
         StreamShutdownComplete, SendEnds, NewConnection, CloseInPlace, Closed, Return, workerOnly,
         connVars, Stories, Lifetimes, Shape
<1>2. /\ Lifetimes /\ Shape /\ MessageTypeOK /\ \A d \in Conn : Story(d)
  BY DEF Stories, Lifetimes
<1>3. \/ UNCHANGED stream
      \/ \E m \in Message : \/ stream[c][m].at = "none" /\ stream' = [stream EXCEPT ![c][m].at = "open"]
                            \/ stream' = [stream EXCEPT ![c][m].got = @ + 1]
                            \/ stream' = [stream EXCEPT ![c][m] = [at |-> "done", got |-> 0]]
  BY DEF Connected, ShutdownStarted, ShutdownComplete, PeerStreamStarted, Receive, Received, Appends,
         StreamShutdownComplete, SendEnds, NewConnection, CloseInPlace, Return, connVars
<1>4. /\ stream' \in [Conn -> [Message -> [at : {"none", "open", "fin", "done"}, got : Nat]]]
      /\ \A d \in Conn, m \in Message : stream'[d][m].at \in {"none", "open"} =>
            stream[d][m].at \in {"none", "open"}
  <2>1. stream \in [Conn -> [Message -> [at : {"none", "open", "fin", "done"}, got : Nat]]]
    BY <1>2 DEF MessageTypeOK
  <2>2. ASSUME NEW m \in Message, NEW r \in [at : {"none", "open", "fin", "done"}, got : Nat],
               stream' = [stream EXCEPT ![c][m] = r],
               r.at \in {"none", "open"} => stream[c][m].at \in {"none", "open"}
        PROVE  <1>4!1 /\ <1>4!2
    BY <2>1, <2>2
  <2>3. ASSUME NEW m \in Message, stream[c][m].at = "none" /\ stream' = [stream EXCEPT ![c][m].at = "open"]
        PROVE  <1>4!1 /\ <1>4!2
    <3>1. PICK r : r = [stream[c][m] EXCEPT !.at = "open"]
      OBVIOUS
    <3>2. r \in [at : {"none", "open", "fin", "done"}, got : Nat]
      BY <2>1, <3>1
    <3>3. stream' = [stream EXCEPT ![c][m] = r]
      BY <2>3, <3>1
    <3> QED BY <2>2, <2>3, <3>2, <3>3
  <2>4. ASSUME NEW m \in Message, stream' = [stream EXCEPT ![c][m].got = @ + 1]
        PROVE  <1>4!1 /\ <1>4!2
    <3>1. PICK r : r = [stream[c][m] EXCEPT !.got = @ + 1]
      OBVIOUS
    <3>2. r \in [at : {"none", "open", "fin", "done"}, got : Nat] /\ r.at = stream[c][m].at
      <4>1. PICK q \in [at : {"none", "open", "fin", "done"}, got : Nat] : q = stream[c][m]
        BY <2>1
      <4>2. r = [q EXCEPT !.got = @ + 1]
        BY <3>1, <4>1
      <4> QED BY <4>1, <4>2
    <3>3. stream' = [stream EXCEPT ![c][m] = r]
      BY <2>4, <3>1
    <3> QED BY <2>2, <3>2, <3>3
  <2>5. ASSUME NEW m \in Message, stream' = [stream EXCEPT ![c][m] = [at |-> "done", got |-> 0]]
        PROVE  <1>4!1 /\ <1>4!2
    BY <2>2, <2>5
  <2> QED BY <1>3, <2>1, <2>3, <2>4, <2>5
<1>5. \/ UNCHANGED worker
      \/ \E r \in {Idle, [worker[c] EXCEPT !.at = "returning"]} :
            worker' = [worker EXCEPT ![c] = r] /\ worker[c].at \in {"closing", "returning"}
  BY DEF Connected, ShutdownStarted, ShutdownComplete, PeerStreamStarted, Receive, Received, Appends,
         StreamShutdownComplete, SendEnds, NewConnection, CloseInPlace, Return
<1>6. \A d \in Conn :
         \/ worker'[d] = worker[d]
         \/ worker[d].at \notin {"copied", "holding"} /\ worker'[d].at \notin {"copied", "holding"}
  BY <1>2, <1>5 DEF Shape, Idle
<1>7. MessageTypeOK' /\ (role = "client" => owner' = owner)
  <2>1. role = "client" => ~NewConnection(c) /\ ~CloseInPlace(c)
    BY <1>2 DEF NewConnection, CloseInPlace, Lifetimes
  <2>2. role = "client" => owner' = owner
    BY <2>1 DEF Connected, ShutdownStarted, ShutdownComplete, PeerStreamStarted, Receive,
               StreamShutdownComplete, SendEnds, Return, connVars
  <2> QED BY <1>1, <1>2, <1>4, <2>2 DEF MessageTypeOK
<1>8. ASSUME NEW d \in Conn PROVE Story(d)'
  <2>1. Untouched(d)' => Untouched(d)
    BY <1>1 DEF Untouched, Installing
  <2>2. Story(d)
    BY <1>2
  <2>3. CASE worker'[d] = worker[d]
    BY <1>1, <1>4, <2>1, <2>2, <2>3, StoryAside
  <2>4. CASE worker[d].at \notin {"copied", "holding"} /\ worker'[d].at \notin {"copied", "holding"}
    <3>1. Untouched(d)' => Fresh(d)'
      BY <1>1, <2>1, <2>2 DEF Story, Fresh
    <3>2. met'[d] = met[d] /\ handed'[d] = handed[d] /\ dead' = dead /\ clients' = clients
      BY <1>1
    <3>3. \A m \in Message : stream'[d][m].at \in {"none", "open"} => m \notin met'[d]
      BY <1>4, <2>2, <3>2 DEF Story
    <3>4. \A i \in DOMAIN handed'[d] :
             /\ handed'[d][i].got = SegmentCount /\ handed'[d][i].what \in met'[d]
             /\ \A j \in DOMAIN handed'[d] : handed'[d][i].what = handed'[d][j].what => i = j
      BY <2>2, <3>2 DEF Story
    <3>5. \A x \in met'[d] : \/ \E i \in DOMAIN handed'[d] : handed'[d][i].what = x
                             \/ d \in dead' \/ d \notin clients'
      BY <2>2, <2>4, <3>2 DEF Story
    <3> QED BY <2>4, <3>1, <3>3, <3>4, <3>5 DEF Story
  <2> QED BY <1>6, <2>3, <2>4
<1> QED BY <1>1, <1>7, <1>8 DEF Stories

LEMMA StoriesByHandlers ==
    ASSUME Stories, Lifetimes', NEW c \in Conn, Invoke(c) \/ Deliver(c)
    PROVE  Stories'
<1>1. /\ UNCHANGED <<role, main, owner, clients, dead, met, handlers, stream>>
      /\ \A d \in Conn : Untouched(d)' <=> Untouched(d)
  BY DEF Invoke, Deliver, workerOnly, connVars, Untouched, Installing
<1>2. /\ Lifetimes /\ Shape /\ MessageTypeOK /\ \A d \in Conn : Story(d)
      /\ worker = [d \in Conn |-> [at |-> worker[d].at, what |-> worker[d].what, got |-> worker[d].got]]
  BY DEF Stories, Lifetimes, Shape
<1>3. PICK at : /\ worker' = [worker EXCEPT ![c].at = at]
                /\ at \in {"holding", "returning", "closing"}
  BY DEF Invoke, Deliver
<1>4. /\ worker'[c].at = at /\ worker'[c].what = worker[c].what /\ worker'[c].got = worker[c].got
      /\ \A d \in Conn : d # c => worker'[d] = worker[d]
  BY <1>2, <1>3
<1>5. PICK w : w = [what |-> worker[c].what, got |-> worker[c].got]
  OBVIOUS
<1>6. CASE UNCHANGED handed
  <2>1. MessageTypeOK'
    BY <1>1, <1>2, <1>6 DEF MessageTypeOK
  <2>2. \A d \in Conn : d # c => Story(d)'
    BY <1>1, <1>2, <1>4, <1>6, StoryAside
  <2>3. worker[c].at \in {"copied", "holding"}
        /\ (at = "holding" \/ c \in dead \/ c \notin clients)
    <3>1. CASE Invoke(c)
      <4>1. worker'[c].at = (IF role = "client" \/ c \in clients THEN "holding" ELSE "returning")
        BY <1>2, <3>1 DEF Invoke
      <4> QED BY <1>4, <3>1, <4>1 DEF Invoke
    <3>2. CASE Deliver(c) /\ c \notin dead
      <4>1. Len(handed'[c]) = Len(handed[c]) + 1
        BY <1>2, <3>2 DEF Deliver, HandsOver, MessageTypeOK
      <4> QED BY <1>2, <1>6, <4>1 DEF MessageTypeOK
    <3> QED BY <3>1, <3>2 DEF Deliver, Invoke
  <2>4. InHand(c)'
    BY <1>1, <1>2, <1>4, <1>6, <2>3 DEF Story, InHand
  <2>5. Untouched(c)' => Fresh(c)'
    BY <1>1, <1>2 DEF Story, Fresh
  <2>6. Story(c)'
    BY <1>1, <1>2, <1>4, <1>6, <2>3, <2>4, <2>5 DEF Story
  <2> QED BY <1>1, <2>1, <2>2, <2>6 DEF Stories
<1>7. CASE Deliver(c) /\ c \notin dead
  <2>1. worker[c].at = "holding" /\ at # "holding" /\ handed' = [handed EXCEPT ![c] = Append(@, w)]
    BY <1>2, <1>4, <1>5, <1>7 DEF Deliver, HandsOver
  <2>2. /\ InHand(c) /\ w.what = worker[c].what /\ w.got = SegmentCount /\ w.what \in met[c]
    BY <1>2, <1>5, <2>1 DEF Story, InHand
  <2>3. PICK s \in Seq([what : Message \cup Datagram, got : Nat]) : s = handed[c]
    BY <1>2 DEF MessageTypeOK
  <2>4. w \in [what : Message \cup Datagram, got : Nat]
    BY <1>2, <1>5, <2>2, ConnAssumption DEF MessageTypeOK
  <2>5. PICK t \in Seq([what : Message \cup Datagram, got : Nat]), n \in Nat, m \in Nat, D \in SUBSET Nat :
            /\ t = Append(s, w) /\ n = Len(s) /\ m = n + 1 /\ D = 1 .. n /\ DOMAIN s = D
            /\ DOMAIN t = D \cup {m} /\ m \notin D /\ t[m] = w /\ \A i \in D : t[i] = s[i]
    <3>1. /\ Append(s, w) \in Seq([what : Message \cup Datagram, got : Nat]) /\ Len(s) \in Nat
          /\ DOMAIN s = 1 .. Len(s) /\ DOMAIN Append(s, w) = (1 .. Len(s)) \cup {Len(s) + 1}
          /\ Append(s, w)[Len(s) + 1] = w /\ \A i \in 1 .. Len(s) : Append(s, w)[i] = s[i]
      BY <2>3, <2>4
    <3>2. Len(s) + 1 \in Nat /\ Len(s) + 1 \notin 1 .. Len(s)
      BY <2>3
    <3>3. PICK D : D = 1 .. Len(s)
      OBVIOUS
    <3>4. D \in SUBSET Nat
      BY <3>3, <3>1
    <3> QED BY <3>1, <3>2, <3>3, <3>4
  <2>6. /\ handed'[c] = t /\ \A d \in Conn : d # c => handed'[d] = handed[d]
        /\ handed' \in [Conn -> Seq([what : Message \cup Datagram, got : Nat])]
    BY <1>2, <2>1, <2>3, <2>5 DEF MessageTypeOK
  <2>7. MessageTypeOK'
    BY <1>1, <1>2, <2>6 DEF MessageTypeOK
  <2>8. \A d \in Conn : d # c => Story(d)'
    BY <1>1, <1>2, <1>4, <2>6, StoryAside
  <2>9. Untouched(c)' => Fresh(c)'
    BY <1>1, <1>2 DEF Story, Fresh
  <2>10. \A i \in D : s[i].got = SegmentCount /\ s[i].what \in met[c] /\ s[i].what # w.what
         /\ \A j \in D : s[i].what = s[j].what => i = j
    BY <1>2, <2>2, <2>3, <2>5 DEF Story, InHand
  <2>11. \A i \in DOMAIN t : t[i].got = SegmentCount /\ t[i].what \in met[c]
         /\ \A j \in DOMAIN t : t[i].what = t[j].what => i = j
    BY <2>2, <2>5, <2>10
  <2>12. \A x \in met[c] : \/ \E i \in DOMAIN t : t[i].what = x
                           \/ c \in dead \/ c \notin clients
    <3>1. \A x \in met[c] : \/ \E i \in D : s[i].what = x
                            \/ w.what = x
                            \/ c \in dead \/ c \notin clients
      BY <1>2, <2>2, <2>3, <2>5 DEF Story
    <3>2. \A i \in D : i \in DOMAIN t /\ t[i].what = s[i].what
      BY <2>5
    <3>3. m \in DOMAIN t /\ t[m].what = w.what
      BY <2>5
    <3> QED BY <3>1, <3>2, <3>3
  <2>13. \A x \in Message : stream'[c][x].at \in {"none", "open"} => x \notin met'[c]
    BY <1>1, <1>2 DEF Story
  <2>14. worker'[c].at \notin {"copied", "holding"}
    BY <1>3, <1>4, <2>1
  <2>15. Story(c)'
    BY <1>1, <2>6, <2>9, <2>11, <2>12, <2>13, <2>14 DEF Story
  <2> QED BY <1>1, <2>7, <2>8, <2>15 DEF Stories
<1> QED BY <1>6, <1>7 DEF Invoke, Deliver

LEMMA StoriesNext == Stories /\ [Next]_vars => Stories'
<1> SUFFICES ASSUME Stories, [Next]_vars PROVE Stories'
  OBVIOUS
<1>1. /\ Lifetimes /\ Lifetimes' /\ Shape /\ MessageTypeOK /\ \A d \in Conn : Story(d)
  BY LifetimesNext DEF Stories, Lifetimes
<1>2. CASE UNCHANGED vars
  <2>1. UNCHANGED <<role, main, owner, clients, dead, met, handed, handlers, stream, worker>>
    BY <1>2 DEF vars, connVars, appVars
  <2> QED BY <1>1, <2>1 DEF Stories, MessageTypeOK, Story, Untouched, Installing, Fresh, InHand
<1>3. ASSUME NEW c \in Conn, NEW d \in Datagram, DatagramReceived(c, d) PROVE Stories'
  <2>1. /\ worker[c].at = "idle" /\ d \notin met[c]
        /\ Dispatch(c, "datagram", d, SegmentCount) /\ Meets(c, "datagram", d)
        /\ UNCHANGED <<role, owner, main, handed, handlers, clients, dead, stream>>
    BY <1>3 DEF DatagramReceived, Event, workerOnly
  <2>2. /\ Story(c)' /\ met' \in [Conn -> SUBSET (Message \cup Datagram)]
        /\ \A e \in Conn : e # c => met'[e] = met[e] /\ worker'[e] = worker[e]
    <3>1. \A m \in Message : m # d
      BY PeerAssumption
    <3>2. "datagram" \in Kind
      BY DEF Kind
    <3> QED BY <1>1, <2>1, <3>1, <3>2, Meeting
  <2>3. \A e \in Conn : e # c => Story(e)'
    <3>1. \A e \in Conn : Untouched(e)' => Untouched(e)
      BY <2>1 DEF Untouched, Installing
    <3> QED BY <1>1, <2>1, <2>2, <3>1, StoryAside
  <2> QED BY <1>1, <2>1, <2>2, <2>3 DEF Stories, MessageTypeOK
<1>4. ASSUME NEW c \in Conn, NEW m \in Message, PeerSendShutdown(c, m) PROVE Stories'
  <2>1. /\ worker[c].at = "idle" /\ stream[c][m].at = "open"
        /\ Dispatch(c, "reliable", m, SegmentCount) /\ Meets(c, "reliable", m)
        /\ stream' = [stream EXCEPT ![c][m] = [at |-> "fin", got |-> 0]]
        /\ UNCHANGED <<role, owner, main, handed, handlers, clients, dead>>
    BY <1>4 DEF PeerSendShutdown, Event, workerOnly
  <2>2. /\ stream' \in [Conn -> [Message -> [at : {"none", "open", "fin", "done"}, got : Nat]]]
        /\ stream'[c][m].at = "fin" /\ \A x \in Message : x # m => stream'[c][x] = stream[c][x]
        /\ \A e \in Conn : e # c => stream'[e] = stream[e]
    BY <1>1, <2>1 DEF MessageTypeOK
  <2>3. m \notin met[c]
    BY <1>1, <2>1 DEF Story
  <2>4. /\ Story(c)' /\ met' \in [Conn -> SUBSET (Message \cup Datagram)]
        /\ \A e \in Conn : e # c => met'[e] = met[e] /\ worker'[e] = worker[e]
    <3>1. "reliable" \in Kind
      BY DEF Kind
    <3> QED BY <1>1, <2>1, <2>2, <2>3, <3>1, Meeting
  <2>5. \A e \in Conn : e # c => Story(e)'
    <3>1. \A e \in Conn : Untouched(e)' => Untouched(e)
      BY <2>1 DEF Untouched, Installing
    <3> QED BY <1>1, <2>1, <2>2, <2>4, <3>1, StoryAside
  <2> QED BY <1>1, <2>1, <2>2, <2>4, <2>5 DEF Stories, MessageTypeOK
<1>5. CASE Main \/ Interrupt
  BY <1>1, <1>5, StoriesByMain
<1>6. ASSUME NEW c \in Conn, Callback(c) \/ Network(c) PROVE Stories'
  BY <1>1, <1>3, <1>4, <1>6, StoriesByEvents, StoriesByHandlers DEF Callback, Network
<1> QED BY <1>2, <1>5, <1>6 DEF Next

\* Whatever comes on however many streams, each message reaches the application at most
\* once, whole, through a handler that met its end, and is lost only with its client.
THEOREM MessagesArriveWhole == Spec => []MessagesWhole
<1>1. Stories => MessagesWhole
  <2> SUFFICES ASSUME Stories, NEW c \in Conn
               PROVE  /\ \A i \in 1 .. Len(handed[c]) :
                            /\ handed[c][i].got = SegmentCount /\ handed[c][i].what \in met[c]
                            /\ \A j \in 1 .. Len(handed[c]) : handed[c][i].what = handed[c][j].what => i = j
                      /\ \A x \in met[c] :
                            \/ \E i \in 1 .. Len(handed[c]) : handed[c][i].what = x
                            \/ worker[c].what = x /\ worker[c].at \in {"copied", "holding"}
                            \/ c \in dead \/ c \notin clients
    BY DEF MessagesWhole
  <2>1. DOMAIN handed[c] = 1 .. Len(handed[c]) /\ Story(c)
    BY DEF Stories, MessageTypeOK
  <2> QED BY <2>1 DEF Story
<1> QED BY <1>1, StoriesInit, StoriesNext, PTL DEF Spec
=============================================================================
