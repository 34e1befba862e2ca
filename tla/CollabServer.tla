---------------------------- MODULE CollabServer ----------------------------
(****************************************************************************)
(* The dedicated server of a collaborative session                          *)
(* (stratumv_server/main.cpp): the accept / handshake / drain / tick / reap *)
(* loop over the connected clients, and the shared world it edits.          *)
(*                                                                          *)
(* One step of this specification is one turn of an inner loop of the       *)
(* server's main thread, for one client or one message, so that what the    *)
(* MsQuic worker threads do (a connection completes or shuts down, a        *)
(* message lands in an inbox) may happen between any two of them.           *)
(*                                                                          *)
(* A component (NetTransform, LightComponent, ...) is a function from field *)
(* to value; the payload of a SetField is a partial such function, the      *)
(* dirty fields. Client ids are given out in order and the vector of        *)
(* clients is appended to, so vector order is the order of the ids. Left    *)
(* out: asset messages (module AssetSync), the world file (module           *)
(* ServerDisk), logging. Bounds: MaxClients connections, MaxRequests        *)
(* messages received, MaxTicks snapshot ticks; all three only limit the     *)
(* environment.                                                             *)
(****************************************************************************)
EXTENDS UndoLog, FiniteSets

CONSTANTS
    MaxClients,    \* connections accepted in a run
    MaxRequests,   \* messages the clients send in a run
    MaxTicks,      \* snapshot ticks in a run
    Fields,        \* the fields of a component
    Values,        \* the values a field takes
    InitValue,     \* the value every field has in a fresh component
    EditorTypes,   \* the sidecars any editor may write: Light, Camera, Material
    Requests       \* the messages clients may send

ClientId  == 1..MaxClients
Server    == 0                    \* ownerClientId of an Authority::Server entity
CubeId    == 1
FirstAvatarId == 100

Component == [Fields -> Values]
Patch     == UNION {[F -> Values] : F \in SUBSET Fields}
Fresh     == [f \in Fields |-> InitValue]
Sidecars  == EditorTypes \cup {"ParentLink"}

\* struct ReplicatedEntity. `alive` is never cleared and is left out.
Entity == [owner : Nat, pose : Component, side : [Sidecars -> Component]]

\* An inbound reliable message. Unparsable stands for a frame that
\* parseEditTransaction refuses; wellFormed says whether the SetField payload
\* decodes against the type it names.
Request ==
    [kind : {"SetField", "Undo", "Redo", "Spawn", "Despawn", "Unparsable"},
     entity : Nat, type : STRING, patch : Patch, wellFormed : BOOLEAN,
     scope : {"Viewer", "Editor", "Admin"}]

ASSUME BoundsAssumption ==
    MaxClients \in Nat /\ MaxRequests \in Nat /\ MaxTicks \in Nat
ASSUME ValuesAssumption == InitValue \in Values
ASSUME TypesAssumption ==
    {"NetTransform", "ParentLink"} \cap EditorTypes = {}
ASSUME RequestsAssumption == Requests \subseteq Request

\* What the server sends. SetField, Undo and Redo are the rebroadcasts.
Message ==
         [kind : {"Preamble"}]
    \cup [kind : {"Welcome"}, client : ClientId, avatar : Nat]
    \cup [kind : {"Spawn"}, txId : Nat, entity : Nat, owner : Nat, pose : Component]
    \cup [kind : {"Despawn"}, txId : Nat, entity : Nat]
    \cup [kind : {"SetField"}, txId : Nat, origin : ClientId, entity : Nat,
          type : STRING, patch : Patch]
    \cup [kind : {"Undo", "Redo"}, txId : Nat, origin : ClientId, entity : Nat,
          target : Nat]
    \cup [kind : {"Snapshot"}, tick : Nat, entity : Nat, pose : Component]

VARIABLES
    \* struct ServerWorld
    ents,          \* entity id -> Entity, for the entities in the map
    nextEntityId,
    nextClientId,
    nextTxId,
    undoLog,
    \* struct ClientState, per client id
    clients,       \* the ids in the clients vector
    stage,         \* preambleSent / welcomeSent / worldSynced; kept after a reap
    dead,
    avatar,        \* avatarEntityId
    inbox,
    \* the connection, moved by the worker threads
    conn,
    received,      \* number of messages received so far
    \* the main loop
    phase,
    todo,          \* clients the current inner loop has still to visit
    serving,       \* client whose swapped-out batch is being applied
    batch,
    tick,
    \* history
    out,           \* what the last step sent, per client
    told,          \* entities a client knows if all it was sent arrived in order
    redid          \* clients that have had a Redo applied

worldVars   == <<ents, nextEntityId, nextTxId, undoLog, redid>>
clientVars  == <<clients, stage, dead, avatar, nextClientId>>
wireVars    == <<conn, inbox, received>>
loopVars    == <<phase, todo, serving, batch, tick>>
sendVars    == <<out, told>>
vars == <<worldVars, clientVars, wireVars, loopVars, sendVars>>

Stages  == {"none", "accepted", "preamble", "welcomed", "synced"}
Welcomed(c) == stage[c] \in {"welcomed", "synced"}

Phases  == {"accept", "handshake", "drain", "tick", "reap"}

-----------------------------------------------------------------------------
(* Sending *)

NoMessages == [c \in ClientId |-> {}]

\* Who broadcastTransaction reaches; the origin is not left out.
Audience ==
    {c \in clients : ~dead[c] /\ Welcomed(c) /\ conn[c] = "connected"}

Introduces(m) == m.kind \in {"Spawn", "Snapshot"}

Send(msgs) ==
    /\ out' = msgs
    /\ told' = [c \in ClientId |->
                   (told[c] \cup {m.entity : m \in {n \in msgs[c] : Introduces(n)}})
                   \ {m.entity : m \in {n \in msgs[c] : n.kind = "Despawn"}}]

SendTo(c, msgs)  == Send([NoMessages EXCEPT ![c] = msgs])
Broadcast(m) ==
    Send([c \in ClientId |-> IF c \in Audience THEN {m} ELSE {}])
Silent == out' = NoMessages /\ UNCHANGED told

SpawnTx(e, tx) ==
    [kind |-> "Spawn", txId |-> tx, entity |-> e,
     owner |-> ents[e].owner, pose |-> ents[e].pose]

-----------------------------------------------------------------------------
(* The loop over the clients vector *)

IsNext(c)  == c \in todo /\ \A d \in todo : c <= d

Visited(c) == todo' = todo \ {c} /\ UNCHANGED <<phase, serving, batch, tick>>

Enter(ph, visit) == phase' = ph /\ todo' = visit

Init ==
    /\ ents = [e \in {CubeId} |->
                  [owner |-> Server, pose |-> Fresh, side |-> [s \in Sidecars |-> Fresh]]]
    /\ nextEntityId = FirstAvatarId /\ nextClientId = 1 /\ nextTxId = 1
    /\ undoLog = <<>>
    /\ clients = {}
    /\ stage  = [c \in ClientId |-> "none"]
    /\ dead   = [c \in ClientId |-> FALSE]
    /\ avatar = [c \in ClientId |-> 0]
    /\ inbox  = [c \in ClientId |-> <<>>]
    /\ conn   = [c \in ClientId |-> "none"]
    /\ received = 0
    /\ phase = "accept" /\ todo = {} /\ serving = 0 /\ batch = <<>> /\ tick = 0
    /\ out  = NoMessages
    /\ told = [c \in ClientId |-> {}]
    /\ redid = {}

-----------------------------------------------------------------------------
(* MsQuic worker threads *)

ConnectionReady(c) ==
    /\ conn[c] = "connecting"
    /\ conn' = [conn EXCEPT ![c] = "connected"]
    /\ Silent
    /\ UNCHANGED <<worldVars, clientVars, inbox, received, loopVars>>

ConnectionShutdown(c) ==
    /\ conn[c] \in {"connecting", "connected"}
    /\ conn' = [conn EXCEPT ![c] = "shutdown"]
    /\ Silent
    /\ UNCHANGED <<worldVars, clientVars, inbox, received, loopVars>>

\* The handler installed at accept time: drop when the client is dead or gone,
\* else copy the message into the inbox.
Receive(c, r) ==
    /\ received < MaxRequests
    /\ c \in clients /\ ~dead[c] /\ conn[c] = "connected"
    /\ inbox' = [inbox EXCEPT ![c] = Append(@, r)]
    /\ received' = received + 1
    /\ Silent
    /\ UNCHANGED <<worldVars, clientVars, conn, loopVars>>

-----------------------------------------------------------------------------
(* Accept *)

MakeAvatar(c) ==
    [owner |-> c, pose |-> Fresh, side |-> [s \in Sidecars |-> Fresh]]

AcceptOne ==
    /\ phase = "accept"
    /\ nextClientId \in ClientId
    /\ ents' = [e \in DOMAIN ents \cup {nextEntityId} |->
                   IF e = nextEntityId THEN MakeAvatar(nextClientId) ELSE ents[e]]
    /\ avatar'  = [avatar EXCEPT ![nextClientId] = nextEntityId]
    /\ stage'   = [stage EXCEPT ![nextClientId] = "accepted"]
    /\ conn'    = [conn EXCEPT ![nextClientId] = "connecting"]
    /\ clients' = clients \cup {nextClientId}
    /\ nextClientId' = nextClientId + 1
    /\ nextEntityId' = nextEntityId + 1
    /\ Enter("handshake", clients \cup {nextClientId})
    /\ Silent
    /\ UNCHANGED <<nextTxId, undoLog, redid, dead, inbox, received, serving, batch, tick>>

AcceptTimeout ==
    /\ phase = "accept"
    /\ Enter("handshake", clients)
    /\ Silent
    /\ UNCHANGED <<worldVars, clientVars, wireVars, serving, batch, tick>>

-----------------------------------------------------------------------------
(* Handshake: at most one step per client and pass. A client already dead   *)
(* is visited without effect.                                               *)

Greets(c, st) ==
    /\ phase = "handshake" /\ IsNext(c)
    /\ ~dead[c] /\ conn[c] = "connected" /\ stage[c] = st

SendPreamble(c) ==
    /\ Greets(c, "accepted")
    /\ stage' = [stage EXCEPT ![c] = "preamble"]
    /\ SendTo(c, {[kind |-> "Preamble"]})
    /\ Visited(c)
    /\ UNCHANGED <<worldVars, wireVars, clients, dead, avatar, nextClientId>>

SendWelcome(c) ==
    /\ Greets(c, "preamble")
    /\ stage' = [stage EXCEPT ![c] = "welcomed"]
    /\ SendTo(c, {[kind |-> "Welcome", client |-> c, avatar |-> avatar[c]]})
    /\ Visited(c)
    /\ UNCHANGED <<worldVars, wireVars, clients, dead, avatar, nextClientId>>

\* The connection shuts down between the look at it and the send, which fails:
\* nothing was sent, and the stage stays. (Sends on a connection that stays up
\* are taken to succeed.)
SendFails(c) ==
    /\ \E st \in {"accepted", "preamble"} : Greets(c, st)
    /\ conn' = [conn EXCEPT ![c] = "shutdown"]
    /\ Silent
    /\ Visited(c)
    /\ UNCHANGED <<worldVars, clientVars, inbox, received>>

\* Replay a Spawn for every entity, each with a txId of its own, then one more
\* Spawn that shows the new avatar to the other welcomed clients.
Rank(e) == Cardinality({x \in DOMAIN ents : x < e})

\* Mutant: the new avatar is shown to nobody.
ShownToNobody(c) == {}
ShownTo(c) == Audience \ {c}

CatchUp(c) ==
    /\ Greets(c, "welcomed")
    /\ stage' = [stage EXCEPT ![c] = "synced"]
    /\ LET n == Cardinality(DOMAIN ents)
           announced == avatar[c] \in DOMAIN ents
       IN  /\ nextTxId' = nextTxId + n + (IF announced THEN 1 ELSE 0)
           /\ Send([d \in ClientId |->
                 IF d = c
                   THEN {SpawnTx(e, nextTxId + Rank(e)) : e \in DOMAIN ents}
                   ELSE IF d \in ShownTo(c) /\ announced
                          THEN {SpawnTx(avatar[c], nextTxId + n)} ELSE {}])
    /\ Visited(c)
    /\ UNCHANGED <<ents, nextEntityId, undoLog, redid, wireVars,
                   clients, dead, avatar, nextClientId>>

NoticeShutdown(c) ==
    /\ phase = "handshake" /\ IsNext(c)
    /\ ~dead[c] /\ conn[c] = "shutdown"
    /\ dead' = [dead EXCEPT ![c] = TRUE]
    /\ Silent
    /\ Visited(c)
    /\ UNCHANGED <<worldVars, wireVars, clients, stage, avatar, nextClientId>>

\* Mutant: the loop waits for a connection to complete.
NothingToGreetButWait(c) ==
    /\ phase = "handshake" /\ IsNext(c)
    /\ dead[c] \/ (conn[c] = "connected" /\ stage[c] = "synced")
    /\ Silent
    /\ Visited(c)
    /\ UNCHANGED <<worldVars, wireVars, clientVars>>

NothingToGreet(c) ==
    /\ phase = "handshake" /\ IsNext(c)
    /\ dead[c] \/ conn[c] = "connecting" \/ (conn[c] = "connected" /\ stage[c] = "synced")
    /\ Silent
    /\ Visited(c)
    /\ UNCHANGED <<worldVars, wireVars, clientVars>>

EndHandshake ==
    /\ phase = "handshake" /\ todo = {}
    /\ Enter("drain", {c \in clients : ~dead[c]})
    /\ Silent
    /\ UNCHANGED <<worldVars, clientVars, wireVars, serving, batch, tick>>

Handshake(c) ==
    \/ SendPreamble(c) \/ SendWelcome(c) \/ SendFails(c) \/ CatchUp(c)
    \/ NoticeShutdown(c) \/ NothingToGreet(c)

-----------------------------------------------------------------------------
(* Drain: swap a client's inbox out under its mutex, then apply the batch.  *)
(* Messages that land meanwhile wait for the next pass. Reaped or dead      *)
(* clients are not drained.                                                 *)

SwapInbox(c) ==
    /\ phase = "drain" /\ batch = <<>> /\ IsNext(c)
    /\ batch' = inbox[c]
    /\ inbox' = [inbox EXCEPT ![c] = <<>>]
    /\ serving' = c
    /\ todo' = todo \ {c}
    /\ Silent
    /\ UNCHANGED <<worldVars, clientVars, conn, received, phase, tick>>

\* applyClientTransaction, for the message r at the head of the batch.
Permitted(r)  == r.scope # "Admin"      \* every client has scope Editor
SetsField(r)  == r.kind = "SetField" /\ Permitted(r) /\ r.entity \in DOMAIN ents

OwnsTarget(r) == ents[r.entity].owner = serving

CanDecorate(r) == SetsField(r) /\ r.type \in EditorTypes /\ r.wellFormed
CanReparent(r) ==
    SetsField(r) /\ OwnsTarget(r) /\ r.type = "ParentLink" /\ r.wellFormed
CanMove(r) ==
    SetsField(r) /\ OwnsTarget(r) /\ r.type = "NetTransform" /\ r.wellFormed
CanUndo(r) ==
    r.kind = "Undo" /\ Permitted(r) /\ \E i \in DOMAIN undoLog : IsLatestUndoable(undoLog, serving, i)
CanRedo(r) ==
    r.kind = "Redo" /\ Permitted(r) /\ \E i \in DOMAIN undoLog : IsLatestRedoable(undoLog, serving, i)

Merge(state, patch) ==
    [f \in Fields |-> IF f \in DOMAIN patch THEN patch[f] ELSE state[f]]

SetFieldTx(r) ==
    [kind |-> "SetField", txId |-> nextTxId, origin |-> serving,
     entity |-> r.entity, type |-> r.type, patch |-> r.patch]

\* Light, Camera, Material: any editor, any entity, no history entry.
SetSidecar(r) ==
    /\ ents' = [ents EXCEPT ![r.entity].side[r.type] = Merge(@, r.patch)]
    /\ nextTxId' = nextTxId + 1
    /\ Broadcast(SetFieldTx(r))
    /\ UNCHANGED <<undoLog, redid>>

Decorate(r) == CanDecorate(r) /\ SetSidecar(r)
Reparent(r) == CanReparent(r) /\ SetSidecar(r)

Move(r) ==
    /\ CanMove(r)
    /\ LET before == ents[r.entity].pose
           after  == Merge(before, r.patch)
       IN  /\ undoLog' = RecordApplied(undoLog,
                 [txId |-> nextTxId, client |-> serving, entity |-> r.entity,
                  before |-> before, after |-> after, undone |-> FALSE])
           /\ ents' = [ents EXCEPT ![r.entity].pose = after]
    /\ nextTxId' = nextTxId + 1
    /\ Broadcast(SetFieldTx(r))
    /\ UNCHANGED redid

\* The entity of the entry may be gone; the entry is marked all the same. The
\* echo is a transaction of its own, after the one the request consumed.
Restore(e, pose) ==
    IF e \in DOMAIN ents
      THEN ents' = [ents EXCEPT ![e].pose = pose]
      ELSE UNCHANGED ents

Echo(kind, entry) ==
    /\ nextTxId' = nextTxId + 2
    /\ Broadcast([kind |-> kind, txId |-> nextTxId + 1, origin |-> serving,
                  entity |-> entry.entity, target |-> entry.txId])

Undo(r) ==
    /\ CanUndo(r)
    /\ \E i \in DOMAIN undoLog :
          /\ IsLatestUndoable(undoLog, serving, i)
          /\ Restore(undoLog[i].entity, undoLog[i].before)
          /\ undoLog' = MarkUndone(undoLog, undoLog[i].txId)
          /\ Echo("Undo", undoLog[i])
    /\ UNCHANGED redid

Redo(r) ==
    /\ CanRedo(r)
    /\ \E i \in DOMAIN undoLog :
          /\ IsLatestRedoable(undoLog, serving, i)
          /\ Restore(undoLog[i].entity, undoLog[i].after)
          /\ undoLog' = MarkRedone(undoLog, undoLog[i].txId)
          /\ Echo("Redo", undoLog[i])
    /\ redid' = redid \cup {serving}

\* Scope too low, entity missing, not the owner, server-owned, unknown type,
\* payload malformed, nothing to undo or redo, Spawn and Despawn: the
\* transaction is dropped after it was given a txId. An unparsable frame is
\* dropped before.
Reject(r) ==
    /\ ~(CanDecorate(r) \/ CanReparent(r) \/ CanMove(r) \/ CanUndo(r) \/ CanRedo(r))
    /\ nextTxId' = IF r.kind = "Unparsable" THEN nextTxId ELSE nextTxId + 1
    /\ Silent
    /\ UNCHANGED <<ents, undoLog, redid>>

ApplyHead ==
    /\ phase = "drain" /\ batch # <<>>
    /\ LET r == Head(batch) IN
          Decorate(r) \/ Reparent(r) \/ Move(r) \/ Undo(r) \/ Redo(r) \/ Reject(r)
    /\ batch' = Tail(batch)
    /\ UNCHANGED <<nextEntityId, clientVars, wireVars, phase, todo, serving, tick>>

\* Mutant: drain until every inbox is empty.
EndDrainWhenQuiet ==
    /\ phase = "drain" /\ batch = <<>> /\ todo = {}
    /\ \A c \in clients : inbox[c] = <<>>
    /\ Enter("tick", {})
    /\ Silent
    /\ UNCHANGED <<worldVars, clientVars, wireVars, serving, batch, tick>>

EndDrain ==
    /\ phase = "drain" /\ batch = <<>> /\ todo = {}
    /\ Enter("tick", {})
    /\ Silent
    /\ UNCHANGED <<worldVars, clientVars, wireVars, serving, batch, tick>>

-----------------------------------------------------------------------------
(* Tick: when the deadline has passed, move the cube and send a snapshot of *)
(* every entity to every synced client. The walk over the clients also      *)
(* marks those whose connection shut down.                                  *)

TickDue ==
    /\ phase = "tick" /\ tick < MaxTicks
    /\ tick' = tick + 1
    /\ \E pose \in Component :
          ents' = [e \in DOMAIN ents |->
                      IF e = CubeId THEN [ents[e] EXCEPT !.pose = pose] ELSE ents[e]]
    /\ dead' = [c \in ClientId |-> dead[c] \/ (c \in clients /\ conn[c] = "shutdown")]
    /\ Send([c \in ClientId |->
          IF c \in clients /\ ~dead[c] /\ conn[c] = "connected" /\ stage[c] = "synced"
            THEN {[kind |-> "Snapshot", tick |-> tick', entity |-> e, pose |-> ents'[e].pose]
                     : e \in DOMAIN ents}
            ELSE {}])
    /\ Enter("reap", clients)
    /\ UNCHANGED <<nextEntityId, nextTxId, undoLog, redid, clients, stage, avatar,
                   nextClientId, wireVars, serving, batch>>

TickNotDue ==
    /\ phase = "tick"
    /\ Enter("reap", clients)
    /\ Silent
    /\ UNCHANGED <<worldVars, clientVars, wireVars, serving, batch, tick>>

-----------------------------------------------------------------------------
(* Reap: the avatar leaves the map; the others are told only if the client  *)
(* had been welcomed.                                                       *)

\* Mutant: only clients that finished the handshake are looked at.
GoneAfterSync(c) == stage[c] = "synced" /\ (dead[c] \/ conn[c] = "shutdown")
Gone(c) == dead[c] \/ conn[c] = "shutdown"

\* Mutant: announced only once the world was replayed to it.
WasSynced(c) == stage[c] = "synced"
WasAnnounced(c) == Welcomed(c)

\* Mutant: the avatar of a client nobody was told of stays.
EraseIfAnnounced(c) ==
    ents' = [e \in IF Welcomed(c) THEN DOMAIN ents \ {avatar[c]} ELSE DOMAIN ents |-> ents[e]]
EraseAvatar(c) ==
    ents' = [e \in DOMAIN ents \ {avatar[c]} |-> ents[e]]

Reap(c) ==
    /\ phase = "reap" /\ IsNext(c) /\ Gone(c)
    /\ EraseAvatar(c)
    /\ dead' = [dead EXCEPT ![c] = TRUE]
    /\ clients' = clients \ {c}
    /\ inbox' = [inbox EXCEPT ![c] = <<>>]
    /\ IF WasAnnounced(c)
         THEN /\ nextTxId' = nextTxId + 1
              /\ Broadcast([kind |-> "Despawn", txId |-> nextTxId, entity |-> avatar[c]])
         ELSE UNCHANGED nextTxId /\ Silent
    /\ Visited(c)
    /\ UNCHANGED <<nextEntityId, undoLog, redid, stage, avatar, nextClientId, conn, received>>

Keep(c) ==
    /\ phase = "reap" /\ IsNext(c) /\ ~Gone(c)
    /\ Silent
    /\ Visited(c)
    /\ UNCHANGED <<worldVars, clientVars, wireVars>>

EndReap ==
    /\ phase = "reap" /\ todo = {}
    /\ Enter("accept", {})
    /\ Silent
    /\ UNCHANGED <<worldVars, clientVars, wireVars, serving, batch, tick>>

-----------------------------------------------------------------------------

Workers ==
    \/ \E c \in ClientId : ConnectionReady(c) \/ ConnectionShutdown(c)
    \/ \E c \in ClientId, r \in Requests : Receive(c, r)

MainLoop ==
    \/ AcceptOne \/ AcceptTimeout
    \/ \E c \in ClientId : Handshake(c)
    \/ EndHandshake
    \/ \E c \in ClientId : SwapInbox(c)
    \/ ApplyHead
    \/ EndDrain
    \/ TickDue \/ TickNotDue
    \/ \E c \in ClientId : Reap(c) \/ Keep(c)
    \/ EndReap

Next == Workers \/ MainLoop

\* The main thread keeps running; clients and network owe nothing.
Spec == Init /\ [][Next]_vars /\ WF_vars(MainLoop)
-----------------------------------------------------------------------------
(* Properties *)

\* Every variable stays in the values the program can give it.
TypeOK ==
    /\ IsFiniteSet(DOMAIN ents) /\ DOMAIN ents \subseteq Nat
    /\ \A e \in DOMAIN ents : ents[e] \in Entity
    /\ nextEntityId \in Nat /\ nextClientId \in Nat /\ nextTxId \in Nat
    /\ undoLog \in Seq(UndoEntry(Component))
    /\ clients \subseteq ClientId
    /\ stage \in [ClientId -> Stages]
    /\ dead \in [ClientId -> BOOLEAN]
    /\ avatar \in [ClientId -> Nat]
    /\ inbox \in [ClientId -> Seq(Requests)]
    /\ conn \in [ClientId -> {"none", "connecting", "connected", "shutdown"}]
    /\ received \in Nat
    /\ phase \in Phases /\ todo \subseteq clients
    /\ serving \in ClientId \cup {0} /\ batch \in Seq(Requests) /\ tick \in Nat
    /\ batch # <<>> => phase = "drain" /\ serving \in clients
    /\ out \in [ClientId -> SUBSET Message]
    /\ told \in [ClientId -> SUBSET Nat]
    /\ redid \subseteq ClientId

\* The entity map holds the cube and exactly one avatar per client in the
\* vector, owned by it: no reap leaves an avatar behind or takes another's,
\* and no two clients share one (accept 1579-1588, reap 1678-1682).
AvatarPerClient ==
    /\ DOMAIN ents = {CubeId} \cup {avatar[c] : c \in clients}
    /\ ents[CubeId].owner = Server
    /\ \A c \in clients : ents[avatar[c]].owner = c

\* Undo and redo reach no further than the requester's own avatar: whatever
\* entry a walk-back can return for a client is about that client's avatar,
\* and its txId names that entry alone, so markUndone flips the entry that was
\* restored (applyClientTransaction 837-914).
HistoryIsOwn ==
    /\ \A i \in DOMAIN undoLog :
          /\ undoLog[i].entity = avatar[undoLog[i].client]
          /\ undoLog[i].txId < nextTxId
    /\ \A i, j \in DOMAIN undoLog : i < j => undoLog[i].txId < undoLog[j].txId

\* An avatar stands only where its own client has put it: at its spawn pose or
\* at the after-state of an edit its owner made, whatever undos and redos of
\* however many clients were applied in between.
PoseComesFromOwner ==
    \A c \in clients :
        \/ ents[avatar[c]].pose = Fresh
        \/ \E i \in DOMAIN undoLog :
              undoLog[i].client = c /\ undoLog[i].after = ents[avatar[c]].pose

\* Undo is exact for a client that never redid: its avatar stands at the
\* after-state of its latest edit not undone, or at its spawn pose when it has
\* undone them all, in any mix of edits and undos and whatever others do.
PoseIsLatestApplied ==
    \A c \in clients \ redid :
        \/ \E i \in DOMAIN undoLog :
              /\ IsLatestUndoable(undoLog, c, i)
              /\ ents[avatar[c]].pose = undoLog[i].after
        \/ /\ \A i \in DOMAIN undoLog : undoLog[i].client = c => undoLog[i].undone
           /\ ents[avatar[c]].pose = Fresh

Listening(c) == c \in clients /\ stage[c] = "synced" /\ conn[c] = "connected"

\* A client that finished its handshake has been told of the cube and of the
\* avatar of every other client that finished: the replay and the announcement
\* of a concurrent joiner together leave no gap, in any order of joining
\* (tickClientHandshake 563-593).
JoinComplete ==
    \A c \in ClientId : Listening(c) =>
        {CubeId} \cup {avatar[d] : d \in {x \in clients : stage[x] = "synced"}}
            \subseteq told[c]

\* Everything else a listening client still believes in is the avatar of a
\* client that left before it was welcomed: the departure of a welcomed client
\* is told to every listener (reap 1676-1687).
DepartureTold ==
    \A c \in ClientId : Listening(c) =>
        told[c] \ DOMAIN ents \subseteq
            {avatar[d] : d \in {x \in ClientId \ clients : ~Welcomed(x)}}

\* Every step changes the shared world as the abstract specification allows.
World == INSTANCE SharedWorld WITH
            Cube <- CubeId, SpawnPose <- Fresh, Pose <- Component,
            Id <- 1 .. (FirstAvatarId + MaxClients), Owner <- ClientId,
            entities <- [e \in DOMAIN ents |->
                            [owner |-> ents[e].owner, pose |-> ents[e].pose]],
            issued <- 1 .. (nextEntityId - 1),
            held <- [e \in DOMAIN ents |->
                        {Fresh} \cup {undoLog[i].after : i \in
                             {k \in DOMAIN undoLog : undoLog[k].entity = e}}]
ImplementsSharedWorld == World!Spec

\* Whatever the other clients and the network do, the handshake finishes for
\* every connection that completes and stays up (503-594), a client whose
\* connection shut down leaves the vector and the world (1656-1697), and what
\* a client sent is taken out of its inbox (948-1031).
ClientsAreServed ==
    \A c \in ClientId :
        /\ conn[c] = "connected" ~> (stage[c] = "synced" \/ conn[c] = "shutdown")
        /\ (c \in clients /\ conn[c] = "shutdown") ~> c \notin clients
        /\ inbox[c] # <<>> ~> inbox[c] = <<>>

\* Claim of the header (29-33) and of COLLAB_EDITING.md 9.1: avatars are
\* despawned on disconnect. A listening client believes in no entity that has
\* left the world.
GhostFree ==
    \A c \in ClientId : Listening(c) => told[c] \subseteq DOMAIN ents

=============================================================================
